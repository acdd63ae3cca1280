------------------------------ MODULE LamaMark ------------------------------
(***************************************************************************)
(* mark_phase and mark (runtime/gc.c): every root is taken in turn and the *)
(* objects reachable from it are visited breadth first.  The queue of the  *)
(* traversal needs no memory of its own: its k-th cell is the address part *)
(* of the forward_address word of the k-th object of the heap, in address  *)
(* order, so q_head_iter and q_tail_iter are heap iterators.  An object    *)
(* can therefore be the storage cell of one queue entry and the subject of *)
(* another at the same time.                                               *)
(***************************************************************************)
EXTENDS LamaHeap

VARIABLES
  phase,   \* control: roots, drain, fields, then locate when all is marked
  root,    \* the root that mark is working on, an index into RootOrder
  qHead,   \* q_head_iter.current
  qTail,   \* q_tail_iter.current
  cur,     \* header of the object just dequeued
  fld      \* position of ptr_field_it in that object

markVars == <<phase, root, qHead, qTail, cur, fld>>

\* What mark_phase relies on, and what alloc, the Lama runtime and an earlier
\* collection leave behind: a tiled heap, sound words and no bit set.
HeapInOrder == HeapTypeOK /\ Tiled /\ RootsSound /\ FieldsSound

MarkInit ==
  /\ HeapInOrder
  /\ AtRest
  /\ phase = "roots"
  /\ root = 1
  /\ qHead = heap.begin
  /\ qTail = heap.begin
  /\ cur = heap.begin
  /\ fld = 1

-----------------------------------------------------------------------------
RootValue == slots[RootOrder[root]]

\* Mistaken variants (see the README): the bit of the new entry is forgotten,
\* and the cell is written with its bits instead of around them.
EnqueueWithoutBit(tail, v) == [fwd EXCEPT ![tail].addr = v]
EnqueueWholeWord(tail, v) ==
  [fwd EXCEPT ![tail] = [addr |-> v, mark |-> FALSE, enq |-> FALSE],
              ![get_obj_header_ptr(v)].enq = TRUE]

\* queue_enqueue: the cell at tail receives v, then v's own bit is set.
queue_enqueue(tail, v) ==
  [fwd EXCEPT ![tail].addr = v, ![get_obj_header_ptr(v)].enq = TRUE]

\* Mistaken variant: the enqueued bit survives.
MarkWithoutDequeued(v) == [fwd EXCEPT ![get_obj_header_ptr(v)].mark = TRUE]

\* make_dequeued followed by mark_object.
dequeue_and_mark(v) ==
  [fwd EXCEPT ![get_obj_header_ptr(v)].enq = FALSE,
              ![get_obj_header_ptr(v)].mark = TRUE]

\* mark returns at once for an unboxed, foreign or already marked root.
must_mark(v) == is_valid_heap_pointer(v) /\ ~is_marked(v)

SkipRoot ==
  /\ phase = "roots"
  /\ root <= Len(RootOrder)
  /\ ~must_mark(RootValue)
  /\ root' = root + 1
  /\ UNCHANGED <<heapVars, phase, qHead, qTail, cur, fld>>

MarkRoot ==
  /\ phase = "roots"
  /\ root <= Len(RootOrder)
  /\ must_mark(RootValue)
  /\ fwd' = queue_enqueue(heap.begin, RootValue)
  /\ qHead' = heap.begin
  /\ qTail' = heap_next_obj_iterator(heap.begin)
  /\ phase' = "drain"
  /\ UNCHANGED <<heap, mem, slots, extra, root, cur, fld>>

\* Mistaken variant: the head of the queue does not advance.
HeadStays == qHead

next_head == heap_next_obj_iterator(qHead)

\* ptr_field_begin_iterator: the position of the first field.
ptr_field_begin == 1

Dequeue ==
  /\ phase = "drain"
  /\ qHead # qTail
  /\ LET v == fwd[qHead].addr
     IN  /\ fwd' = dequeue_and_mark(v)
         /\ cur' = get_obj_header_ptr(v)
  /\ qHead' = next_head
  /\ fld' = ptr_field_begin
  /\ phase' = "fields"
  /\ UNCHANGED <<heap, mem, slots, extra, root, qTail>>

FieldValue == mem[cur].flds[fld]

\* Mistaken variant: the last field is taken for the end of the object.
LastFieldIsEnd == fld < Len(mem[cur].flds)

\* Not field_is_done_iterator.
field_is_left == fld <= Len(mem[cur].flds)

\* Mistaken variant: an object that waits in the queue is enqueued again.
EnqueueUnlessMarked(v) == is_valid_heap_pointer(v) /\ ~is_marked(v)

\* The test in the field loop of mark.
must_enqueue(v) ==
  is_valid_heap_pointer(v) /\ ~is_marked(v) /\ ~is_enqueued(v)

EnqueueField ==
  /\ phase = "fields"
  /\ field_is_left
  /\ must_enqueue(FieldValue)
  /\ fwd' = queue_enqueue(qTail, FieldValue)
  /\ qTail' = heap_next_obj_iterator(qTail)
  /\ fld' = fld + 1
  /\ UNCHANGED <<heap, mem, slots, extra, phase, root, qHead, cur>>

SkipField ==
  /\ phase = "fields"
  /\ field_is_left
  /\ ~must_enqueue(FieldValue)
  /\ fld' = fld + 1
  /\ UNCHANGED <<heapVars, phase, root, qHead, qTail, cur>>

FieldsDone ==
  /\ phase = "fields"
  /\ ~field_is_left
  /\ phase' = "drain"
  /\ UNCHANGED <<heapVars, root, qHead, qTail, cur, fld>>

MarkReturns ==
  /\ phase = "drain"
  /\ qHead = qTail
  /\ root' = root + 1
  /\ phase' = "roots"
  /\ UNCHANGED <<heapVars, qHead, qTail, cur, fld>>

MarkPhaseDone ==
  /\ phase = "roots"
  /\ root > Len(RootOrder)
  /\ phase' = "locate"
  /\ UNCHANGED <<heapVars, root, qHead, qTail, cur, fld>>

MarkNext ==
  \/ SkipRoot
  \/ MarkRoot
  \/ Dequeue
  \/ EnqueueField
  \/ SkipField
  \/ FieldsDone
  \/ MarkReturns
  \/ MarkPhaseDone

\* mark_phase runs alone and to completion: the program is stopped while the
\* runtime function that allocates waits for it.
MarkSpec ==
  MarkInit /\ [][MarkNext]_<<heapVars, markVars>>
           /\ WF_<<heapVars, markVars>>(MarkNext)

-----------------------------------------------------------------------------
Marked   == {h \in DOMAIN fwd : fwd[h].mark}
Enqueued == {h \in DOMAIN fwd : fwd[h].enq}

\* The objects whose words have been written as queue cells by this mark call
\* and those cells that still hold an entry.
CellsBefore(h) == {c \in DOMAIN mem : c < h}
LiveCells      == {c \in DOMAIN mem : qHead <= c /\ c < qTail}

\* Objects that a word refers to, and that the roots and an object refer to.
Target(v)     == IF is_valid_heap_pointer(v) THEN {get_obj_header_ptr(v)} ELSE {}
RootTargets   == UNION {Target(slots[RootOrder[i]]) : i \in 1..Len(RootOrder)}
Successors(h) == UNION {Target(mem[h].flds[i]) : i \in 1..Len(mem[h].flds)}

\* A set of objects that contains what the roots refer to and is closed under
\* the fields of its members.  The live objects are the least such set.
Closed(S) == RootTargets \subseteq S /\ \A h \in S : Successors(h) \subseteq S

MarkTypeOK ==
  /\ HeapTypeOK
  /\ phase \in {"roots", "drain", "fields", "locate"}
  /\ root \in Nat \ {0}
  /\ qHead \in Nat
  /\ qTail \in Nat
  /\ cur \in Nat
  /\ fld \in Nat \ {0}

\* mark, the comment at its loop: the queue contains only content pointers of
\* unmarked objects, and each object at most once.  It also says that the two
\* bits of a forward_address word tell the truth although the rest of the word
\* is at the same time storage for some other entry.
QueueHoldsEachObjectOnce ==
  phase \in {"drain", "fields"} =>
    /\ \A c \in LiveCells :
         /\ get_obj_header_ptr(fwd[c].addr) \in DOMAIN mem
         /\ fwd[get_obj_header_ptr(fwd[c].addr)].enq
         /\ ~fwd[get_obj_header_ptr(fwd[c].addr)].mark
    /\ \A c, d \in LiveCells : fwd[c].addr = fwd[d].addr => c = d
    /\ \A h \in Enqueued :
         \E c \in LiveCells : fwd[c].addr = get_object_content_ptr(h)

\* gc.h says of mark that the space already allocated is sufficient: whenever
\* the field loop is about to enqueue, the tail cell is an object of the heap.
QueueFits ==
  phase = "fields" /\ fld <= Len(mem[cur].flds) /\ must_enqueue(FieldValue)
    => qTail \in DOMAIN mem

\* When mark_phase returns, the marked objects are exactly the live ones:
\* nothing reachable is lost and nothing unreachable is retained.
MarkedExactlyLive ==
  phase = "locate" =>
    /\ Enqueued = {}
    /\ Closed(Marked)
    /\ \A S \in SUBSET DOMAIN mem : Closed(S) => Marked \subseteq S

\* mark only ever writes forward_address words: no step moves an object or
\* changes a root, a field or the chunk, and a mark bit once set stays set.
MarkOnlyMarks ==
  [][ /\ UNCHANGED <<heap, mem, slots, extra>>
      /\ Marked \subseteq Marked' ]_<<heapVars, markVars>>

\* The marking loops terminate, on cyclic graphs too.
MarkTerminates == <>(phase = "locate")

-----------------------------------------------------------------------------
(* The inductive invariant that the theorems of LamaMark_proofs rest on.   *)

Reached == Marked \cup Enqueued

\* The iterators of a running mark call stand on objects or at the end.
QueueIterators ==
  phase \in {"drain", "fields"} =>
    /\ root \in 1..Len(RootOrder)
    /\ qHead \in DOMAIN mem \cup {heap.current}
    /\ qTail \in DOMAIN mem \cup {heap.current}
    /\ qHead <= qTail

NothingQueuedBetweenCalls == phase \in {"roots", "locate"} => Enqueued = {}

\* A queue cell is only written when one more object is marked or enqueued.
CellsPaidFor ==
  phase \in {"drain", "fields"} =>
    Cardinality(CellsBefore(qTail)) <= Cardinality(Reached)

\* Everything a marked object refers to has been reached, except what lies
\* ahead of the field iterator in the object just dequeued.
FieldsFollowed ==
  /\ phase = "fields" => cur \in Marked /\ fld <= Len(mem[cur].flds) + 1
  /\ \A h \in Marked : \A i \in 1..Len(mem[h].flds) :
       (phase = "fields" /\ h = cur => i < fld) => Target(mem[h].flds[i]) \subseteq Reached

\* Everything an earlier root refers to has been reached.
RootsFollowed ==
  /\ phase = "locate" => root > Len(RootOrder)
  /\ \A i \in 1..Len(RootOrder) :
       i < root \/ (i = root /\ phase \in {"drain", "fields"})
         => Target(slots[RootOrder[i]]) \subseteq Reached

\* Only live objects are reached.
OnlyLiveReached == \A S \in SUBSET DOMAIN mem : Closed(S) => Reached \subseteq S

MarkInvariant ==
  /\ MarkTypeOK
  /\ HeapInOrder
  /\ QueueIterators
  /\ NothingQueuedBetweenCalls
  /\ QueueHoldsEachObjectOnce
  /\ CellsPaidFor
  /\ FieldsFollowed
  /\ RootsFollowed
  /\ OnlyLiveReached
=============================================================================
