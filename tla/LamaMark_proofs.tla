-------------------------- MODULE LamaMark_proofs ---------------------------
(***************************************************************************)
(* Proofs about LamaMark, for every chunk, every heap that HeapInOrder     *)
(* describes and every set of roots.  MarkInvariant is inductive; from it  *)
(* follow the invariant that the comment in mark states, that the queue    *)
(* fits into the forward_address words, and that exactly the live objects  *)
(* are marked.                                                             *)
(***************************************************************************)
EXTENDS LamaMark, FiniteSetTheorems, TLAPS

-----------------------------------------------------------------------------
(* Lemmas about the heap.                                                  *)

\* Every object has at least the words of its header (obj_size_header_ptr).
LEMMA ObjectHasWords ==
  ASSUME HeapTypeOK, NEW h \in DOMAIN mem
  PROVE  /\ h \in Nat
         /\ size_at(h) \in Nat
         /\ size_at(h) >= HeaderWords
         /\ heap_next_obj_iterator(h) \in Nat
         /\ h < heap_next_obj_iterator(h)
<1>1. h \in Nat /\ mem[h].kind \in Kinds /\ mem[h].len \in Nat
  BY DEF HeapTypeOK, ObjectOK, Object
<1>2. mem[h].len \div 8 \in Nat
  BY <1>1
<1>3. size_at(h) \in Nat /\ size_at(h) >= 2
  <2> DEFINE k == mem[h].kind
             n == mem[h].len
  <2>1. obj_words(k, n) \in Nat /\ obj_words(k, n) >= 2
    BY <1>1, <1>2 DEF obj_words, HeaderWords, Kinds
  <2> QED
    BY <2>1 DEF size_at
<1> QED
  BY <1>1, <1>3 DEF heap_next_obj_iterator, HeaderWords

\* heap_next_obj_iterator leads from an object to the next one or to the end,
\* and no object lies in between.
LEMMA NextCell ==
  ASSUME HeapTypeOK, Tiled, NEW h \in DOMAIN mem
  PROVE  /\ heap_next_obj_iterator(h) \in DOMAIN mem \cup {heap.current}
         /\ h < heap.current
         /\ \A c \in DOMAIN mem : c < heap_next_obj_iterator(h) <=> c <= h
<1>1. /\ h \in Nat /\ heap_next_obj_iterator(h) \in Nat
      /\ h < heap_next_obj_iterator(h)
  BY ObjectHasWords
<1>2. heap.current \in Nat
  BY DEF HeapTypeOK
<1>3. ASSUME NEW c \in DOMAIN mem
      PROVE  c < heap_next_obj_iterator(h) <=> c <= h
  <2>1. c \in Nat
    BY DEF HeapTypeOK
  <2>2. h < c => heap_next_obj_iterator(h) <= c
    BY DEF Tiled
  <2> QED
    BY <1>1, <2>1, <2>2
<1> QED
  BY <1>1, <1>2, <1>3 DEF Tiled

\* The chunk holds finitely many objects.
LEMMA FinitelyManyObjects ==
  ASSUME HeapTypeOK, Tiled
  PROVE  IsFiniteSet(DOMAIN mem)
<1>1. DOMAIN mem \in SUBSET Nat /\ heap.current \in Nat
  BY DEF HeapTypeOK
<1>2. \A h \in DOMAIN mem : h < heap.current
  BY NextCell
<1>3. \A h \in DOMAIN mem : h <= heap.current
  BY <1>1, <1>2
<1> QED
  BY <1>1, <1>3, FS_BoundedSetOfNaturals

\* A sound word that passes the pointer test is the content of one object.
LEMMA PointerToObject ==
  ASSUME HeapTypeOK, NEW v \in Word, SoundWord(v)
  PROVE  /\ Target(v) \subseteq DOMAIN mem
         /\ is_valid_heap_pointer(v) =>
              /\ v \in Nat
              /\ get_obj_header_ptr(v) \in DOMAIN mem
              /\ get_object_content_ptr(get_obj_header_ptr(v)) = v
              /\ Target(v) = {get_obj_header_ptr(v)}
<1>1. is_valid_heap_pointer(v) => v \in Nat
  BY DEF Word, is_valid_heap_pointer, is_valid_pointer
<1> QED
  BY <1>1 DEF SoundWord, Target, get_obj_header_ptr, get_object_content_ptr, HeaderWords

\* A word that the tests of mark reject refers to nothing new.
LEMMA RejectedWordIsReached ==
  ASSUME HeapTypeOK, NEW v \in Word, SoundWord(v)
  PROVE  /\ ~must_mark(v) => Target(v) \subseteq Marked
         /\ ~must_enqueue(v) => Target(v) \subseteq Reached
<1>1. CASE ~is_valid_heap_pointer(v)
  BY <1>1 DEF Target
<1>2. CASE is_valid_heap_pointer(v)
  <2>1. Target(v) = {get_obj_header_ptr(v)} /\ get_obj_header_ptr(v) \in DOMAIN fwd
    BY <1>2, PointerToObject DEF HeapTypeOK
  <2> QED
    BY <1>2, <2>1 DEF must_mark, must_enqueue, is_marked, is_enqueued, Marked, Enqueued, Reached
<1> QED
  BY <1>1, <1>2

\* mark_phase visits a sequence of locations.
LEMMA RootOrderIsSeq ==
  ASSUME HeapTypeOK
  PROVE  RootOrder \in Seq(Loc)
BY HeapAssumption DEF RootOrder, HeapTypeOK

\* The words of the roots and of the fields are words, and sound.
LEMMA RootIsSound ==
  ASSUME HeapTypeOK, RootsSound, NEW i \in 1..Len(RootOrder)
  PROVE  slots[RootOrder[i]] \in Word /\ SoundWord(slots[RootOrder[i]])
<1>1. RootOrder \in Seq(Loc)
  BY RootOrderIsSeq
<1>2. RootOrder[i] \in Loc
  BY <1>1
<1> QED
  BY <1>2 DEF HeapTypeOK, RootsSound

\* A field of an object is a sound word.
LEMMA FieldIsSound ==
  ASSUME HeapTypeOK, FieldsSound, NEW h \in DOMAIN mem,
         NEW i \in 1..Len(mem[h].flds)
  PROVE  mem[h].flds[i] \in Word /\ SoundWord(mem[h].flds[i])
<1>1. mem[h].flds \in Seq(Word)
  BY DEF HeapTypeOK, ObjectOK, Object
<1> QED
  BY <1>1 DEF FieldsSound

-----------------------------------------------------------------------------
(* Lemmas about the steps: what a queue operation does to the              *)
(* forward_address words, and what it means that nothing else changes.     *)

\* queue_enqueue sets the bit of the new entry and keeps every mark.
LEMMA EnqueueEffect ==
  ASSUME HeapTypeOK, NEW tail \in DOMAIN mem, NEW v \in Nat,
         get_obj_header_ptr(v) \in DOMAIN mem,
         fwd' = queue_enqueue(tail, v)
  PROVE  /\ fwd' \in [DOMAIN mem -> ForwardWord]
         /\ \A c \in DOMAIN mem :
              /\ fwd'[c].addr = IF c = tail THEN v ELSE fwd[c].addr
              /\ fwd'[c].enq <=> c = get_obj_header_ptr(v) \/ fwd[c].enq
              /\ fwd'[c].mark <=> fwd[c].mark
<1>1. fwd \in [DOMAIN mem -> ForwardWord]
  BY DEF HeapTypeOK
<1> QED
  BY <1>1, ZenonT(30) DEF queue_enqueue, ForwardWord

\* Dequeuing turns the enqueued bit of one object into its mark bit.
LEMMA DequeueEffect ==
  ASSUME HeapTypeOK, NEW v, get_obj_header_ptr(v) \in DOMAIN mem,
         fwd' = dequeue_and_mark(v)
  PROVE  /\ fwd' \in [DOMAIN mem -> ForwardWord]
         /\ \A c \in DOMAIN mem :
              /\ fwd'[c].addr = fwd[c].addr
              /\ fwd'[c].enq <=> c # get_obj_header_ptr(v) /\ fwd[c].enq
              /\ fwd'[c].mark <=> c = get_obj_header_ptr(v) \/ fwd[c].mark
<1>1. fwd \in [DOMAIN mem -> ForwardWord]
  BY DEF HeapTypeOK
<1> QED
  BY <1>1 DEF dequeue_and_mark, ForwardWord

\* A step of mark leaves the object graph alone, and with it every notion that
\* is defined by it.
LEMMA GraphUnchanged ==
  ASSUME UNCHANGED <<heap, mem, slots, extra>>
  PROVE  /\ RootOrder' = RootOrder
         /\ \A v : Target(v)' = Target(v)
         /\ \A S : Closed(S)' <=> Closed(S)
         /\ Tiled' <=> Tiled
         /\ RootsSound' <=> RootsSound
         /\ FieldsSound' <=> FieldsSound
<1>1. RootOrder' = RootOrder
  BY DEF RootOrder
<1>2. \A v : Target(v)' = Target(v)
  BY DEF Target, is_valid_heap_pointer
<1>3. \A S : Closed(S)' <=> Closed(S)
  BY <1>1 DEF Closed, RootTargets, Successors, Target, is_valid_heap_pointer
<1>4. Tiled' <=> Tiled
  BY DEF Tiled, heap_end, heap_next_obj_iterator, size_at
<1>5. RootsSound' <=> RootsSound
  BY <1>1 DEF RootsSound, SoundWord, is_valid_heap_pointer
<1>6. FieldsSound' <=> FieldsSound
  BY DEF FieldsSound, SoundWord, is_valid_heap_pointer
<1> QED
  BY <1>1, <1>2, <1>3, <1>4, <1>5, <1>6

-----------------------------------------------------------------------------
(* MarkInvariant is inductive: the initial states and one lemma per action.*)

\* mark_phase starts on a heap at rest, with no root visited, whatever its other
\* variables hold.
LEMMA MarkingBegins ==
  MarkTypeOK /\ HeapInOrder /\ AtRest /\ phase = "roots" /\ root = 1 => MarkInvariant
<1> SUFFICES ASSUME MarkTypeOK, HeapInOrder, AtRest, phase = "roots", root = 1
             PROVE  MarkInvariant
  OBVIOUS
<1>1. Enqueued = {} /\ Marked = {}
  BY DEF AtRest, Enqueued, Marked
<1>2. QueueIterators /\ QueueHoldsEachObjectOnce /\ CellsPaidFor /\ NothingQueuedBetweenCalls
  BY <1>1 DEF QueueIterators, QueueHoldsEachObjectOnce, CellsPaidFor, NothingQueuedBetweenCalls
<1>3. FieldsFollowed
  BY <1>1 DEF FieldsFollowed
<1>4. RootsFollowed
  <2>1. \A i \in 1..Len(RootOrder) : ~(i < 1)
    OBVIOUS
  <2> QED
    BY <2>1 DEF RootsFollowed
<1>5. OnlyLiveReached
  BY <1>1 DEF OnlyLiveReached, Reached
<1> QED
  BY <1>1, <1>2, <1>3, <1>4, <1>5 DEF MarkInvariant

LEMMA InvariantHoldsInitially == MarkInit => MarkInvariant
<1> SUFFICES ASSUME MarkInit PROVE MarkInvariant
  OBVIOUS
<1>1. MarkTypeOK
  BY DEF MarkInit, HeapInOrder, MarkTypeOK, HeapTypeOK
<1> QED
  BY <1>1, MarkingBegins DEF MarkInit

\* What the steps that write no forward_address word keep.
LEMMA QuietStep ==
  ASSUME MarkInvariant, UNCHANGED heapVars
  PROVE  /\ HeapTypeOK' /\ HeapInOrder'
         /\ Marked' = Marked /\ Enqueued' = Enqueued /\ Reached' = Reached
         /\ OnlyLiveReached'
         /\ \A v : Target(v)' = Target(v)
         /\ RootOrder' = RootOrder
<1>1. UNCHANGED <<heap, mem, fwd, slots, extra>>
  BY DEF heapVars
<1>2. HeapInOrder /\ HeapTypeOK /\ OnlyLiveReached
  BY DEF MarkInvariant, HeapInOrder
<1>3. HeapTypeOK'
  BY <1>1, <1>2 DEF HeapTypeOK
<1>4. HeapInOrder'
  BY <1>1, <1>2, <1>3, GraphUnchanged DEF HeapInOrder
<1>5. Marked' = Marked /\ Enqueued' = Enqueued /\ Reached' = Reached
  BY <1>1 DEF Marked, Enqueued, Reached
<1>6. \A S : Closed(S)' <=> Closed(S)
  BY <1>1, GraphUnchanged
<1>7. OnlyLiveReached'
  BY <1>1, <1>2, <1>5, <1>6 DEF OnlyLiveReached
<1>8. (\A v : Target(v)' = Target(v)) /\ RootOrder' = RootOrder
  BY <1>1, GraphUnchanged
<1> QED
  BY <1>3, <1>4, <1>5, <1>7, <1>8

\* A root that is unboxed, foreign or marked needs no visit.
LEMMA SkipRootStep ==
  ASSUME MarkInvariant, SkipRoot
  PROVE  MarkInvariant'
<1>1. /\ phase = "roots" /\ root <= Len(RootOrder) /\ ~must_mark(RootValue)
      /\ root' = root + 1
      /\ UNCHANGED <<heapVars, phase, qHead, qTail, cur, fld>>
  BY DEF SkipRoot
<1>2. UNCHANGED <<heap, mem, fwd, slots, extra>>
  BY <1>1 DEF heapVars
<1>0. HeapTypeOK /\ RootsSound
  BY DEF MarkInvariant, HeapInOrder
<1>3. /\ HeapTypeOK' /\ HeapInOrder' /\ OnlyLiveReached'
      /\ Marked' = Marked /\ Enqueued' = Enqueued /\ Reached' = Reached
      /\ \A v : Target(v)' = Target(v)
      /\ RootOrder' = RootOrder
  BY <1>1, QuietStep
<1>4. MarkTypeOK'
  BY <1>1, <1>3 DEF MarkInvariant, MarkTypeOK
<1>5. QueueIterators' /\ QueueHoldsEachObjectOnce' /\ CellsPaidFor'
  BY <1>1 DEF QueueIterators, QueueHoldsEachObjectOnce, CellsPaidFor
<1>6. NothingQueuedBetweenCalls'
  BY <1>1, <1>3 DEF MarkInvariant, NothingQueuedBetweenCalls
<1>7. FieldsFollowed'
  BY <1>1, <1>2, <1>3 DEF MarkInvariant, FieldsFollowed
<1>8. RootsFollowed'
  <2>1. root \in 1..Len(RootOrder)
    BY <1>0, <1>1, RootOrderIsSeq DEF MarkInvariant, MarkTypeOK
  <2>2. Target(RootValue) \subseteq Reached
    <3>1. RootValue \in Word /\ SoundWord(RootValue)
      BY <1>0, <2>1, RootIsSound DEF RootValue
    <3> QED
      BY <1>0, <1>1, <3>1, RejectedWordIsReached DEF Reached
  <2> QED
    BY <1>1, <1>2, <1>3, <2>1, <2>2 DEF MarkInvariant, RootsFollowed, RootValue, MarkTypeOK
<1> QED
  BY <1>3, <1>4, <1>5, <1>6, <1>7, <1>8 DEF MarkInvariant

\* A field that is unboxed, foreign, marked or already in the queue.
LEMMA SkipFieldStep ==
  ASSUME MarkInvariant, SkipField
  PROVE  MarkInvariant'
<1>1. /\ phase = "fields" /\ fld <= Len(mem[cur].flds) /\ ~must_enqueue(FieldValue)
      /\ fld' = fld + 1
      /\ UNCHANGED <<heapVars, phase, root, qHead, qTail, cur>>
  BY DEF SkipField, field_is_left
<1>2. UNCHANGED <<heap, mem, fwd, slots, extra>>
  BY <1>1 DEF heapVars
<1>3. /\ HeapTypeOK' /\ HeapInOrder' /\ OnlyLiveReached'
      /\ Marked' = Marked /\ Enqueued' = Enqueued /\ Reached' = Reached
      /\ \A v : Target(v)' = Target(v)
      /\ RootOrder' = RootOrder
  BY <1>1, QuietStep
<1>4. HeapTypeOK /\ FieldsSound /\ cur \in DOMAIN mem /\ fld \in Nat \ {0}
  BY <1>1 DEF MarkInvariant, HeapInOrder, FieldsFollowed, Marked, HeapTypeOK, MarkTypeOK
<1>5. Len(mem[cur].flds) \in Nat
  BY <1>4 DEF HeapTypeOK, ObjectOK, Object
<1>6. MarkTypeOK'
  BY <1>1, <1>3, <1>4 DEF MarkInvariant, MarkTypeOK
<1>7. QueueIterators' /\ QueueHoldsEachObjectOnce' /\ CellsPaidFor'
  <2>1. LiveCells' = LiveCells /\ CellsBefore(qTail)' = CellsBefore(qTail)
    BY <1>1, <1>2 DEF LiveCells, CellsBefore
  <2> QED
    BY <1>1, <1>2, <1>3, <2>1
       DEF MarkInvariant, QueueIterators, QueueHoldsEachObjectOnce, CellsPaidFor
<1>8. NothingQueuedBetweenCalls'
  BY <1>1 DEF NothingQueuedBetweenCalls
<1>9. FieldsFollowed'
  <2>1. Target(FieldValue) \subseteq Reached
    BY <1>1, <1>4, <1>5, FieldIsSound, RejectedWordIsReached DEF FieldValue
  <2>2. cur' \in Marked' /\ fld' <= Len(mem[cur].flds) + 1
    BY <1>1, <1>3, <1>4, <1>5 DEF MarkInvariant, FieldsFollowed
  <2>3. ASSUME NEW h \in Marked, NEW i \in 1..Len(mem[h].flds), h = cur => i < fld + 1
        PROVE  Target(mem[h].flds[i]) \subseteq Reached
    <3>1. CASE h = cur /\ i = fld
      BY <2>1, <3>1 DEF FieldValue
    <3>2. CASE h = cur => i < fld
      BY <3>2 DEF MarkInvariant, FieldsFollowed
    <3> QED
      BY <1>4, <1>5, <2>3, <3>1, <3>2
  <2> QED
    BY <1>1, <1>2, <1>3, <2>2, <2>3 DEF FieldsFollowed
<1>10. RootsFollowed'
  BY <1>1, <1>2, <1>3 DEF MarkInvariant, RootsFollowed
<1> QED
  BY <1>3, <1>6, <1>7, <1>8, <1>9, <1>10 DEF MarkInvariant

\* All fields of the dequeued object have been looked at.
LEMMA FieldsDoneStep ==
  ASSUME MarkInvariant, FieldsDone
  PROVE  MarkInvariant'
<1>1. /\ phase = "fields" /\ ~field_is_left
      /\ phase' = "drain"
      /\ UNCHANGED <<heapVars, root, qHead, qTail, cur, fld>>
  BY DEF FieldsDone
<1>2. UNCHANGED <<heap, mem, fwd, slots, extra>>
  BY <1>1 DEF heapVars
<1>3. /\ HeapTypeOK' /\ HeapInOrder' /\ OnlyLiveReached'
      /\ Marked' = Marked /\ Enqueued' = Enqueued /\ Reached' = Reached
      /\ \A v : Target(v)' = Target(v)
      /\ RootOrder' = RootOrder
  BY <1>1, QuietStep
<1>4. MarkTypeOK'
  BY <1>1, <1>3 DEF MarkInvariant, MarkTypeOK
<1>5. QueueIterators' /\ QueueHoldsEachObjectOnce' /\ CellsPaidFor'
  <2>1. LiveCells' = LiveCells /\ CellsBefore(qTail)' = CellsBefore(qTail)
    BY <1>1, <1>2 DEF LiveCells, CellsBefore
  <2> QED
    BY <1>1, <1>2, <1>3, <2>1
       DEF MarkInvariant, QueueIterators, QueueHoldsEachObjectOnce, CellsPaidFor
<1>6. NothingQueuedBetweenCalls'
  BY <1>1 DEF NothingQueuedBetweenCalls
<1>7. FieldsFollowed'
  <2>1. HeapTypeOK /\ cur \in DOMAIN mem /\ fld \in Nat
    BY <1>1 DEF MarkInvariant, HeapInOrder, FieldsFollowed, Marked, HeapTypeOK, MarkTypeOK
  <2>2. Len(mem[cur].flds) \in Nat
    BY <2>1 DEF HeapTypeOK, ObjectOK, Object
  <2>3. \A i \in 1..Len(mem[cur].flds) : i < fld
    BY <1>1, <2>1, <2>2 DEF field_is_left
  <2> QED
    BY <1>1, <1>2, <1>3, <2>3 DEF MarkInvariant, FieldsFollowed
<1>8. RootsFollowed'
  BY <1>1, <1>2, <1>3 DEF MarkInvariant, RootsFollowed
<1> QED
  BY <1>3, <1>4, <1>5, <1>6, <1>7, <1>8 DEF MarkInvariant

\* The queue is empty: mark returns to the loop over the roots.
LEMMA MarkReturnsStep ==
  ASSUME MarkInvariant, MarkReturns
  PROVE  MarkInvariant'
<1>1. /\ phase = "drain" /\ qHead = qTail
      /\ root' = root + 1
      /\ phase' = "roots"
      /\ UNCHANGED <<heapVars, qHead, qTail, cur, fld>>
  BY DEF MarkReturns
<1>2. UNCHANGED <<heap, mem, fwd, slots, extra>>
  BY <1>1 DEF heapVars
<1>3. /\ HeapTypeOK' /\ HeapInOrder' /\ OnlyLiveReached'
      /\ Marked' = Marked /\ Enqueued' = Enqueued /\ Reached' = Reached
      /\ \A v : Target(v)' = Target(v)
      /\ RootOrder' = RootOrder
  BY <1>1, QuietStep
<1>4. MarkTypeOK'
  BY <1>1, <1>3 DEF MarkInvariant, MarkTypeOK
<1>5. QueueIterators' /\ QueueHoldsEachObjectOnce' /\ CellsPaidFor'
  BY <1>1 DEF QueueIterators, QueueHoldsEachObjectOnce, CellsPaidFor
<1>6. NothingQueuedBetweenCalls'
  <2>1. DOMAIN mem \subseteq Nat /\ qHead \in Nat /\ qTail \in Nat
    BY DEF MarkInvariant, HeapInOrder, HeapTypeOK, MarkTypeOK
  <2>2. LiveCells = {}
    BY <1>1, <2>1 DEF LiveCells
  <2>3. Enqueued = {}
    BY <1>1, <2>2 DEF MarkInvariant, QueueHoldsEachObjectOnce
  <2> QED
    BY <1>3, <2>3 DEF NothingQueuedBetweenCalls
<1>7. FieldsFollowed'
  BY <1>1, <1>2, <1>3 DEF MarkInvariant, FieldsFollowed
<1>8. RootsFollowed'
  BY <1>1, <1>2, <1>3 DEF MarkInvariant, MarkTypeOK, RootsFollowed
<1> QED
  BY <1>3, <1>4, <1>5, <1>6, <1>7, <1>8 DEF MarkInvariant

\* The last root is done.
LEMMA MarkPhaseDoneStep ==
  ASSUME MarkInvariant, MarkPhaseDone
  PROVE  MarkInvariant'
<1>1. /\ phase = "roots" /\ root > Len(RootOrder)
      /\ phase' = "locate"
      /\ UNCHANGED <<heapVars, root, qHead, qTail, cur, fld>>
  BY DEF MarkPhaseDone
<1>2. UNCHANGED <<heap, mem, fwd, slots, extra>>
  BY <1>1 DEF heapVars
<1>3. /\ HeapTypeOK' /\ HeapInOrder' /\ OnlyLiveReached'
      /\ Marked' = Marked /\ Enqueued' = Enqueued /\ Reached' = Reached
      /\ \A v : Target(v)' = Target(v)
      /\ RootOrder' = RootOrder
  BY <1>1, QuietStep
<1>4. MarkTypeOK'
  BY <1>1, <1>3 DEF MarkInvariant, MarkTypeOK
<1>5. QueueIterators' /\ QueueHoldsEachObjectOnce' /\ CellsPaidFor'
  BY <1>1 DEF QueueIterators, QueueHoldsEachObjectOnce, CellsPaidFor
<1>6. NothingQueuedBetweenCalls'
  BY <1>1, <1>3 DEF MarkInvariant, NothingQueuedBetweenCalls
<1>7. FieldsFollowed'
  BY <1>1, <1>2, <1>3 DEF MarkInvariant, FieldsFollowed
<1>8. RootsFollowed'
  BY <1>1, <1>2, <1>3 DEF MarkInvariant, RootsFollowed
<1> QED
  BY <1>3, <1>4, <1>5, <1>6, <1>7, <1>8 DEF MarkInvariant

\* What the steps that write forward_address words keep.
LEMMA MarkingStep ==
  ASSUME MarkInvariant, UNCHANGED <<heap, mem, slots, extra>>,
         fwd' \in [DOMAIN mem -> ForwardWord]
  PROVE  /\ HeapTypeOK' /\ HeapInOrder'
         /\ \A v : Target(v)' = Target(v)
         /\ \A S : Closed(S)' <=> Closed(S)
         /\ RootOrder' = RootOrder
<1>1. HeapInOrder /\ HeapTypeOK
  BY DEF MarkInvariant, HeapInOrder
<1>2. HeapTypeOK'
  BY <1>1 DEF HeapTypeOK
<1>3. HeapInOrder'
  BY <1>1, <1>2, GraphUnchanged DEF HeapInOrder
<1> QED
  BY <1>2, <1>3, GraphUnchanged

\* A root that must be visited: the queue is started with it.
LEMMA MarkRootStep ==
  ASSUME MarkInvariant, MarkRoot
  PROVE  MarkInvariant' /\ Marked \subseteq Marked'
<1> DEFINE v == RootValue
           h0 == get_obj_header_ptr(v)
           b == heap.begin
<1>1. /\ phase = "roots" /\ root <= Len(RootOrder)
      /\ must_mark(v)
      /\ fwd' = queue_enqueue(b, v)
      /\ qHead' = b
      /\ qTail' = heap_next_obj_iterator(b)
      /\ phase' = "drain"
      /\ UNCHANGED <<heap, mem, slots, extra, root, cur, fld>>
  BY DEF MarkRoot
<1>2. HeapTypeOK /\ Tiled /\ RootsSound /\ MarkTypeOK
  BY DEF MarkInvariant, HeapInOrder
<1>3. root \in 1..Len(RootOrder)
  BY <1>1, <1>2, RootOrderIsSeq DEF MarkTypeOK
<1>4. v \in Word /\ SoundWord(v)
  BY <1>2, <1>3, RootIsSound DEF RootValue
<1>5. v \in Nat /\ h0 \in DOMAIN mem /\ get_object_content_ptr(h0) = v /\ Target(v) = {h0}
  BY <1>1, <1>2, <1>4, PointerToObject DEF must_mark
<1>6. b \in DOMAIN mem
  <2>1. b <= h0 /\ h0 < heap.current
    BY <1>2, <1>5, NextCell DEF Tiled
  <2>2. b \in Nat /\ heap.current \in Nat /\ h0 \in Nat
    BY <1>2, <1>5 DEF HeapTypeOK
  <2> QED
    BY <1>2, <2>1, <2>2 DEF Tiled
<1>7. /\ fwd' \in [DOMAIN mem -> ForwardWord]
      /\ \A c \in DOMAIN mem :
           /\ fwd'[c].addr = IF c = b THEN v ELSE fwd[c].addr
           /\ fwd'[c].enq <=> c = h0 \/ fwd[c].enq
           /\ fwd'[c].mark <=> fwd[c].mark
  BY <1>1, <1>2, <1>5, <1>6, EnqueueEffect
<1>8. /\ HeapTypeOK' /\ HeapInOrder' /\ RootOrder' = RootOrder
      /\ \A w : Target(w)' = Target(w)
      /\ \A S : Closed(S)' <=> Closed(S)
  BY <1>1, <1>7, MarkingStep
<1>9. fwd \in [DOMAIN mem -> ForwardWord] /\ Enqueued = {}
  BY <1>1, <1>2 DEF MarkInvariant, HeapTypeOK, NothingQueuedBetweenCalls
<1>10. Enqueued' = {h0} /\ Marked' = Marked /\ h0 \notin Marked
  <2>1. Enqueued' = {h0}
    BY <1>5, <1>7, <1>9 DEF Enqueued
  <2>2. Marked' = Marked
    BY <1>7, <1>9 DEF Marked
  <2>3. h0 \notin Marked
    BY <1>1 DEF must_mark, is_marked, Marked
  <2> QED
    BY <2>1, <2>2, <2>3
<1>11. Reached' = Reached \cup {h0}
  BY <1>9, <1>10 DEF Reached
<1>12. /\ heap_next_obj_iterator(b) \in DOMAIN mem \cup {heap.current}
       /\ heap_next_obj_iterator(b) \in Nat
       /\ b < heap_next_obj_iterator(b)
       /\ \A c \in DOMAIN mem : c < heap_next_obj_iterator(b) <=> c <= b
  BY <1>2, <1>6, NextCell, ObjectHasWords
<1>13. \A c \in DOMAIN mem : c \in Nat /\ b <= c
  BY <1>2 DEF HeapTypeOK, Tiled
<1>14. b \in Nat
  BY <1>2 DEF HeapTypeOK
<1>15. MarkTypeOK'
  BY <1>1, <1>2, <1>8, <1>12, <1>14 DEF MarkTypeOK
<1>16. QueueIterators'
  BY <1>1, <1>3, <1>6, <1>8, <1>12, <1>14 DEF QueueIterators
<1>17. QueueHoldsEachObjectOnce'
  <2>1. LiveCells' = {b}
    BY <1>1, <1>6, <1>12, <1>13, <1>14 DEF LiveCells
  <2>2. fwd'[b].addr = v /\ fwd'[h0].enq /\ ~fwd'[h0].mark
    BY <1>5, <1>6, <1>7, <1>9, <1>10 DEF Marked
  <2> QED
    BY <1>1, <1>5, <1>10, <2>1, <2>2 DEF QueueHoldsEachObjectOnce
<1>18. NothingQueuedBetweenCalls'
  BY <1>1 DEF NothingQueuedBetweenCalls
<1>19. CellsPaidFor'
  <2>1. CellsBefore(qTail)' = {b}
    BY <1>1, <1>6, <1>12, <1>13, <1>14 DEF CellsBefore
  <2>2. Cardinality({b}) = 1 /\ Cardinality({h0}) = 1
    BY FS_Singleton
  <2>3. IsFiniteSet(Reached')
    <3>1. Reached' \in SUBSET DOMAIN mem
      BY <1>5, <1>9, <1>11 DEF Reached, Marked, Enqueued
    <3> QED
      BY <1>2, <3>1, FinitelyManyObjects, FS_Subset
  <2>4. Cardinality({h0}) <= Cardinality(Reached')
    <3>1. {h0} \in SUBSET (Reached')
      BY <1>11
    <3> QED
      BY <2>3, <3>1, FS_Subset
  <2> QED
    BY <2>1, <2>2, <2>4 DEF CellsPaidFor
<1>20. FieldsFollowed'
  BY <1>1, <1>8, <1>10, <1>11 DEF MarkInvariant, FieldsFollowed
<1>21. RootsFollowed'
  <2>1. ASSUME NEW i \in 1..Len(RootOrder), i < root \/ i = root
        PROVE  Target(slots[RootOrder[i]]) \subseteq Reached \cup {h0}
    <3>1. CASE i = root
      BY <1>5, <3>1 DEF RootValue
    <3>2. CASE i < root
      BY <1>1, <3>2 DEF MarkInvariant, RootsFollowed
    <3> QED
      BY <2>1, <3>1, <3>2
  <2> QED
    BY <1>1, <1>8, <1>11, <2>1 DEF RootsFollowed
<1>22. OnlyLiveReached'
  <2>1. ASSUME NEW S \in SUBSET DOMAIN mem, Closed(S)
        PROVE  Reached \cup {h0} \subseteq S
    <3>1. h0 \in RootTargets
      BY <1>3, <1>5 DEF RootTargets, RootValue
    <3> QED
      BY <2>1, <3>1 DEF MarkInvariant, OnlyLiveReached, Closed
  <2> QED
    BY <1>1, <1>8, <1>11, <2>1 DEF OnlyLiveReached
<1> QED
  BY <1>10, <1>8, <1>15, <1>16, <1>17, <1>18, <1>19, <1>20, <1>21, <1>22 DEF MarkInvariant

\* The head of the queue is dequeued and marked.
LEMMA DequeueStep ==
  ASSUME MarkInvariant, Dequeue
  PROVE  MarkInvariant' /\ Marked \subseteq Marked'
<1> DEFINE v == fwd[qHead].addr
           h0 == get_obj_header_ptr(v)
<1>1. /\ phase = "drain" /\ qHead # qTail
      /\ fwd' = dequeue_and_mark(v)
      /\ cur' = h0
      /\ qHead' = heap_next_obj_iterator(qHead)
      /\ fld' = 1
      /\ phase' = "fields"
      /\ UNCHANGED <<heap, mem, slots, extra, root, qTail>>
  BY DEF Dequeue, next_head, ptr_field_begin
<1>2. HeapTypeOK /\ Tiled /\ MarkTypeOK /\ QueueIterators /\ QueueHoldsEachObjectOnce
  BY DEF MarkInvariant, HeapInOrder
<1>3. /\ fwd \in [DOMAIN mem -> ForwardWord]
      /\ heap.current \in Nat
      /\ \A c \in DOMAIN mem : c \in Nat /\ c < heap.current
  BY <1>2, NextCell DEF HeapTypeOK
<1>4. /\ qHead \in Nat /\ qTail \in Nat /\ qHead < qTail
      /\ qTail \in DOMAIN mem \cup {heap.current}
      /\ qHead \in DOMAIN mem
  <2>1. /\ qHead \in DOMAIN mem \cup {heap.current}
        /\ qTail \in DOMAIN mem \cup {heap.current}
        /\ qHead <= qTail
    BY <1>1, <1>2 DEF QueueIterators
  <2>2. qHead \in Nat /\ qTail \in Nat /\ qHead < qTail
    BY <1>1, <1>2, <2>1 DEF MarkTypeOK
  <2>3. qHead # heap.current
    BY <1>3, <2>1, <2>2
  <2> QED
    BY <2>1, <2>2, <2>3
<1>5. qHead \in LiveCells
  BY <1>4 DEF LiveCells
<1>6. h0 \in DOMAIN mem /\ fwd[h0].enq /\ ~fwd[h0].mark /\ v \in Nat
  <2>1. v \in Nat
    BY <1>3, <1>4 DEF ForwardWord
  <2> QED
    BY <1>1, <1>2, <1>5, <2>1 DEF QueueHoldsEachObjectOnce
<1>7. /\ fwd' \in [DOMAIN mem -> ForwardWord]
      /\ \A c \in DOMAIN mem :
           /\ fwd'[c].addr = fwd[c].addr
           /\ fwd'[c].enq <=> c # h0 /\ fwd[c].enq
           /\ fwd'[c].mark <=> c = h0 \/ fwd[c].mark
  BY <1>1, <1>2, <1>6, DequeueEffect
<1>8. /\ HeapTypeOK' /\ HeapInOrder' /\ RootOrder' = RootOrder
      /\ \A w : Target(w)' = Target(w)
      /\ \A S : Closed(S)' <=> Closed(S)
  BY <1>1, <1>7, MarkingStep
<1>9. Enqueued' = Enqueued \ {h0} /\ Marked' = Marked \cup {h0} /\ h0 \in Enqueued
  <2>1. Enqueued' = Enqueued \ {h0} /\ h0 \in Enqueued
    BY <1>3, <1>6, <1>7 DEF Enqueued
  <2>2. Marked' = Marked \cup {h0}
    BY <1>3, <1>6, <1>7 DEF Marked
  <2> QED
    BY <2>1, <2>2
<1>10. Reached' = Reached
  BY <1>9 DEF Reached
<1>11. /\ heap_next_obj_iterator(qHead) \in DOMAIN mem \cup {heap.current}
       /\ heap_next_obj_iterator(qHead) \in Nat
       /\ heap_next_obj_iterator(qHead) <= heap.current
       /\ \A c \in DOMAIN mem : c < heap_next_obj_iterator(qHead) <=> c <= qHead
  BY <1>2, <1>4, NextCell, ObjectHasWords DEF Tiled
<1>12. heap_next_obj_iterator(qHead) <= qTail
  <2>1. CASE qTail \in DOMAIN mem
    BY <1>4, <1>11, <2>1
  <2>2. CASE qTail = heap.current
    BY <1>11, <2>2
  <2> QED
    BY <1>4, <2>1, <2>2
<1>13. MarkTypeOK'
  BY <1>1, <1>2, <1>3, <1>6, <1>8, <1>11 DEF MarkTypeOK
<1>14. QueueIterators'
  BY <1>1, <1>2, <1>8, <1>11, <1>12 DEF QueueIterators
<1>15. QueueHoldsEachObjectOnce'
  <2>1. LiveCells' = LiveCells \ {qHead}
    BY <1>1, <1>3, <1>4, <1>11 DEF LiveCells
  <2>2. ASSUME NEW c \in LiveCells', NEW d \in LiveCells'
        PROVE  /\ get_obj_header_ptr(fwd'[c].addr) \in DOMAIN mem
               /\ fwd'[get_obj_header_ptr(fwd'[c].addr)].enq
               /\ ~fwd'[get_obj_header_ptr(fwd'[c].addr)].mark
               /\ fwd'[c].addr = fwd'[d].addr => c = d
    <3>1. c \in LiveCells /\ c # qHead /\ d \in LiveCells
      BY <2>1
    <3>2. c \in DOMAIN mem /\ d \in DOMAIN mem
      BY <3>1 DEF LiveCells
    <3>3. fwd'[c].addr = fwd[c].addr /\ fwd'[d].addr = fwd[d].addr
      BY <1>7, <3>2
    <3>4. /\ get_obj_header_ptr(fwd[c].addr) \in DOMAIN mem
          /\ fwd[get_obj_header_ptr(fwd[c].addr)].enq
          /\ ~fwd[get_obj_header_ptr(fwd[c].addr)].mark
          /\ fwd[c].addr = fwd[d].addr => c = d
          /\ fwd[c].addr # v
      BY <1>1, <1>2, <1>5, <3>1 DEF QueueHoldsEachObjectOnce
    <3>5. fwd[c].addr \in Nat
      BY <1>3, <3>2 DEF ForwardWord
    <3>6. get_obj_header_ptr(fwd[c].addr) # h0
      BY <1>6, <3>4, <3>5 DEF get_obj_header_ptr, HeaderWords
    <3> QED
      BY <1>7, <3>3, <3>4, <3>6
  <2>3. ASSUME NEW h \in Enqueued'
        PROVE  \E c \in LiveCells' : fwd'[c].addr = get_object_content_ptr(h)
    <3>1. h \in Enqueued /\ h # h0
      BY <1>9
    <3>2. PICK c \in LiveCells : fwd[c].addr = get_object_content_ptr(h)
      BY <1>1, <1>2, <3>1 DEF QueueHoldsEachObjectOnce
    <3>3. h \in Nat
      BY <1>3, <3>1 DEF Enqueued
    <3>4. c # qHead
      BY <3>1, <3>2, <3>3 DEF get_object_content_ptr, get_obj_header_ptr, HeaderWords
    <3>5. fwd'[c].addr = fwd[c].addr
      BY <1>7 DEF LiveCells
    <3> QED
      BY <2>1, <3>2, <3>4, <3>5
  <2> QED
    BY <1>1, <2>2, <2>3 DEF QueueHoldsEachObjectOnce, get_object_content_ptr
<1>16. NothingQueuedBetweenCalls'
  BY <1>1 DEF NothingQueuedBetweenCalls
<1>17. CellsPaidFor'
  <2>1. CellsBefore(qTail)' = CellsBefore(qTail)
    BY <1>1 DEF CellsBefore
  <2> QED
    BY <1>1, <1>10, <2>1 DEF MarkInvariant, CellsPaidFor
<1>18. FieldsFollowed'
  <2>1. cur' \in Marked' /\ Len(mem[h0].flds) \in Nat
    BY <1>1, <1>2, <1>6, <1>9 DEF HeapTypeOK, ObjectOK, Object
  <2>2. \A h \in Marked : \A i \in 1..Len(mem[h].flds) : Target(mem[h].flds[i]) \subseteq Reached
    BY <1>1 DEF MarkInvariant, FieldsFollowed
  <2>3. \A i \in 1..Len(mem[h0].flds) : ~(i < 1)
    BY <2>1
  <2>4. fld' <= Len(mem[h0].flds) + 1
    BY <1>1, <2>1
  <2> QED
    BY <1>1, <1>8, <1>9, <1>10, <2>1, <2>2, <2>3, <2>4 DEF FieldsFollowed
<1>19. RootsFollowed'
  BY <1>1, <1>8, <1>10 DEF MarkInvariant, RootsFollowed
<1>20. OnlyLiveReached'
  BY <1>1, <1>8, <1>10 DEF MarkInvariant, OnlyLiveReached
<1> QED
  BY <1>9, <1>8, <1>13, <1>14, <1>15, <1>16, <1>17, <1>18, <1>19, <1>20 DEF MarkInvariant

\* While one object is neither marked nor enqueued, the tail iterator stands
\* on an object: fewer cells have been written than there are objects.
LEMMA TailIsAnObject ==
  ASSUME MarkInvariant, phase \in {"drain", "fields"},
         NEW h \in DOMAIN mem, h \notin Reached
  PROVE  qTail \in DOMAIN mem
<1>1. HeapTypeOK /\ Tiled /\ QueueIterators /\ CellsPaidFor
  BY DEF MarkInvariant, HeapInOrder
<1>2. IsFiniteSet(DOMAIN mem) /\ Cardinality(DOMAIN mem) \in Nat
  BY <1>1, FinitelyManyObjects, FS_CardinalityType
<1>3. Reached \in SUBSET DOMAIN mem /\ Reached # DOMAIN mem
  BY <1>1 DEF Reached, Marked, Enqueued, HeapTypeOK
<1>4. Cardinality(Reached) < Cardinality(DOMAIN mem)
  <2>1. IsFiniteSet(Reached) /\ Cardinality(Reached) <= Cardinality(DOMAIN mem)
        /\ Cardinality(Reached) # Cardinality(DOMAIN mem)
    BY <1>2, <1>3, FS_Subset
  <2>2. Cardinality(Reached) \in Nat
    BY <2>1, FS_CardinalityType
  <2> QED
    BY <1>2, <2>1, <2>2
<1>5. Cardinality(CellsBefore(qTail)) <= Cardinality(Reached)
  BY <1>1 DEF CellsPaidFor
<1>6. SUFFICES ASSUME qTail = heap.current PROVE FALSE
  BY <1>1 DEF QueueIterators
<1>7. CellsBefore(qTail) = DOMAIN mem
  BY <1>1, <1>6, NextCell DEF CellsBefore
<1>8. Cardinality(Reached) \in Nat
  BY <1>2, <1>3, FS_Subset, FS_CardinalityType
<1> QED
  BY <1>2, <1>4, <1>5, <1>7, <1>8

\* gc.h: the space that is already allocated is sufficient for the queue.
LEMMA QueueFitsFromInvariant == MarkInvariant => QueueFits
<1> SUFFICES ASSUME MarkInvariant, phase = "fields", fld <= Len(mem[cur].flds),
                    must_enqueue(FieldValue)
             PROVE  qTail \in DOMAIN mem
  BY DEF QueueFits
<1>1. HeapTypeOK /\ FieldsSound /\ cur \in DOMAIN mem /\ fld \in Nat \ {0}
  BY DEF MarkInvariant, HeapInOrder, FieldsFollowed, Marked, HeapTypeOK, MarkTypeOK
<1>2. fld \in 1..Len(mem[cur].flds)
  BY <1>1 DEF HeapTypeOK, ObjectOK, Object
<1>3. FieldValue \in Word /\ SoundWord(FieldValue)
  BY <1>1, <1>2, FieldIsSound DEF FieldValue
<1>4. get_obj_header_ptr(FieldValue) \in DOMAIN mem
  BY <1>1, <1>3, PointerToObject DEF must_enqueue
<1>5. get_obj_header_ptr(FieldValue) \notin Reached
  BY DEF must_enqueue, is_marked, is_enqueued, Reached, Marked, Enqueued
<1> QED
  BY <1>4, <1>5, TailIsAnObject

\* A field refers to an object that is neither marked nor queued.
LEMMA EnqueueFieldStep ==
  ASSUME MarkInvariant, EnqueueField
  PROVE  MarkInvariant' /\ Marked \subseteq Marked'
<1> DEFINE v == FieldValue
           h0 == get_obj_header_ptr(v)
           t == qTail
<1>1. /\ phase = "fields" /\ fld <= Len(mem[cur].flds)
      /\ must_enqueue(v)
      /\ fwd' = queue_enqueue(t, v)
      /\ qTail' = heap_next_obj_iterator(t)
      /\ fld' = fld + 1
      /\ UNCHANGED <<heap, mem, slots, extra, phase, root, qHead, cur>>
  BY DEF EnqueueField, field_is_left
<1>2. /\ HeapTypeOK /\ Tiled /\ FieldsSound /\ MarkTypeOK /\ QueueIterators
      /\ QueueHoldsEachObjectOnce /\ CellsPaidFor
  BY DEF MarkInvariant, HeapInOrder
<1>3. cur \in Marked /\ cur \in DOMAIN mem /\ fld \in Nat \ {0} /\ Len(mem[cur].flds) \in Nat
  <2>1. cur \in Marked /\ cur \in DOMAIN mem
    BY <1>1, <1>2 DEF MarkInvariant, FieldsFollowed, Marked, HeapTypeOK
  <2> QED
    BY <1>2, <2>1 DEF MarkTypeOK, HeapTypeOK, ObjectOK, Object
<1>4. v \in Word /\ SoundWord(v)
  BY <1>1, <1>2, <1>3, FieldIsSound DEF FieldValue
<1>5. /\ v \in Nat /\ h0 \in DOMAIN mem /\ Target(v) = {h0}
      /\ get_object_content_ptr(h0) = v
  BY <1>1, <1>2, <1>4, PointerToObject DEF must_enqueue
<1>6. h0 \notin Reached /\ h0 \notin Marked /\ h0 \notin Enqueued
  BY <1>1 DEF must_enqueue, is_marked, is_enqueued, Reached, Marked, Enqueued
<1>7. t \in DOMAIN mem /\ t \in Nat
  BY <1>1, <1>2, <1>5, <1>6, TailIsAnObject DEF HeapTypeOK
<1>8. /\ fwd \in [DOMAIN mem -> ForwardWord]
      /\ heap.current \in Nat
      /\ \A c \in DOMAIN mem : c \in Nat /\ c < heap.current
  BY <1>2, NextCell DEF HeapTypeOK
<1>9. /\ fwd' \in [DOMAIN mem -> ForwardWord]
      /\ \A c \in DOMAIN mem :
           /\ fwd'[c].addr = IF c = t THEN v ELSE fwd[c].addr
           /\ fwd'[c].enq <=> c = h0 \/ fwd[c].enq
           /\ fwd'[c].mark <=> fwd[c].mark
  BY <1>1, <1>2, <1>5, <1>7, EnqueueEffect
<1>10. /\ HeapTypeOK' /\ HeapInOrder' /\ RootOrder' = RootOrder
       /\ \A w : Target(w)' = Target(w)
       /\ \A S : Closed(S)' <=> Closed(S)
  BY <1>1, <1>9, MarkingStep
<1>11. Enqueued' = Enqueued \cup {h0} /\ Marked' = Marked
  <2>1. Enqueued' = Enqueued \cup {h0}
    BY <1>5, <1>8, <1>9 DEF Enqueued
  <2>2. Marked' = Marked
    BY <1>8, <1>9 DEF Marked
  <2> QED
    BY <2>1, <2>2
<1>12. Reached' = Reached \cup {h0}
  BY <1>11 DEF Reached
<1>13. /\ heap_next_obj_iterator(t) \in DOMAIN mem \cup {heap.current}
       /\ heap_next_obj_iterator(t) \in Nat
       /\ t < heap_next_obj_iterator(t)
       /\ \A c \in DOMAIN mem : c < heap_next_obj_iterator(t) <=> c <= t
  BY <1>2, <1>7, NextCell, ObjectHasWords
<1>14. qHead \in Nat /\ qHead <= t
  BY <1>1, <1>2 DEF MarkTypeOK, QueueIterators
<1>15. MarkTypeOK'
  BY <1>1, <1>2, <1>3, <1>10, <1>13 DEF MarkTypeOK
<1>16. QueueIterators'
  BY <1>1, <1>2, <1>7, <1>10, <1>13, <1>14 DEF QueueIterators
<1>17. QueueHoldsEachObjectOnce'
  <2>1. LiveCells' = LiveCells \cup {t} /\ t \notin LiveCells
    BY <1>1, <1>7, <1>8, <1>13, <1>14 DEF LiveCells
  <2>2. \A c \in LiveCells : c \in DOMAIN mem /\ fwd'[c].addr = fwd[c].addr
    BY <1>9, <2>1 DEF LiveCells
  <2>3. fwd'[t].addr = v
    BY <1>7, <1>9
  <2>4. \A c \in LiveCells :
          /\ get_obj_header_ptr(fwd[c].addr) \in DOMAIN mem
          /\ fwd[get_obj_header_ptr(fwd[c].addr)].enq
          /\ ~fwd[get_obj_header_ptr(fwd[c].addr)].mark
          /\ fwd[c].addr # v
    BY <1>1, <1>2, <1>5, <1>6, <1>8 DEF QueueHoldsEachObjectOnce, Enqueued
  <2>5. ASSUME NEW c \in LiveCells'
        PROVE  /\ get_obj_header_ptr(fwd'[c].addr) \in DOMAIN mem
               /\ fwd'[get_obj_header_ptr(fwd'[c].addr)].enq
               /\ ~fwd'[get_obj_header_ptr(fwd'[c].addr)].mark
    <3>1. CASE c = t
      BY <1>5, <1>6, <1>8, <1>9, <2>3, <3>1 DEF Marked
    <3>2. CASE c \in LiveCells
      BY <1>9, <2>2, <2>4, <3>2
    <3> QED
      BY <2>1, <3>1, <3>2
  <2>6. ASSUME NEW c \in LiveCells', NEW d \in LiveCells', fwd'[c].addr = fwd'[d].addr
        PROVE  c = d
    <3>1. CASE c \in LiveCells /\ d \in LiveCells
      BY <1>1, <1>2, <2>2, <2>6, <3>1 DEF QueueHoldsEachObjectOnce
    <3>2. CASE c = t \/ d = t
      BY <2>1, <2>2, <2>3, <2>4, <2>6, <3>2
    <3> QED
      BY <2>1, <3>1, <3>2
  <2>7. ASSUME NEW h \in Enqueued'
        PROVE  \E c \in LiveCells' : fwd'[c].addr = get_object_content_ptr(h)
    <3>1. CASE h = h0
      BY <1>5, <2>1, <2>3, <3>1
    <3>2. CASE h \in Enqueued
      <4>1. PICK c \in LiveCells : fwd[c].addr = get_object_content_ptr(h)
        BY <1>1, <1>2, <3>2 DEF QueueHoldsEachObjectOnce
      <4> QED
        BY <2>1, <2>2, <4>1
    <3> QED
      BY <1>11, <3>1, <3>2
  <2> QED
    BY <1>1, <2>5, <2>6, <2>7 DEF QueueHoldsEachObjectOnce, get_object_content_ptr
<1>18. NothingQueuedBetweenCalls'
  BY <1>1 DEF NothingQueuedBetweenCalls
<1>19. CellsPaidFor'
  <2>1. CellsBefore(qTail)' = CellsBefore(t) \cup {t} /\ t \notin CellsBefore(t)
    BY <1>1, <1>7, <1>8, <1>13 DEF CellsBefore
  <2>2. IsFiniteSet(CellsBefore(t)) /\ IsFiniteSet(Reached)
    <3>1. CellsBefore(t) \in SUBSET DOMAIN mem /\ Reached \in SUBSET DOMAIN mem
      BY <1>8 DEF CellsBefore, Reached, Marked, Enqueued
    <3> QED
      BY <1>2, <3>1, FinitelyManyObjects, FS_Subset
  <2>3. Cardinality(CellsBefore(t) \cup {t}) = Cardinality(CellsBefore(t)) + 1
    BY <2>1, <2>2, FS_AddElement
  <2>4. Cardinality(Reached \cup {h0}) = Cardinality(Reached) + 1
    BY <1>6, <2>2, FS_AddElement
  <2>5. Cardinality(CellsBefore(t)) \in Nat /\ Cardinality(Reached) \in Nat
    BY <2>2, FS_CardinalityType
  <2>6. Cardinality(CellsBefore(t)) <= Cardinality(Reached)
    BY <1>1, <1>2 DEF CellsPaidFor
  <2> QED
    BY <1>12, <2>1, <2>3, <2>4, <2>5, <2>6 DEF CellsPaidFor
<1>20. FieldsFollowed'
  <2>1. cur' \in Marked' /\ fld' <= Len(mem[cur].flds) + 1
    BY <1>1, <1>3, <1>11
  <2>2. ASSUME NEW h \in Marked, NEW i \in 1..Len(mem[h].flds), h = cur => i < fld + 1
        PROVE  Target(mem[h].flds[i]) \subseteq Reached \cup {h0}
    <3>1. CASE h = cur /\ i = fld
      BY <1>5, <3>1 DEF FieldValue
    <3>2. CASE h = cur => i < fld
      BY <3>2 DEF MarkInvariant, FieldsFollowed
    <3> QED
      BY <1>3, <2>2, <3>1, <3>2
  <2> QED
    BY <1>1, <1>10, <1>11, <1>12, <2>1, <2>2 DEF FieldsFollowed
<1>21. RootsFollowed'
  BY <1>1, <1>10, <1>12 DEF MarkInvariant, RootsFollowed
<1>22. OnlyLiveReached'
  <2>1. ASSUME NEW S \in SUBSET DOMAIN mem, Closed(S)
        PROVE  Reached \cup {h0} \subseteq S
    <3>1. Reached \subseteq S /\ cur \in S
      BY <1>3, <2>1 DEF MarkInvariant, OnlyLiveReached, Reached
    <3>2. fld \in 1..Len(mem[cur].flds)
      BY <1>1, <1>3
    <3>3. h0 \in Successors(cur)
      BY <1>5, <3>2 DEF Successors, FieldValue
    <3> QED
      BY <2>1, <3>1, <3>3 DEF Closed
  <2> QED
    BY <1>1, <1>10, <1>12, <2>1 DEF OnlyLiveReached
<1> QED
  BY <1>11, <1>10, <1>15, <1>16, <1>17, <1>18, <1>19, <1>20, <1>21, <1>22 DEF MarkInvariant

\* A step that changes nothing.
LEMMA MarkStutter ==
  ASSUME MarkInvariant, UNCHANGED <<heapVars, markVars>>
  PROVE  MarkInvariant'
<1>1. UNCHANGED <<heapVars, phase, root, qHead, qTail, cur, fld>>
  BY DEF markVars
<1>2. UNCHANGED <<heap, mem, fwd, slots, extra>>
  BY <1>1 DEF heapVars
<1>3. /\ HeapTypeOK' /\ HeapInOrder' /\ OnlyLiveReached'
      /\ Marked' = Marked /\ Enqueued' = Enqueued /\ Reached' = Reached
      /\ \A v : Target(v)' = Target(v)
      /\ RootOrder' = RootOrder
  BY <1>1, QuietStep
<1>4. LiveCells' = LiveCells /\ CellsBefore(qTail)' = CellsBefore(qTail)
  BY <1>1, <1>2 DEF LiveCells, CellsBefore
<1>5. MarkTypeOK' /\ QueueIterators' /\ NothingQueuedBetweenCalls' /\ CellsPaidFor'
  BY <1>1, <1>2, <1>3, <1>4
     DEF MarkInvariant, MarkTypeOK, QueueIterators, NothingQueuedBetweenCalls, CellsPaidFor
<1>6. QueueHoldsEachObjectOnce'
  BY <1>1, <1>2, <1>3, <1>4 DEF MarkInvariant, QueueHoldsEachObjectOnce
<1>7. FieldsFollowed' /\ RootsFollowed'
  BY <1>1, <1>2, <1>3 DEF MarkInvariant, FieldsFollowed, RootsFollowed
<1> QED
  BY <1>3, <1>5, <1>6, <1>7 DEF MarkInvariant

-----------------------------------------------------------------------------
(* The theorems.                                                           *)

\* MarkInvariant holds throughout mark_phase, for every heap in order.
THEOREM MarkInvariantHolds == MarkSpec => []MarkInvariant
<1>1. MarkInit => MarkInvariant
  BY InvariantHoldsInitially
<1>2. MarkInvariant /\ [MarkNext]_<<heapVars, markVars>> => MarkInvariant'
  <2> SUFFICES ASSUME MarkInvariant, [MarkNext]_<<heapVars, markVars>>
               PROVE  MarkInvariant'
    OBVIOUS
  <2>1. CASE SkipRoot
    BY <2>1, SkipRootStep
  <2>2. CASE MarkRoot
    BY <2>2, MarkRootStep
  <2>3. CASE Dequeue
    BY <2>3, DequeueStep
  <2>4. CASE EnqueueField
    BY <2>4, EnqueueFieldStep
  <2>5. CASE SkipField
    BY <2>5, SkipFieldStep
  <2>6. CASE FieldsDone
    BY <2>6, FieldsDoneStep
  <2>7. CASE MarkReturns
    BY <2>7, MarkReturnsStep
  <2>8. CASE MarkPhaseDone
    BY <2>8, MarkPhaseDoneStep
  <2>9. CASE UNCHANGED <<heapVars, markVars>>
    BY <2>9, MarkStutter
  <2> QED
    BY <2>1, <2>2, <2>3, <2>4, <2>5, <2>6, <2>7, <2>8, <2>9 DEF MarkNext
<1> QED
  BY <1>1, <1>2, PTL DEF MarkSpec

\* Every variable of mark_phase keeps its type.
THEOREM MarkTypeCorrect == MarkSpec => []MarkTypeOK
<1>1. MarkInvariant => MarkTypeOK
  BY DEF MarkInvariant
<1> QED
  BY <1>1, MarkInvariantHolds, PTL

\* The invariant that the comment at the loop of mark states.
THEOREM QueueInvariantHolds == MarkSpec => []QueueHoldsEachObjectOnce
<1>1. MarkInvariant => QueueHoldsEachObjectOnce
  BY DEF MarkInvariant
<1> QED
  BY <1>1, MarkInvariantHolds, PTL

\* The queue never runs past the last object, whatever the heap looks like.
THEOREM QueueAlwaysFits == MarkSpec => []QueueFits
  BY QueueFitsFromInvariant, MarkInvariantHolds, PTL

\* When mark_phase is done, MarkInvariant says that the marks are exact.
LEMMA ExactFromInvariant == MarkInvariant => MarkedExactlyLive
<1> SUFFICES ASSUME MarkInvariant, phase = "locate"
             PROVE  /\ Enqueued = {}
                    /\ Closed(Marked)
                    /\ \A S \in SUBSET DOMAIN mem : Closed(S) => Marked \subseteq S
  BY DEF MarkedExactlyLive
<1>1. Enqueued = {}
  BY DEF MarkInvariant, NothingQueuedBetweenCalls
<1>2. Reached = Marked
  BY <1>1 DEF Reached
<1>3. Closed(Marked)
  <2>1. \A h \in Marked : Successors(h) \subseteq Marked
    BY <1>2 DEF MarkInvariant, FieldsFollowed, Successors
  <2>2. \A i \in 1..Len(RootOrder) : i < root
    <3>1. root > Len(RootOrder) /\ root \in Nat
      BY DEF MarkInvariant, RootsFollowed, MarkTypeOK
    <3>2. Len(RootOrder) \in Nat
      BY RootOrderIsSeq DEF MarkInvariant, HeapInOrder
    <3> QED
      BY <3>1, <3>2
  <2>3. RootTargets \subseteq Marked
    BY <1>2, <2>2 DEF MarkInvariant, RootsFollowed, RootTargets
  <2> QED
    BY <2>1, <2>3 DEF Closed
<1>4. \A S \in SUBSET DOMAIN mem : Closed(S) => Marked \subseteq S
  BY <1>2 DEF MarkInvariant, OnlyLiveReached
<1> QED
  BY <1>1, <1>3, <1>4

\* mark_phase marks what the roots reach and nothing else.
THEOREM MarkIsExact == MarkSpec => []MarkedExactlyLive
  BY ExactFromInvariant, MarkInvariantHolds, PTL

\* Marking changes forward_address words only, and never clears a mark.
THEOREM MarkingOnlyMarks == MarkSpec => MarkOnlyMarks
<1>1. ASSUME MarkInvariant, [MarkNext]_<<heapVars, markVars>>
      PROVE  [ /\ UNCHANGED <<heap, mem, slots, extra>>
               /\ Marked \subseteq Marked' ]_<<heapVars, markVars>>
  <2>1. CASE UNCHANGED heapVars
    BY <2>1 DEF heapVars, Marked
  <2>2. CASE MarkRoot
    BY <1>1, <2>2, MarkRootStep DEF MarkRoot
  <2>3. CASE Dequeue
    BY <1>1, <2>3, DequeueStep DEF Dequeue
  <2>4. CASE EnqueueField
    BY <1>1, <2>4, EnqueueFieldStep DEF EnqueueField
  <2>5. CASE SkipRoot \/ SkipField \/ FieldsDone \/ MarkReturns \/ MarkPhaseDone
    BY <2>1, <2>5 DEF SkipRoot, SkipField, FieldsDone, MarkReturns, MarkPhaseDone
  <2> QED
    BY <1>1, <2>1, <2>2, <2>3, <2>4, <2>5 DEF MarkNext
<1> QED
  BY <1>1, MarkInvariantHolds, PTL DEF MarkSpec, MarkOnlyMarks
=============================================================================
