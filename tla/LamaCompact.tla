----------------------------- MODULE LamaCompact -----------------------------
(***************************************************************************)
(* compact_phase (runtime/gc.c), which runs when mark_phase has returned:  *)
(* the LISP2 passes that compute the new location of every marked object,  *)
(* copy the chunk to a new one, rewrite the references in fields and roots *)
(* and slide the objects down.  While they run an address is read in one   *)
(* of three coordinate systems: the old chunk, the new chunk before the    *)
(* objects slide, and the new chunk afterwards.  forward_address words     *)
(* hold locations in the old chunk throughout.                             *)
(***************************************************************************)
EXTENDS LamaMark

CONSTANTS
  StackTop,              \* the word at __gc_stack_top: the scans start behind it
  GlobalStop,            \* the word at __stop_custom_data: the scans end before it
  Bases,                 \* addresses that mmap may return
  MINIMUM_HEAP_CAPACITY,
  EXTRA_ROOM_HEAP_COEFFICIENT

ASSUME CompactAssumption ==
  /\ \A i \in 1..Len(StackArea) : StackArea[i] # StackTop
  /\ \A i \in 1..Len(GlobalArea) : GlobalArea[i] # GlobalStop
  /\ Bases \subseteq Nat
  /\ MINIMUM_HEAP_CAPACITY \in Nat
  /\ EXTRA_ROOM_HEAP_COEFFICIENT \in Nat \ {0}

VARIABLES
  need,      \* additional_size: words that alloc has been asked for
  old,       \* old_heap
  scan,      \* the heap iterator of the pass that runs
  freePtr    \* free_ptr of compute_locations

compactVars == <<need, old, scan, freePtr>>
gcVars      == <<heapVars, markVars, compactVars>>

live_size == freePtr - old.begin

-----------------------------------------------------------------------------
(* compute_locations                                                       *)

\* Mistaken variant: objects are placed from the content of the first one on.
FreeFromContent == get_object_content_ptr(heap.begin)

first_free == heap.begin

StartLocate ==
  /\ MarkPhaseDone
  /\ old' = heap
  /\ scan' = heap.begin
  /\ freePtr' = first_free
  /\ UNCHANGED need

\* Mistaken variant: free_ptr advances before its value is stored.
LocationAfterAdvance == freePtr + size_at(scan)

location == freePtr

\* Mistaken variant: only marked objects are stepped over.
NextIfMarked == IF fwd[scan].mark THEN heap_next_obj_iterator(scan) ELSE scan

next_scan == heap_next_obj_iterator(scan)

ComputeLocation ==
  /\ phase = "locate"
  /\ scan < heap.current
  /\ IF fwd[scan].mark
     THEN /\ fwd' = [fwd EXCEPT ![scan].addr = location]
          /\ freePtr' = freePtr + size_at(scan)
     ELSE UNCHANGED <<fwd, freePtr>>
  /\ scan' = next_scan
  /\ UNCHANGED <<heap, mem, slots, extra, markVars, need, old>>

-----------------------------------------------------------------------------
(* mmap and memcpy: the old chunk moves as it is to the new one, which is  *)
(* never smaller than the old one.                                         *)

MAX(a, b) == IF a > b THEN a ELSE b

\* Mistaken variant: the request that started the collection is not counted.
HeapSizeWithoutRequest ==
  MAX(MAX(live_size * EXTRA_ROOM_HEAP_COEFFICIENT, MINIMUM_HEAP_CAPACITY), heap.size)

next_heap_size ==
  MAX(MAX(live_size * EXTRA_ROOM_HEAP_COEFFICIENT + need, MINIMUM_HEAP_CAPACITY), heap.size)

Disjoint(b, n) == b + n <= heap.begin \/ heap_end <= b

RootSet == {RootOrder[i] : i \in 1..Len(RootOrder)}

\* A word that the collector reads and that refers to no object is an address of
\* something else, of code, the C stack or static data: mmap returns memory in
\* which there is nothing yet.
ScannedWords ==
  {slots[l] : l \in RootSet \cup {StackBottom}}
  \cup UNION {{mem[h].flds[i] : i \in 1..Len(mem[h].flds)} : h \in Marked}

Unused(b, n) ==
  \A v \in ScannedWords :
    is_valid_pointer(v) /\ ~is_valid_heap_pointer(v) => v < b \/ b + n < v

\* A function on addresses of the old chunk, as one on addresses of the copy.
CopiedTo(b, f) ==
  [h \in {b + (g - heap.begin) : g \in DOMAIN f} |-> f[heap.begin + (h - b)]]

MapChunk ==
  /\ phase = "locate"
  /\ scan >= heap.current
  /\ \E b \in Bases :
       /\ Disjoint(b, next_heap_size)
       /\ Unused(b, next_heap_size)
       /\ heap' = [begin |-> b, size |-> next_heap_size,
                   current |-> b + (heap.current - heap.begin)]
       /\ mem' = CopiedTo(b, mem)
       /\ fwd' = CopiedTo(b, fwd)
       /\ scan' = b
  /\ phase' = "update"
  /\ UNCHANGED <<slots, extra, root, qHead, qTail, cur, fld, need, old, freePtr>>

-----------------------------------------------------------------------------
(* update_references                                                       *)

InOldHeap(v) == is_valid_pointer(v) /\ old.begin <= v /\ v <= old.current

\* Where the object at h of the new chunk is going to be.
Destination(h) == heap.begin + (fwd[h].addr - old.begin)

\* The address that replaces v, which refers to the old chunk.
InNewHeap(v)  == get_obj_header_ptr(heap.begin + (v - old.begin))
Forwarded(v)  == get_object_content_ptr(Destination(InNewHeap(v)))
Fixed(v)      == IF InOldHeap(v) THEN Forwarded(v) ELSE v

UpdateObject ==
  /\ phase = "update"
  /\ ~heap_is_done_iterator(scan)
  /\ mem' = IF fwd[scan].mark
            THEN [mem EXCEPT ![scan].flds = [i \in DOMAIN @ |-> Fixed(@[i])]]
            ELSE mem
  /\ scan' = next_scan
  /\ UNCHANGED <<heap, fwd, slots, extra, markVars, need, old, freePtr>>

UpdateObjectsDone ==
  /\ phase = "update"
  /\ heap_is_done_iterator(scan)
  /\ phase' = "fixroots"
  /\ root' = 1
  /\ UNCHANGED <<heapVars, qHead, qTail, cur, fld, compactVars>>

\* Mistaken variant: the extra roots are marked but not fixed.
FixWithoutExtraRoots == StackArea \o <<StackBottom>> \o GlobalArea

\* The words that are fixed: scan_and_fix_region goes one word further up the
\* stack than the marking went, scan_and_fix_region_roots follows, and the
\* global area is last.
FixOrder == StackArea \o <<StackBottom>> \o extra \o GlobalArea

\* Mistaken variant: whatever lies below __gc_stack_bottom is skipped, the args
\* arrays of the runtime's own frames with it.
BelowStackBottom(l) ==
  \/ l # StackBottom
  \/ \E i \in 1..Len(GlobalArea) : GlobalArea[i] = l

\* An extra root is skipped when it lies in a region, from __gc_stack_top on and
\* up to __stop_custom_data.  The words at these two addresses count, although
\* scan_and_fix_region visits neither.
FixedAsRegion(l) ==
  \/ \E i \in 1..Len(StackArea) : StackArea[i] = l
  \/ \E i \in 1..Len(GlobalArea) : GlobalArea[i] = l
  \/ l \in {StackTop, GlobalStop}

IsExtraRoot(i) ==
  i \in Len(StackArea) + 2 .. Len(StackArea) + 1 + Len(extra)

Skipped(i) == IsExtraRoot(i) /\ FixedAsRegion(FixOrder[i])

FixRoot ==
  /\ phase = "fixroots"
  /\ root <= Len(FixOrder)
  /\ slots' = IF Skipped(root) THEN slots
              ELSE [slots EXCEPT ![FixOrder[root]] = Fixed(@)]
  /\ root' = root + 1
  /\ UNCHANGED <<heap, mem, fwd, extra, phase, qHead, qTail, cur, fld, compactVars>>

FixRootsDone ==
  /\ phase = "fixroots"
  /\ root > Len(FixOrder)
  /\ phase' = "relocate"
  /\ scan' = heap.begin
  /\ UNCHANGED <<heapVars, root, qHead, qTail, cur, fld, need, old, freePtr>>

-----------------------------------------------------------------------------
(* physically_relocate.  memmove writes the words of the object at its     *)
(* destination; a header that those words overlap is no header any more.   *)

Overwritten(to, n) ==
  {h \in DOMAIN mem : h < to + n /\ to < heap_next_obj_iterator(h)}

Move(f, from, to, x) ==
  [h \in (DOMAIN f \ Overwritten(to, size_at(from))) \cup {to} |->
     IF h = to THEN x ELSE f[h]]

\* Mistaken variant: the bit is not cleared.
MovedMarked == Move(fwd, scan, Destination(scan), fwd[scan])

\* The forward_address word moves with its object and loses the mark bit.
moved_unmarked == Move(fwd, scan, Destination(scan), [fwd[scan] EXCEPT !.mark = FALSE])

RelocateObject ==
  /\ phase = "relocate"
  /\ ~heap_is_done_iterator(scan)
  /\ IF fwd[scan].mark
     THEN /\ mem' = Move(mem, scan, Destination(scan), mem[scan])
          /\ fwd' = moved_unmarked
     ELSE UNCHANGED <<mem, fwd>>
  /\ scan' = next_scan
  /\ UNCHANGED <<heap, slots, extra, markVars, need, old, freePtr>>

\* heap.current is set to the end of the live objects; what lies above it is
\* free memory, whatever words it holds.
FinishCompaction ==
  /\ phase = "relocate"
  /\ heap_is_done_iterator(scan)
  /\ LET top  == heap.begin + live_size
         kept == {h \in DOMAIN mem : h < top}
     IN  /\ heap' = [heap EXCEPT !.current = top]
         /\ mem' = [h \in kept |-> mem[h]]
         /\ fwd' = [h \in kept |-> fwd[h]]
  /\ phase' = "collected"
  /\ UNCHANGED <<slots, extra, root, qHead, qTail, cur, fld, compactVars>>

CompactNext ==
  \/ StartLocate
  \/ ComputeLocation
  \/ MapChunk
  \/ UpdateObject
  \/ UpdateObjectsDone
  \/ FixRoot
  \/ FixRootsDone
  \/ RelocateObject
  \/ FinishCompaction

-----------------------------------------------------------------------------
(* One collection: mark_phase, then compact_phase.                         *)

MarkLoops ==
  \/ SkipRoot
  \/ MarkRoot
  \/ Dequeue
  \/ EnqueueField
  \/ SkipField
  \/ FieldsDone
  \/ MarkReturns

\* The word at __gc_stack_bottom is fixed without having been marked.  It lies
\* in the frame of the C function that called main, which keeps no object of its
\* own.
BottomFollowed == Target(slots[StackBottom]) \subseteq RootTargets

\* The registered words that are skipped and that no scan visits.
EdgeRoots == {l \in {StackTop, GlobalStop} : \E i \in 1..Len(extra) : extra[i] = l}

\* Such a word is marked from and never fixed.  No function registers one there on
\* purpose; where the C compiler puts the parameter of RVLstring is assumed.
EdgesHoldNoObject == \A l \in EdgeRoots : Target(slots[l]) = {}

\* The request is the size of an object, which has a header.
CollectInit ==
  /\ MarkInit
  /\ BottomFollowed
  /\ EdgesHoldNoObject
  /\ need \in Nat \ {0}
  /\ old = heap
  /\ scan = heap.begin
  /\ freePtr = heap.begin

CollectNext == (MarkLoops /\ UNCHANGED compactVars) \/ CompactNext

CollectSpec == CollectInit /\ [][CollectNext]_gcVars /\ WF_gcVars(CollectNext)

-----------------------------------------------------------------------------
(* The object graph that the program sees, whatever the collector has done *)
(* to the words that represent it: references are identities of objects.   *)

Collecting == phase \in {"update", "fixroots", "relocate"}

\* Objects still to be moved, and the end of those that have been.
Unmoved  == {h \in Marked : h >= scan}
Frontier ==
  CHOOSE a \in {Destination(h) : h \in Unmoved} \cup {heap.begin + live_size} :
    \A h \in Unmoved : a <= Destination(h)

\* The objects that the collector keeps: all of them until marking is done.
KeptHeaders ==
  CASE phase \in {"locate", "update", "fixroots"} -> Marked
    [] phase = "relocate" -> {h \in DOMAIN mem : h < Frontier} \cup Unmoved
    [] OTHER -> DOMAIN mem

\* The header that address a will have or has, in the last coordinate system.
HeaderOfFinal(a) ==
  IF \E h \in Unmoved : Destination(h) = a
  THEN CHOOSE h \in Unmoved : Destination(h) = a
  ELSE a

Denoted(h) == <<"object", mem[h].id>>

\* A word of the old chunk, and a word that has been fixed.
ReadOld(v) ==
  IF InOldHeap(v) THEN Denoted(InNewHeap(v)) ELSE <<"word", v>>

ReadNew(v) ==
  IF is_valid_heap_pointer(v)
  THEN Denoted(IF phase = "relocate"
               THEN HeaderOfFinal(get_obj_header_ptr(v))
               ELSE CHOOSE h \in Marked : Destination(h) = get_obj_header_ptr(v))
  ELSE <<"word", v>>

ReadNow(v) ==
  IF is_valid_heap_pointer(v) THEN Denoted(get_obj_header_ptr(v)) ELSE <<"word", v>>

ReadField(h, v) ==
  CASE ~Collecting -> ReadNow(v)
    [] phase = "update" /\ h >= scan -> ReadOld(v)
    [] OTHER -> ReadNew(v)

\* The words outside the heap that have been fixed.
SlotFixed(l) ==
  \/ phase = "relocate"
  \/ phase = "fixroots" /\ \E i \in 1..Len(FixOrder) : i < root /\ FixOrder[i] = l /\ ~Skipped(i)

\* The value of a root as the program understands it.
ReadSlot(l) ==
  CASE ~Collecting -> ReadNow(slots[l])
    [] Collecting /\ ~SlotFixed(l) -> ReadOld(slots[l])
    [] OTHER -> ReadNew(slots[l])

GraphRoots == [l \in RootSet |-> ReadSlot(l)]

GraphObjects ==
  {[id |-> mem[h].id, kind |-> mem[h].kind, len |-> mem[h].len,
    flds |-> [i \in DOMAIN mem[h].flds |-> ReadField(h, mem[h].flds[i])]] :
     h \in KeptHeaders}

-----------------------------------------------------------------------------
CompactTypeOK ==
  /\ HeapTypeOK
  /\ phase \in {"roots", "drain", "fields", "locate", "update", "fixroots", "relocate",
               "collected"}
  /\ root \in Nat \ {0}
  /\ need \in Nat
  /\ old \in [begin : Nat, size : Nat, current : Nat]
  /\ scan \in Nat
  /\ freePtr \in Nat

\* compact_phase, the order of its passes: the iterator of a pass always meets
\* the header of an object.  memmove may overwrite objects that have been
\* moved or are dead, never the one that comes next.
IteratorMeetsHeaders ==
  /\ phase = "locate" /\ scan < heap.current => scan \in DOMAIN mem
  /\ phase \in {"update", "relocate"} /\ scan < heap.current => scan \in DOMAIN mem

\* LISP2: objects slide down, in order, to locations that do not overlap and
\* that lie inside the part of the chunk that stays allocated.
ObjectsSlideDown ==
  phase \in {"update", "fixroots", "relocate"} =>
    /\ \A h \in Unmoved :
         /\ Destination(h) <= h
         /\ Destination(h) + size_at(h) <= heap.begin + live_size
    /\ \A g, h \in Unmoved : g < h => Destination(g) + size_at(g) <= Destination(h)

\* After compact_phase the heap is in order again, with no bit left behind for
\* the next mark, holds nothing but live objects and has room for the object
\* that alloc is asked for: gc_alloc never returns NULL.
CompactedInOrder ==
  phase = "collected" =>
    /\ Tiled
    /\ RootsSound
    /\ FieldsSound
    /\ AtRest
    /\ heap.current + need <= heap_end
    /\ \A S \in SUBSET DOMAIN mem : Closed(S) => S = DOMAIN mem

\* No step of the collector changes what the program can see: the roots denote
\* what they denoted, and so do the objects, except that when marking is done
\* the objects that no root reaches are gone.
CollectionInvisible ==
  [][ /\ GraphRoots' = GraphRoots
      /\ GraphObjects' \subseteq GraphObjects
      /\ phase' # "locate" => GraphObjects' = GraphObjects ]_gcVars

\* A collection that has been started ends.
CollectionTerminates == <>(phase = "collected")
-----------------------------------------------------------------------------
(* The inductive invariant that the theorems of LamaCompact_proofs rest on.*)
(* It speaks of three sets of addresses: the headers of the marked objects *)
(* whose location is known and that are not there yet, the headers of      *)
(* those that have arrived, and the headers that there will be in the end. *)

Marking    == phase \in {"roots", "drain", "fields"}
Compacting == phase = "locate" \/ Collecting

Placed  ==
  {h \in Marked : (phase = "locate" => h < scan) /\ (phase = "relocate" => h >= scan)}
Arrived == {h \in DOMAIN mem : phase = "relocate" /\ h < Frontier}

FinalOf(h)   == IF h \in Placed THEN Destination(h) ELSE h
FinalHeaders == {FinalOf(h) : h \in KeptHeaders}

live_end == heap.begin + live_size

IteratorOnObject ==
  phase \in {"locate", "update", "relocate"} => scan \in DOMAIN mem \cup {heap.current}

\* The two chunks while both exist, and the room that the new one offers.
ChunksApart ==
  /\ Compacting => old.begin <= freePtr
  /\ phase = "locate" => old = heap
  /\ Collecting =>
       /\ old.begin <= old.current /\ old.current <= old.begin + old.size
       /\ heap.current = heap.begin + (old.current - old.begin)
       /\ heap.begin + heap.size <= old.begin \/ old.begin + old.size <= heap.begin
       /\ live_end + need <= heap_end

\* The locations are a copy of the objects without the gaps between them.
PlacesInOrder ==
  Compacting =>
    /\ \A h \in Placed :
         /\ heap.begin <= Destination(h)
         /\ Destination(h) <= h
         /\ Destination(h) + size_at(h) <= live_end
         /\ \/ Destination(h) + size_at(h) = live_end
            \/ \E g \in Placed : Destination(g) = Destination(h) + size_at(h)
    /\ \A g, h \in Placed : g < h => Destination(g) + size_at(g) <= Destination(h)
    /\ live_end <= IF phase = "locate" THEN scan ELSE heap.current

\* a is where the next object goes, or the end when there is none.
IsFrontier(a) ==
  /\ a = live_end \/ \E h \in Placed : Destination(h) = a
  /\ a <= live_end
  /\ \A h \in Placed : a <= Destination(h)

FrontierBehindIterator ==
  /\ phase \in {"locate", "update", "fixroots"} => IsFrontier(heap.begin)
  /\ phase = "relocate" => IsFrontier(Frontier) /\ heap.begin <= Frontier /\ Frontier <= scan

\* Until objects move they tile the chunk; then those that have arrived tile its
\* beginning, and what lies ahead of the iterator is as it was.
TiledOnBothSides ==
  /\ phase \in {"update", "fixroots"} => Tiled
  /\ phase = "relocate" =>
       /\ \A h \in DOMAIN mem : h >= scan =>
            /\ heap_next_obj_iterator(h) <= heap.current
            /\ heap_next_obj_iterator(h) \in {g \in DOMAIN mem : g >= scan} \cup {heap.current}
       /\ \A g, h \in DOMAIN mem : g >= scan /\ g < h => heap_next_obj_iterator(g) <= h
       /\ Frontier # heap.begin => heap.begin \in Arrived
       /\ \A h \in Arrived :
            /\ heap.begin <= h
            /\ heap_next_obj_iterator(h) \in Arrived \cup {Frontier}
            /\ ~fwd[h].mark
       /\ \A g, h \in Arrived : g < h => heap_next_obj_iterator(g) <= h

\* Words of the old chunk and words that have been fixed, and where they lead to
\* in the end.
OldWord(v) ==
  /\ InOldHeap(v) => InNewHeap(v) \in Marked
  /\ is_valid_heap_pointer(v) => InOldHeap(v)

NewWord(v) ==
  /\ ~InOldHeap(v)
  /\ is_valid_heap_pointer(v) => get_obj_header_ptr(v) \in FinalHeaders

WordOK(v, fixed) == IF fixed THEN NewWord(v) ELSE OldWord(v)

FinalTarget(v, fixed) ==
  IF fixed THEN Target(v)
  ELSE IF InOldHeap(v) THEN {Destination(InNewHeap(v))} ELSE {}

FieldsFixed(h) == phase \in {"fixroots", "relocate"} \/ (phase = "update" /\ h < scan)

WordsReadable ==
  Collecting =>
    /\ \A l \in RootSet \cup {StackBottom} : WordOK(slots[l], SlotFixed(l))
    /\ \A h \in KeptHeaders : \A i \in 1..Len(mem[h].flds) :
         WordOK(mem[h].flds[i], FieldsFixed(h))

\* A set of final headers that holds what the roots and its members lead to.
FinalClosed(S) ==
  /\ \A l \in RootSet : FinalTarget(slots[l], SlotFixed(l)) \subseteq S
  /\ \A h \in KeptHeaders : FinalOf(h) \in S =>
       \A i \in 1..Len(mem[h].flds) : FinalTarget(mem[h].flds[i], FieldsFixed(h)) \subseteq S

OnlyLiveKept ==
  Collecting => \A S \in SUBSET FinalHeaders : FinalClosed(S) => S = FinalHeaders

\* A skipped word that no scan fixes needs no fixing.
EdgesNeedNoFixing ==
  /\ Marking \/ phase = "locate" => EdgesHoldNoObject
  /\ phase \in {"update", "fixroots"} => \A l \in EdgeRoots : ~InOldHeap(slots[l])

CompactInvariant ==
  /\ CompactTypeOK
  /\ Marking \/ phase = "locate" => MarkInvariant /\ BottomFollowed
  /\ Collecting => Enqueued = {}
  /\ need > 0
  /\ IteratorOnObject
  /\ ChunksApart
  /\ PlacesInOrder
  /\ FrontierBehindIterator
  /\ TiledOnBothSides
  /\ WordsReadable
  /\ OnlyLiveKept
  /\ EdgesNeedNoFixing
  /\ CompactedInOrder
=============================================================================
