------------------------- MODULE LamaCompact_proofs -------------------------
(***************************************************************************)
(* Proofs about LamaCompact, for every chunk and object graph, wherever    *)
(* mmap puts the new chunk.  CompactInvariant is inductive; from it follow *)
(* that the iterators of the four passes stay on objects, that objects     *)
(* slide down without overlap, and that the heap is in order afterwards,   *)
(* with nothing but live objects and with room for the request.            *)
(***************************************************************************)
EXTENDS LamaCompact, LamaMark_proofs

-----------------------------------------------------------------------------
(* Lemmas about the state.                                                 *)

\* The numbers that the arithmetic of the passes is about.
LEMMA CompactNumbers ==
  ASSUME CompactTypeOK
  PROVE  /\ heap.begin \in Nat /\ heap.size \in Nat /\ heap.current \in Nat
         /\ old.begin \in Nat /\ old.size \in Nat /\ old.current \in Nat
         /\ scan \in Nat /\ freePtr \in Nat /\ need \in Nat
         /\ live_size \in Int /\ live_end \in Int
         /\ DOMAIN fwd = DOMAIN mem /\ Marked \subseteq DOMAIN mem
         /\ \A h \in DOMAIN mem :
              /\ h \in Nat
              /\ size_at(h) \in Nat /\ size_at(h) >= 2
              /\ heap_next_obj_iterator(h) = h + size_at(h)
              /\ fwd[h].addr \in Nat
              /\ fwd[h].mark \in BOOLEAN
              /\ Destination(h) = heap.begin + (fwd[h].addr - old.begin)
              /\ Destination(h) \in Int
<1>1. /\ heap \in [begin : Nat, size : Nat, current : Nat]
      /\ old \in [begin : Nat, size : Nat, current : Nat]
      /\ scan \in Nat /\ freePtr \in Nat /\ need \in Nat
      /\ fwd \in [DOMAIN mem -> ForwardWord]
      /\ HeapTypeOK
  BY DEF CompactTypeOK, HeapTypeOK
<1>2. live_size \in Int /\ live_end \in Int
  BY <1>1 DEF live_size, live_end
<1>3. DOMAIN fwd = DOMAIN mem /\ Marked \subseteq DOMAIN mem
  BY <1>1 DEF Marked
<1>4. ASSUME NEW h \in DOMAIN mem
      PROVE  /\ h \in Nat
             /\ size_at(h) \in Nat /\ size_at(h) >= 2
             /\ heap_next_obj_iterator(h) = h + size_at(h)
  BY <1>1, ObjectHasWords DEF HeaderWords, heap_next_obj_iterator
<1>5. ASSUME NEW h \in DOMAIN mem
      PROVE  /\ fwd[h].addr \in Nat
             /\ fwd[h].mark \in BOOLEAN
             /\ Destination(h) = heap.begin + (fwd[h].addr - old.begin)
             /\ Destination(h) \in Int
  BY <1>1 DEF ForwardWord, Destination
<1> QED
  BY <1>1, <1>2, <1>3, <1>4, <1>5

-----------------------------------------------------------------------------
(* CompactInvariant is inductive: one lemma per action.                    *)

\* A collection starts with marking.
LEMMA CollectionBegins ==
  CompactTypeOK /\ MarkInvariant /\ BottomFollowed /\ EdgesHoldNoObject
    /\ phase = "roots" /\ need > 0 => CompactInvariant
<1> SUFFICES ASSUME CompactTypeOK, MarkInvariant, BottomFollowed, EdgesHoldNoObject,
                    phase = "roots", need > 0
             PROVE  CompactInvariant
  OBVIOUS
<1>1. ~Compacting /\ ~Collecting
  BY DEF Compacting, Collecting
<1> QED
  BY <1>1 DEF CompactInvariant, IteratorOnObject, ChunksApart, PlacesInOrder,
              FrontierBehindIterator, TiledOnBothSides, WordsReadable, OnlyLiveKept,
              EdgesNeedNoFixing, CompactedInOrder

LEMMA CompactInvariantInitially == CollectInit => CompactInvariant
<1> SUFFICES ASSUME CollectInit PROVE CompactInvariant
  OBVIOUS
<1>1. MarkInvariant
  BY InvariantHoldsInitially DEF CollectInit
<1>2. /\ phase = "roots" /\ BottomFollowed /\ EdgesHoldNoObject
      /\ need \in Nat /\ need > 0
      /\ old = heap /\ scan = heap.begin /\ freePtr = heap.begin
  BY DEF CollectInit, MarkInit
<1>3. CompactTypeOK
  BY <1>1, <1>2 DEF MarkInvariant, MarkTypeOK, CompactTypeOK, HeapTypeOK
<1> QED
  BY <1>1, <1>2, <1>3, CollectionBegins

\* The steps of marking leave everything alone that compaction adds.
LEMMA MarkLoopsStep ==
  ASSUME MarkInvariant, MarkLoops
  PROVE  /\ MarkInvariant'
         /\ phase \in {"roots", "drain", "fields"}
         /\ phase' \in {"roots", "drain", "fields"}
         /\ UNCHANGED <<heap, mem, slots, extra>>
<1>1. CASE SkipRoot
  BY <1>1, SkipRootStep DEF SkipRoot, heapVars
<1>2. CASE MarkRoot
  BY <1>2, MarkRootStep DEF MarkRoot
<1>3. CASE Dequeue
  BY <1>3, DequeueStep DEF Dequeue
<1>4. CASE EnqueueField
  BY <1>4, EnqueueFieldStep DEF EnqueueField
<1>5. CASE SkipField
  BY <1>5, SkipFieldStep DEF SkipField, heapVars
<1>6. CASE FieldsDone
  BY <1>6, FieldsDoneStep DEF FieldsDone, heapVars
<1>7. CASE MarkReturns
  BY <1>7, MarkReturnsStep DEF MarkReturns, heapVars
<1> QED
  BY <1>1, <1>2, <1>3, <1>4, <1>5, <1>6, <1>7 DEF MarkLoops

\* The word at the bottom of the stack is as the others when nothing moves.
LEMMA BottomUnchanged ==
  ASSUME BottomFollowed, UNCHANGED <<heap, mem, slots, extra>>
  PROVE  BottomFollowed'
BY DEF BottomFollowed, RootTargets, RootOrder, Target, is_valid_heap_pointer

\* So are the words at the edges of the scanned areas, until the chunk moves and
\* while the fields are rewritten.
LEMMA EdgesStay ==
  ASSUME EdgesNeedNoFixing, UNCHANGED <<heap, slots, extra>>,
         Marking \/ phase = "locate", Marking' \/ phase' = "locate"
  PROVE  EdgesNeedNoFixing'
<1>1. EdgesHoldNoObject'
  BY DEF EdgesNeedNoFixing, EdgesHoldNoObject, EdgeRoots, Target, is_valid_heap_pointer
<1> QED
  BY <1>1 DEF EdgesNeedNoFixing, Marking

LEMMA EdgesStayOutside ==
  ASSUME EdgesNeedNoFixing, UNCHANGED <<slots, extra, old>>,
         phase \in {"update", "fixroots"}, phase' \in {"update", "fixroots"}
  PROVE  EdgesNeedNoFixing'
BY DEF EdgesNeedNoFixing, Marking, EdgeRoots, InOldHeap

LEMMA MarkingKeepsInvariant ==
  ASSUME CompactInvariant, MarkLoops, UNCHANGED compactVars
  PROVE  CompactInvariant'
<1>1. MarkInvariant
  <2>1. phase # "collected" /\ ~Collecting
    BY DEF MarkLoops, SkipRoot, MarkRoot, Dequeue, EnqueueField, SkipField, FieldsDone,
           MarkReturns, Collecting
  <2> QED
    BY <2>1 DEF CompactInvariant, CompactTypeOK, Collecting, Marking
<1>2. /\ MarkInvariant'
      /\ phase \in {"roots", "drain", "fields"} /\ phase' \in {"roots", "drain", "fields"}
      /\ UNCHANGED <<heap, mem, slots, extra>>
  BY <1>1, MarkLoopsStep
<1>3. UNCHANGED <<need, old, scan, freePtr>>
  BY DEF compactVars
<1>4. CompactTypeOK'
  <2>1. HeapTypeOK'
    BY <1>2 DEF MarkInvariant, MarkTypeOK
  <2> QED
    BY <1>2, <1>3, <2>1 DEF CompactInvariant, CompactTypeOK, MarkInvariant, MarkTypeOK
<1>5. BottomFollowed'
  BY <1>2, BottomUnchanged DEF CompactInvariant, Marking
<1>6. (need > 0)'
  BY <1>3 DEF CompactInvariant
<1>7. ~Compacting' /\ ~Collecting' /\ phase' # "collected"
  BY <1>2 DEF Compacting, Collecting
<1>8. EdgesNeedNoFixing'
  BY <1>2, EdgesStay DEF CompactInvariant, Marking
<1> QED
  BY <1>2, <1>4, <1>5, <1>6, <1>7, <1>8
     DEF CompactInvariant, IteratorOnObject, ChunksApart, PlacesInOrder, FrontierBehindIterator,
         TiledOnBothSides, WordsReadable, OnlyLiveKept, CompactedInOrder

\* compute_locations begins: no location is known.
LEMMA StartLocateStep ==
  ASSUME CompactInvariant, StartLocate
  PROVE  CompactInvariant'
<1>1. /\ MarkPhaseDone
      /\ phase = "roots" /\ phase' = "locate"
      /\ UNCHANGED <<heap, mem, fwd, slots, extra>>
      /\ old' = heap /\ scan' = heap.begin /\ freePtr' = heap.begin /\ need' = need
  BY DEF StartLocate, MarkPhaseDone, heapVars, first_free
<1>2. MarkInvariant /\ BottomFollowed /\ CompactTypeOK /\ need > 0 /\ HeapTypeOK /\ Tiled
  BY <1>1 DEF CompactInvariant, Marking, MarkInvariant, HeapInOrder
<1>3. MarkInvariant'
  BY <1>1, <1>2, MarkPhaseDoneStep
<1>4. BottomFollowed'
  BY <1>1, <1>2, BottomUnchanged
<1>5. CompactTypeOK'
  <2>1. HeapTypeOK'
    BY <1>3 DEF MarkInvariant, MarkTypeOK
  <2> QED
    BY <1>1, <1>2, <2>1, CompactNumbers DEF StartLocate, MarkPhaseDone, CompactTypeOK, HeapTypeOK
<1>6. \A h \in DOMAIN mem : h \in Nat /\ heap.begin <= h
  BY <1>2, CompactNumbers DEF Tiled
<1>7. heap.begin \in Nat
  BY <1>2, CompactNumbers
<1>8. Placed' = {}
  <2>1. Marked' \subseteq DOMAIN mem
    BY <1>1, <1>5, CompactNumbers DEF Marked, CompactTypeOK, HeapTypeOK
  <2> QED
    BY <1>1, <1>6, <1>7, <2>1 DEF Placed
<1>9. IteratorOnObject'
  BY <1>1, <1>2 DEF IteratorOnObject, Tiled
<1>10. ChunksApart'
  BY <1>1, <1>7 DEF ChunksApart, Compacting, Collecting
<1>11. live_end' = heap.begin
  BY <1>1, <1>7 DEF live_end, live_size
<1>12. PlacesInOrder'
  BY <1>1, <1>7, <1>8, <1>11 DEF PlacesInOrder
<1>13. FrontierBehindIterator'
  BY <1>1, <1>7, <1>8, <1>11 DEF FrontierBehindIterator, IsFrontier
<1>14. TiledOnBothSides' /\ WordsReadable' /\ OnlyLiveKept' /\ CompactedInOrder' /\ ~Collecting'
  BY <1>1 DEF TiledOnBothSides, WordsReadable, OnlyLiveKept, CompactedInOrder, Collecting
<1>15. EdgesNeedNoFixing'
  BY <1>1, EdgesStay DEF CompactInvariant, Marking
<1> QED
  BY <1>1, <1>2, <1>3, <1>4, <1>5, <1>9, <1>10, <1>12, <1>13, <1>14, <1>15 DEF CompactInvariant

\* Storing a location changes no bit and no word that marking speaks of.
LEMMA LocationKeepsMarks ==
  ASSUME MarkInvariant, phase = "locate", phase' = "locate",
         UNCHANGED <<heap, mem, slots, extra, markVars>>,
         NEW h \in DOMAIN mem, NEW a \in Nat, fwd' = [fwd EXCEPT ![h].addr = a]
  PROVE  MarkInvariant' /\ Marked' = Marked /\ Enqueued' = Enqueued
<1>1. HeapTypeOK /\ HeapInOrder /\ fwd \in [DOMAIN mem -> ForwardWord]
  BY DEF MarkInvariant, HeapInOrder, HeapTypeOK
<1>2. fwd' \in [DOMAIN mem -> ForwardWord]
  BY <1>1 DEF ForwardWord
<1>3. /\ HeapTypeOK' /\ HeapInOrder'
      /\ \A v : Target(v)' = Target(v)
      /\ \A S : Closed(S)' <=> Closed(S)
      /\ RootOrder' = RootOrder
  BY <1>2, MarkingStep
<1>4. \A g \in DOMAIN mem : (fwd'[g].mark <=> fwd[g].mark) /\ (fwd'[g].enq <=> fwd[g].enq)
  BY <1>1 DEF ForwardWord
<1>5. DOMAIN fwd' = DOMAIN mem /\ DOMAIN fwd = DOMAIN mem
  BY <1>1, <1>2
<1>6. Marked' = Marked /\ Enqueued' = Enqueued /\ Reached' = Reached
  BY <1>4, <1>5 DEF Marked, Enqueued, Reached
<1>7. MarkTypeOK'
  BY <1>3 DEF markVars, MarkInvariant, MarkTypeOK
<1>8. QueueIterators' /\ QueueHoldsEachObjectOnce' /\ CellsPaidFor' /\ NothingQueuedBetweenCalls'
  BY <1>6 DEF QueueIterators, QueueHoldsEachObjectOnce, CellsPaidFor, NothingQueuedBetweenCalls,
              MarkInvariant
<1>9. FieldsFollowed' /\ RootsFollowed'
  BY <1>3, <1>6 DEF MarkInvariant, FieldsFollowed, RootsFollowed, markVars
<1>10. OnlyLiveReached'
  BY <1>3, <1>6 DEF MarkInvariant, OnlyLiveReached
<1> QED
  BY <1>3, <1>6, <1>7, <1>8, <1>9, <1>10 DEF MarkInvariant

\* Nor does a step that only moves the iterator.
LEMMA UnchangedKeepsMarks ==
  ASSUME MarkInvariant, phase = "locate", phase' = "locate",
         UNCHANGED <<heap, mem, fwd, slots, extra, markVars>>
  PROVE  MarkInvariant' /\ Marked' = Marked /\ Enqueued' = Enqueued
<1>1. UNCHANGED heapVars
  BY DEF heapVars
<1>2. /\ HeapTypeOK' /\ HeapInOrder' /\ OnlyLiveReached'
      /\ Marked' = Marked /\ Enqueued' = Enqueued /\ Reached' = Reached
      /\ \A v : Target(v)' = Target(v)
      /\ RootOrder' = RootOrder
  BY <1>1, QuietStep
<1>3. MarkTypeOK'
  BY <1>2 DEF markVars, MarkInvariant, MarkTypeOK
<1>4. QueueIterators' /\ QueueHoldsEachObjectOnce' /\ CellsPaidFor' /\ NothingQueuedBetweenCalls'
  BY <1>2 DEF QueueIterators, QueueHoldsEachObjectOnce, CellsPaidFor, NothingQueuedBetweenCalls,
              MarkInvariant
<1>5. FieldsFollowed' /\ RootsFollowed'
  BY <1>2 DEF MarkInvariant, FieldsFollowed, RootsFollowed, markVars
<1> QED
  BY <1>2, <1>3, <1>4, <1>5 DEF MarkInvariant

\* One object of compute_locations: when it is marked, free_ptr is its location
\* and moves behind it.
LEMMA ComputeLocationStep ==
  ASSUME CompactInvariant, ComputeLocation
  PROVE  CompactInvariant'
<1>0. PICK p : p = scan
  OBVIOUS
<1> DEFINE next == heap_next_obj_iterator(p)
<1>1. /\ phase = "locate" /\ phase' = "locate"
      /\ p < heap.current
      /\ UNCHANGED <<heap, mem, slots, extra, markVars, need, old>>
      /\ scan' = next
  BY <1>0 DEF ComputeLocation, markVars, next_scan
<1>2. MarkInvariant /\ BottomFollowed /\ CompactTypeOK /\ need > 0 /\ HeapTypeOK /\ Tiled
  BY <1>1 DEF CompactInvariant, MarkInvariant, HeapInOrder
<1>3. p \in DOMAIN mem /\ p \in Nat /\ scan' = p + size_at(p)
  BY <1>0, <1>1, <1>2, CompactNumbers DEF CompactInvariant, IteratorOnObject
<1>4. /\ next \in DOMAIN mem \cup {heap.current}
      /\ \A c \in DOMAIN mem : c < next <=> c <= p
  BY <1>2, <1>3, NextCell
<1>5. /\ fwd[p].mark => /\ fwd' = [fwd EXCEPT ![p].addr = freePtr]
                        /\ freePtr' = freePtr + size_at(p)
      /\ ~fwd[p].mark => UNCHANGED <<fwd, freePtr>>
  BY <1>0, <1>1 DEF ComputeLocation, location
<1>6. MarkInvariant' /\ Marked' = Marked /\ Enqueued' = Enqueued
  <2>1. CASE fwd[p].mark
    BY <1>1, <1>2, <1>3, <1>5, <2>1, LocationKeepsMarks, CompactNumbers
  <2>2. CASE ~fwd[p].mark
    BY <1>1, <1>2, <1>3, <1>5, <2>2, UnchangedKeepsMarks
  <2> QED
    BY <2>1, <2>2
<1>7. CompactTypeOK'
  BY <1>1, <1>2, <1>3, <1>5, <1>6, CompactNumbers DEF CompactTypeOK, MarkInvariant, MarkTypeOK
<1>8. BottomFollowed'
  BY <1>1, <1>2, BottomUnchanged
<1>9. \A h : size_at(h)' = size_at(h)
  BY <1>1 DEF size_at
<1>10. old = heap /\ old.begin <= freePtr /\ live_end = freePtr /\ live_end' = freePtr'
  <2>1. old = heap /\ old.begin <= freePtr
    BY <1>1 DEF CompactInvariant, ChunksApart, Compacting
  <2> QED
    BY <1>1, <1>2, <1>7, <2>1, CompactNumbers DEF CompactTypeOK, live_end, live_size
<1>11. \A h \in DOMAIN mem : Destination(h) = fwd[h].addr /\ Destination(h)' = fwd'[h].addr
  <2>1. \A h \in DOMAIN mem : fwd[h].addr \in Nat /\ fwd'[h].addr \in Nat
    BY <1>1, <1>2, <1>7 DEF CompactTypeOK, HeapTypeOK, ForwardWord
  <2> QED
    BY <1>1, <1>2, <1>10, <2>1, CompactNumbers DEF Destination
<1>12. freePtr <= p
  BY <1>0, <1>1, <1>10 DEF CompactInvariant, PlacesInOrder, Compacting
<1>13. Placed' = IF fwd[p].mark THEN Placed \cup {p} ELSE Placed
  <2>1. Placed = {h \in Marked : h < p} /\ Placed' = {h \in Marked : h < next}
    BY <1>0, <1>1, <1>6 DEF Placed
  <2>2. \A h \in Marked : h < next <=> h < p \/ h = p
    BY <1>2, <1>3, <1>4, CompactNumbers
  <2>3. p \in Marked <=> fwd[p].mark
    BY <1>2, <1>3, CompactNumbers DEF Marked
  <2> QED
    BY <1>3, <2>1, <2>2, <2>3
<1>14. \A h \in Placed : h \in DOMAIN mem /\ h < p /\ Destination(h)' = Destination(h)
  <2>1. \A h \in Placed : h \in DOMAIN mem /\ h < p
    BY <1>0, <1>1, <1>2, CompactNumbers DEF Placed
  <2>2. \A h \in DOMAIN mem : h < p => fwd'[h] = fwd[h]
    BY <1>2, <1>3, <1>5, CompactNumbers
  <2> QED
    BY <1>11, <2>1, <2>2
<1>15. fwd[p].mark => Destination(p)' = freePtr
  BY <1>2, <1>3, <1>5, <1>11 DEF HeapTypeOK, ForwardWord
<1>16. IteratorOnObject'
  BY <1>1, <1>4 DEF IteratorOnObject
<1>17. ChunksApart'
  BY <1>1, <1>2, <1>3, <1>5, <1>10, CompactNumbers DEF ChunksApart, Compacting, Collecting
<1>18. /\ \A h \in Placed :
            /\ heap.begin <= Destination(h)
            /\ Destination(h) <= h
            /\ Destination(h) + size_at(h) <= freePtr
            /\ \/ Destination(h) + size_at(h) = freePtr
               \/ \E g \in Placed : Destination(g) = Destination(h) + size_at(h)
       /\ \A g, h \in Placed : g < h => Destination(g) + size_at(g) <= Destination(h)
       /\ heap.begin = freePtr \/ \E h \in Placed : Destination(h) = heap.begin
       /\ heap.begin <= freePtr
  BY <1>1, <1>10 DEF CompactInvariant, PlacesInOrder, FrontierBehindIterator, IsFrontier, Compacting
<1>19. PlacesInOrder' /\ FrontierBehindIterator'
  <2>1. CASE fwd[p].mark
    <3>1. /\ Placed' = Placed \cup {p}
          /\ Destination(p)' = freePtr
          /\ freePtr' = freePtr + size_at(p)
          /\ size_at(p) \in Nat /\ size_at(p) >= 2
      BY <1>2, <1>3, <1>5, <1>13, <1>15, <2>1, CompactNumbers
    <3>2. ASSUME NEW h \in Placed'
          PROVE  /\ heap.begin <= Destination(h)'
                 /\ Destination(h)' <= h
                 /\ Destination(h)' + size_at(h) <= freePtr'
                 /\ \/ Destination(h)' + size_at(h) = freePtr'
                    \/ \E g \in Placed' : Destination(g)' = Destination(h)' + size_at(h)
      <4>1. CASE h = p
        BY <1>12, <1>18, <3>1, <4>1, <1>2, <1>3, CompactNumbers
      <4>2. CASE h \in Placed
        <5>1. Destination(h)' = Destination(h) /\ h \in DOMAIN mem
          BY <1>14, <4>2
        <5>2. Destination(h) + size_at(h) <= freePtr'
          BY <1>2, <1>18, <3>1, <4>2, <5>1, CompactNumbers
        <5>3. \E g \in Placed' : Destination(g)' = Destination(h) + size_at(h)
          BY <1>14, <1>18, <3>1, <4>2
        <5> QED
          BY <1>18, <4>2, <5>1, <5>2, <5>3
      <4> QED
        BY <3>1, <4>1, <4>2
    <3>3. ASSUME NEW g \in Placed', NEW h \in Placed', g < h
          PROVE  Destination(g)' + size_at(g) <= Destination(h)'
      <4>1. CASE g \in Placed /\ h \in Placed
        BY <1>14, <1>18, <3>3, <4>1
      <4>2. CASE g \in Placed /\ h = p
        BY <1>14, <1>18, <3>1, <4>2
      <4>3. g # p
        <5>1. h = p \/ h < p
          BY <1>14, <3>1
        <5> QED
          BY <1>2, <1>3, <1>14, <3>1, <3>3, <5>1, CompactNumbers
      <4> QED
        BY <3>1, <4>1, <4>2, <4>3
    <3>4. freePtr' <= scan'
      BY <1>2, <1>3, <1>12, <3>1, CompactNumbers
    <3>5. IsFrontier(heap.begin)'
      <4>1. \E h \in Placed' : Destination(h)' = heap.begin
        BY <1>14, <1>18, <3>1
      <4>2. heap.begin <= freePtr'
        BY <1>2, <1>18, <3>1, CompactNumbers
      <4> QED
        BY <1>1, <1>10, <3>2, <4>1, <4>2 DEF IsFrontier
    <3> QED
      BY <1>1, <1>9, <1>10, <3>2, <3>3, <3>4, <3>5
         DEF PlacesInOrder, FrontierBehindIterator
  <2>2. CASE ~fwd[p].mark
    <3>1. Placed' = Placed /\ freePtr' = freePtr
      BY <1>5, <1>13, <2>2
    <3>2. freePtr <= scan'
      BY <1>2, <1>3, <1>12, CompactNumbers
    <3>3. IsFrontier(heap.begin)'
      BY <1>1, <1>10, <1>14, <1>18, <3>1 DEF IsFrontier
    <3> QED
      BY <1>1, <1>9, <1>10, <1>14, <1>18, <3>1, <3>2, <3>3
         DEF PlacesInOrder, FrontierBehindIterator
  <2> QED
    BY <2>1, <2>2
<1>20. TiledOnBothSides' /\ WordsReadable' /\ OnlyLiveKept' /\ CompactedInOrder' /\ ~Collecting'
  BY <1>1 DEF TiledOnBothSides, WordsReadable, OnlyLiveKept, CompactedInOrder, Collecting
<1>21. EdgesNeedNoFixing'
  BY <1>1, EdgesStay DEF CompactInvariant, Marking
<1> QED
  BY <1>1, <1>2, <1>6, <1>7, <1>8, <1>16, <1>17, <1>19, <1>20, <1>21 DEF CompactInvariant

\* memcpy: every word is where it was, counted from the beginning of the chunk.
LEMMA WordCopied ==
  ASSUME NEW o \in Nat, o = heap.begin, NEW b \in Nat, NEW f, DOMAIN f \subseteq Nat
  PROVE  \A g \in DOMAIN f, h \in Int : h = b + (g - o) => CopiedTo(b, f)[h] = f[g]
<1>1. CopiedTo(b, f) = [h \in {b + (g - o) : g \in DOMAIN f} |-> f[o + (h - b)]]
  BY DEF CopiedTo
<1>2. ASSUME NEW g \in DOMAIN f, NEW h \in Int, h = b + (g - o)
      PROVE  CopiedTo(b, f)[h] = f[g]
  <2>1. o + (h - b) = g
    BY <1>2
  <2> QED
    BY <1>1, <1>2, <2>1
<1> QED
  BY <1>2

\* So the objects of the new chunk are those of the old one, with their bits.
LEMMA ObjectsCopied ==
  ASSUME NEW o \in Nat, o = heap.begin, NEW b \in Nat,
         DOMAIN mem \subseteq Nat, DOMAIN fwd = DOMAIN mem
  PROVE  LET m == CopiedTo(b, mem)
             w == CopiedTo(b, fwd)
         IN  /\ DOMAIN m = {b + (g - o) : g \in DOMAIN mem}
             /\ DOMAIN w = {b + (g - o) : g \in DOMAIN mem}
             /\ w = [h \in DOMAIN w |-> w[h]]
             /\ \A g \in DOMAIN mem, h \in Int :
                  h = b + (g - o) => m[h] = mem[g] /\ w[h] = fwd[g]
<1>1. \A g \in DOMAIN mem, h \in Int : h = b + (g - o) => CopiedTo(b, mem)[h] = mem[g]
  BY WordCopied
<1>2. \A g \in DOMAIN fwd, h \in Int : h = b + (g - o) => CopiedTo(b, fwd)[h] = fwd[g]
  BY WordCopied
<1>3. CopiedTo(b, mem) = [h \in {b + (g - o) : g \in DOMAIN mem} |-> mem[o + (h - b)]]
  BY DEF CopiedTo
<1>4. CopiedTo(b, fwd) = [h \in {b + (g - o) : g \in DOMAIN mem} |-> fwd[o + (h - b)]]
  BY DEF CopiedTo
<1> QED
  BY <1>1, <1>2, <1>3, <1>4

\* The new chunk has room for the live objects and for the request, and is not
\* smaller than the old one.
LEMMA NextHeapSize ==
  ASSUME live_size \in Nat, need \in Nat, heap.size \in Nat
  PROVE  /\ next_heap_size \in Nat
         /\ heap.size <= next_heap_size
         /\ live_size + need <= next_heap_size
<1> DEFINE e == EXTRA_ROOM_HEAP_COEFFICIENT
           r == live_size * e
<1>1. e \in Nat /\ e >= 1 /\ MINIMUM_HEAP_CAPACITY \in Nat
  BY CompactAssumption
<1>2. r \in Nat /\ r >= live_size
  <2>1. PICK k \in Nat : e = k + 1
    BY <1>1
  <2>2. live_size * (k + 1) = live_size * k + live_size /\ live_size * k \in Nat
    BY <2>1
  <2> QED
    BY <2>1, <2>2
<1> HIDE DEF e, r
<1>3. next_heap_size = MAX(MAX(r + need, MINIMUM_HEAP_CAPACITY), heap.size)
  BY DEF next_heap_size, e, r
<1> QED
  BY <1>1, <1>2, <1>3 DEF MAX

\* Whoever is marked has its location before the chunk is copied.
LEMMA AllPlaced ==
  ASSUME CompactInvariant, phase = "locate", scan >= heap.current
  PROVE  /\ MarkInvariant /\ BottomFollowed /\ HeapTypeOK /\ Tiled /\ CompactTypeOK
         /\ old = heap /\ Placed = Marked /\ Enqueued = {}
         /\ Closed(Marked)
         /\ live_size \in Nat /\ live_end = freePtr /\ freePtr <= heap.current
<1>1. MarkInvariant /\ BottomFollowed /\ HeapTypeOK /\ Tiled /\ CompactTypeOK
  BY DEF CompactInvariant, MarkInvariant, HeapInOrder, CompactTypeOK
<1>2. old = heap /\ old.begin <= freePtr
  BY DEF CompactInvariant, ChunksApart, Compacting
<1>3. \A h \in DOMAIN mem : h < heap.current /\ h \in Nat
  BY <1>1, NextCell, CompactNumbers
<1>4. scan = heap.current
  BY <1>1, <1>3, CompactNumbers DEF CompactInvariant, IteratorOnObject
<1>5. Placed = Marked
  BY <1>1, <1>3, <1>4, CompactNumbers DEF Placed
<1>6. Enqueued = {} /\ Closed(Marked)
  BY <1>1, ExactFromInvariant DEF MarkedExactlyLive
<1>7. live_size \in Nat /\ live_end = freePtr
  BY <1>1, <1>2, CompactNumbers DEF live_size, live_end
<1>8. freePtr <= heap.current
  BY <1>4, <1>7 DEF CompactInvariant, PlacesInOrder, Compacting
<1> QED
  BY <1>1, <1>2, <1>5, <1>6, <1>7, <1>8

\* The copy of the chunk, object by object: b + (g - o) is where g has been copied.
Copied(b, o) ==
  /\ o \in Nat /\ b \in Nat
  /\ heap'.begin = b /\ heap'.current = b + (heap.current - o)
  /\ heap'.size = next_heap_size
  /\ CompactTypeOK'
  /\ DOMAIN mem' = {b + (g - o) : g \in DOMAIN mem}
  /\ Marked' = {b + (g - o) : g \in Marked}
  /\ live_end' = b + (live_end - o)
  /\ Enqueued' = {}
  /\ \A g \in DOMAIN mem :
       /\ g \in Nat /\ o <= g
       /\ mem'[b + (g - o)] = mem[g]
       /\ fwd'[b + (g - o)] = fwd[g]
       /\ size_at(b + (g - o))' = size_at(g)
       /\ heap_next_obj_iterator(b + (g - o))' = b + (heap_next_obj_iterator(g) - o)
       /\ Destination(b + (g - o))' = b + (Destination(g) - o)

LEMMA MapChunkEffect ==
  ASSUME CompactInvariant, MapChunk, NEW b \in Bases, NEW o, o = heap.begin,
         heap' = [begin |-> b, size |-> next_heap_size,
                  current |-> b + (heap.current - heap.begin)],
         mem' = CopiedTo(b, mem), fwd' = CopiedTo(b, fwd)
  PROVE  Copied(b, o)
<1> DEFINE At(g) == b + (g - o)
<1>1. /\ phase = "locate" /\ scan >= heap.current /\ phase' = "update"
      /\ UNCHANGED <<slots, extra, root, qHead, qTail, cur, fld, need, old, freePtr>>
      /\ scan' \in Bases
  BY DEF MapChunk
<1>2. /\ HeapTypeOK /\ Tiled /\ CompactTypeOK /\ old = heap
      /\ live_size \in Nat /\ live_end = freePtr /\ Enqueued = {}
  BY <1>1, AllPlaced
<1>3. o \in Nat /\ b \in Nat /\ Bases \subseteq Nat
  BY <1>2, CompactNumbers, CompactAssumption
<1>4. \A g \in DOMAIN mem : g \in Nat /\ o <= g
  BY <1>2, CompactNumbers DEF Tiled
<1>5. DOMAIN mem = DOMAIN fwd /\ DOMAIN mem \subseteq Nat
  BY <1>2 DEF HeapTypeOK
<1>6. /\ DOMAIN mem' = {At(g) : g \in DOMAIN mem}
      /\ DOMAIN fwd' = {At(g) : g \in DOMAIN mem}
      /\ fwd' = [h \in DOMAIN fwd' |-> fwd'[h]]
      /\ \A g \in DOMAIN mem :
           At(g) \in Nat /\ mem'[At(g)] = mem[g] /\ fwd'[At(g)] = fwd[g]
  <2>1. \A g \in DOMAIN mem : At(g) \in Nat
    BY <1>3, <1>4
  <2>2. /\ DOMAIN CopiedTo(b, mem) = {At(g) : g \in DOMAIN mem}
        /\ DOMAIN CopiedTo(b, fwd) = {At(g) : g \in DOMAIN mem}
        /\ CopiedTo(b, fwd) = [h \in DOMAIN CopiedTo(b, fwd) |-> CopiedTo(b, fwd)[h]]
        /\ \A g \in DOMAIN mem, h \in Int :
             h = At(g) => CopiedTo(b, mem)[h] = mem[g] /\ CopiedTo(b, fwd)[h] = fwd[g]
    BY <1>3, <1>5, ObjectsCopied
  <2> QED
    BY <2>1, <2>2
<1>7. heap'.begin = b /\ heap'.current = At(heap.current) /\ heap'.size = next_heap_size
  OBVIOUS
<1>8. next_heap_size \in Nat
  BY <1>2, NextHeapSize, CompactNumbers
<1>9. CompactTypeOK'
  <2>1. heap' \in [begin : Nat, size : Nat, current : Nat]
    BY <1>2, <1>3, <1>8, CompactNumbers DEF Tiled
  <2>2. DOMAIN mem' \subseteq Nat
    BY <1>3, <1>4, <1>6
  <2>3. \A h \in DOMAIN mem' : ObjectOK(mem'[h])
    BY <1>2, <1>6 DEF HeapTypeOK
  <2>4. fwd' \in [DOMAIN mem' -> ForwardWord]
    <3>1. \A h \in DOMAIN mem' : fwd'[h] \in ForwardWord
      BY <1>2, <1>6 DEF HeapTypeOK
    <3> QED
      BY <1>6, <3>1
  <2>5. HeapTypeOK'
    <3>1. \A h \in DOMAIN mem' : ObjectOK(mem[h])'
      BY <2>3 DEF ObjectOK
    <3> QED
      BY <1>1, <1>2, <2>1, <2>2, <2>4, <3>1 DEF HeapTypeOK
  <2> QED
    BY <1>1, <1>2, <1>3, <2>5, CompactNumbers DEF CompactTypeOK
<1>10. Marked' = {At(g) : g \in Marked} /\ Enqueued' = {}
  BY <1>2, <1>5, <1>6 DEF Marked, Enqueued
<1>11. live_end' = At(live_end)
  BY <1>1, <1>2, <1>3, <1>7, CompactNumbers DEF live_end, live_size
<1>12. ASSUME NEW g \in DOMAIN mem
       PROVE  /\ size_at(At(g))' = size_at(g)
              /\ heap_next_obj_iterator(At(g))' = At(heap_next_obj_iterator(g))
              /\ Destination(At(g))' = At(Destination(g))
  <2>1. size_at(At(g))' = size_at(g)
    BY <1>6, <1>12 DEF size_at
  <2>2. heap_next_obj_iterator(At(g))' = At(g) + size_at(g)
    BY <2>1 DEF heap_next_obj_iterator
  <2>3. Destination(At(g))' = b + (fwd[g].addr - o)
    BY <1>1, <1>2, <1>6, <1>7 DEF Destination
  <2> QED
    BY <1>2, <1>3, <2>1, <2>2, <2>3, CompactNumbers
<1> QED
  BY <1>3, <1>4, <1>6, <1>7, <1>9, <1>10, <1>11, <1>12 DEF Copied

\* When all is marked, the words that the collector reads lead to marked objects.
LEMMA ScannedWordsLeadToMarked ==
  ASSUME CompactInvariant, phase = "locate", scan >= heap.current
  PROVE  /\ \A l \in RootSet \cup {StackBottom} :
              slots[l] \in Word /\ slots[l] \in ScannedWords /\ Target(slots[l]) \subseteq Marked
         /\ \A g \in Marked : \A i \in 1..Len(mem[g].flds) :
              /\ mem[g].flds[i] \in Word /\ mem[g].flds[i] \in ScannedWords
              /\ Target(mem[g].flds[i]) \subseteq Marked
<1>1. MarkInvariant /\ BottomFollowed /\ HeapTypeOK /\ Closed(Marked) /\ CompactTypeOK
  BY AllPlaced
<1>2. FieldsSound /\ Marked \subseteq DOMAIN mem
  BY <1>1, CompactNumbers DEF MarkInvariant, HeapInOrder
<1>3. ASSUME NEW l \in RootSet \cup {StackBottom}
      PROVE  slots[l] \in Word /\ slots[l] \in ScannedWords /\ Target(slots[l]) \subseteq Marked
  <2>1. \A k \in RootSet : slots[k] \in Word /\ Target(slots[k]) \subseteq RootTargets
    BY <1>1, RootOrderIsSeq DEF RootSet, RootTargets, HeapTypeOK
  <2>2. slots[StackBottom] \in Word /\ Target(slots[StackBottom]) \subseteq RootTargets
    BY <1>1, HeapAssumption DEF BottomFollowed, HeapTypeOK
  <2> QED
    BY <1>1, <1>3, <2>1, <2>2 DEF Closed, ScannedWords
<1>4. ASSUME NEW g \in Marked, NEW i \in 1..Len(mem[g].flds)
      PROVE  /\ mem[g].flds[i] \in Word /\ mem[g].flds[i] \in ScannedWords
             /\ Target(mem[g].flds[i]) \subseteq Marked
  <2>1. mem[g].flds[i] \in Word
    BY <1>1, <1>2, <1>4, FieldIsSound
  <2>2. Target(mem[g].flds[i]) \subseteq Marked
    BY <1>1, <1>4 DEF Closed, Successors
  <2>3. mem[g].flds[i] \in ScannedWords
    BY <1>4 DEF ScannedWords
  <2> QED
    BY <2>1, <2>2, <2>3
<1> QED
  BY <1>3, <1>4

\* The word v of the old chunk leads to the copy of what it referred to.
LeadsToCopy(v, b, o) ==
  /\ OldWord(v)'
  /\ InOldHeap(v)' <=> is_valid_heap_pointer(v)
  /\ is_valid_heap_pointer(v) => InNewHeap(v)' = b + (get_obj_header_ptr(v) - o)
  /\ \A h \in Target(v) : FinalTarget(v, FALSE)' = {Destination(b + (h - o))'}
  /\ Target(v) = {} => FinalTarget(v, FALSE)' = {}

LEMMA OldWordsLeadToCopies ==
  ASSUME CompactInvariant, MapChunk, NEW b \in Nat, NEW o \in Nat, o = heap.begin,
         heap'.begin = b, heap'.current = b + (heap.current - o),
         Marked' = {b + (g - o) : g \in Marked},
         Unused(b, next_heap_size), HeapTypeOK, Tiled, old = heap, live_size \in Nat,
         NEW v \in ScannedWords, v \in Word, Target(v) \subseteq Marked
  PROVE  LeadsToCopy(v, b, o)
<1>1. old' = heap /\ need \in Nat
  BY DEF MapChunk, CompactInvariant, CompactTypeOK
<1>2. heap.begin \in Nat /\ heap.current \in Nat /\ heap.size \in Nat
  BY DEF HeapTypeOK
<1>3. v \notin Unboxed => v \in Nat
  BY DEF Word
<1>4. InOldHeap(v)' <=> is_valid_heap_pointer(v)
  BY <1>1 DEF InOldHeap, is_valid_heap_pointer, is_valid_pointer
<1>5. is_valid_heap_pointer(v) => InNewHeap(v)' = b + (get_obj_header_ptr(v) - o)
  BY <1>1, <1>2, <1>3
     DEF InNewHeap, is_valid_heap_pointer, is_valid_pointer, get_obj_header_ptr, HeaderWords
<1>6. is_valid_heap_pointer(v) => Target(v) = {get_obj_header_ptr(v)}
  BY DEF Target
<1>7. ~is_valid_heap_pointer(v) => Target(v) = {}
  BY DEF Target
<1>8. is_valid_heap_pointer(v)' => is_valid_heap_pointer(v)
  <2> SUFFICES ASSUME is_valid_heap_pointer(v)', ~is_valid_heap_pointer(v) PROVE FALSE
    OBVIOUS
  <2>1. v \in Nat /\ b <= v /\ v <= b + (heap.current - o) /\ is_valid_pointer(v)
    BY <1>3 DEF is_valid_heap_pointer, is_valid_pointer
  <2>2. v < b \/ b + next_heap_size < v
    BY <2>1 DEF Unused
  <2>3. next_heap_size \in Nat /\ heap.size <= next_heap_size
    BY <1>1, <1>2, NextHeapSize
  <2>4. heap.current <= o + heap.size
    BY <1>2 DEF Tiled, heap_end
  <2> QED
    BY <1>2, <2>1, <2>2, <2>3, <2>4
<1> QED
  BY <1>4, <1>5, <1>6, <1>7, <1>8 DEF LeadsToCopy, OldWord, FinalTarget

\* mmap and memcpy: every object, and every location, is as far from the beginning
\* of the new chunk as it was from the beginning of the old one.
LEMMA MapChunkStep ==
  ASSUME CompactInvariant, MapChunk
  PROVE  CompactInvariant'
<1>0. PICK o : o = heap.begin
  OBVIOUS
<1>1. /\ phase = "locate" /\ scan >= heap.current /\ phase' = "update"
      /\ UNCHANGED <<slots, extra, root, qHead, qTail, cur, fld, need, old, freePtr>>
  BY DEF MapChunk
<1>2. PICK b \in Bases :
         /\ Disjoint(b, next_heap_size)
         /\ Unused(b, next_heap_size)
         /\ heap' = [begin |-> b, size |-> next_heap_size,
                     current |-> b + (heap.current - heap.begin)]
         /\ mem' = CopiedTo(b, mem) /\ fwd' = CopiedTo(b, fwd)
         /\ scan' = b
  BY DEF MapChunk
<1>3. /\ MarkInvariant /\ BottomFollowed /\ HeapTypeOK /\ Tiled /\ CompactTypeOK
      /\ old = heap /\ Placed = Marked /\ Closed(Marked)
      /\ live_size \in Nat /\ live_end = freePtr /\ freePtr <= heap.current
  BY <1>1, AllPlaced
<1> DEFINE At(g) == b + (g - o)
<1>4. /\ o \in Nat /\ b \in Nat
      /\ heap'.begin = b /\ heap'.current = At(heap.current) /\ heap'.size = next_heap_size
      /\ CompactTypeOK' /\ Enqueued' = {}
      /\ DOMAIN mem' = {At(g) : g \in DOMAIN mem}
      /\ Marked' = {At(g) : g \in Marked}
      /\ live_end' = At(live_end)
      /\ \A g \in DOMAIN mem :
           /\ g \in Nat /\ o <= g
           /\ mem'[At(g)] = mem[g] /\ fwd'[At(g)] = fwd[g]
           /\ size_at(At(g))' = size_at(g)
           /\ heap_next_obj_iterator(At(g))' = At(heap_next_obj_iterator(g))
           /\ Destination(At(g))' = At(Destination(g))
  <2>1. Copied(b, o)
    BY <1>0, <1>2, MapChunkEffect
  <2> QED
    BY <2>1 DEF Copied
<1>5. /\ heap.current \in Nat /\ heap.size \in Nat /\ freePtr \in Nat /\ need \in Nat
      /\ Marked \subseteq DOMAIN mem
      /\ \A g \in DOMAIN mem :
           /\ size_at(g) \in Nat /\ size_at(g) >= 2 /\ Destination(g) \in Int
           /\ heap_next_obj_iterator(g) = g + size_at(g)
  BY <1>3, CompactNumbers
<1>6. next_heap_size \in Nat /\ heap.size <= next_heap_size /\ live_size + need <= next_heap_size
  BY <1>3, <1>5, NextHeapSize
<1>7. /\ o <= heap.current /\ heap.current <= o + heap.size
      /\ o # heap.current => o \in DOMAIN mem
      /\ \A h \in DOMAIN mem :
           /\ heap_next_obj_iterator(h) <= heap.current
           /\ heap_next_obj_iterator(h) # heap.current => heap_next_obj_iterator(h) \in DOMAIN mem
      /\ \A g, h \in DOMAIN mem : g < h => heap_next_obj_iterator(g) <= h
  BY <1>0, <1>3 DEF Tiled, heap_end
<1>8. live_size = freePtr - o
  BY <1>0, <1>3 DEF live_size
<1>9. Placed' = {At(g) : g \in Marked} /\ KeptHeaders' = {At(g) : g \in Marked}
  BY <1>1, <1>4 DEF Placed, KeptHeaders
<1>10. b \in DOMAIN mem' \/ b = heap'.current
  <2>1. At(o) = b
    BY <1>4
  <2> QED
    BY <1>4, <1>7, <2>1
<1>11. IteratorOnObject'
  BY <1>2, <1>10 DEF IteratorOnObject
<1>12. ChunksApart'
  <2>1. b + next_heap_size <= o \/ o + heap.size <= b
    BY <1>0, <1>2 DEF Disjoint, heap_end
  <2>2. /\ old' = heap /\ old'.begin = o
        /\ old'.begin <= freePtr' /\ old'.begin <= old'.current
        /\ old'.current <= old'.begin + old'.size
        /\ heap'.current = heap'.begin + (old'.current - old'.begin)
    BY <1>0, <1>1, <1>3, <1>4, <1>7, <1>8, <1>5
  <2>3. live_end' + need' <= heap_end'
    BY <1>1, <1>3, <1>4, <1>5, <1>6, <1>8 DEF heap_end
  <2> QED
    BY <1>1, <1>4, <2>1, <2>2, <2>3 DEF ChunksApart
<1>13. Tiled'
  <2>1. /\ b <= heap'.current /\ heap'.current <= heap_end'
        /\ b # heap'.current => b \in DOMAIN mem'
    BY <1>4, <1>5, <1>6, <1>7, <1>10 DEF heap_end
  <2>2. ASSUME NEW h \in DOMAIN mem'
        PROVE  /\ b <= h
               /\ heap_next_obj_iterator(h)' <= heap'.current
               /\ heap_next_obj_iterator(h)' # heap'.current
                    => heap_next_obj_iterator(h)' \in DOMAIN mem'
    <3>1. PICK g \in DOMAIN mem : h = At(g)
      BY <1>4
    <3>2. heap_next_obj_iterator(h)' = At(heap_next_obj_iterator(g))
      BY <1>4, <3>1
    <3> QED
      BY <1>4, <1>5, <1>7, <3>1, <3>2
  <2>3. ASSUME NEW c \in DOMAIN mem', NEW h \in DOMAIN mem', c < h
        PROVE  heap_next_obj_iterator(c)' <= h
    <3>1. PICK g \in DOMAIN mem, k \in DOMAIN mem : c = At(g) /\ h = At(k)
      BY <1>4
    <3>2. heap_next_obj_iterator(c)' = At(heap_next_obj_iterator(g))
      BY <1>4, <3>1
    <3> QED
      BY <1>4, <1>5, <1>7, <2>3, <3>1, <3>2
  <2> QED
    BY <1>4, <2>1, <2>2, <2>3 DEF Tiled
<1>14. /\ \A h \in Marked :
            /\ o <= Destination(h)
            /\ Destination(h) <= h
            /\ Destination(h) + size_at(h) <= freePtr
            /\ \/ Destination(h) + size_at(h) = freePtr
               \/ \E g \in Marked : Destination(g) = Destination(h) + size_at(h)
       /\ \A g, h \in Marked : g < h => Destination(g) + size_at(g) <= Destination(h)
       /\ o = freePtr \/ \E h \in Marked : Destination(h) = o
       /\ o <= freePtr
  BY <1>0, <1>1, <1>3
     DEF CompactInvariant, PlacesInOrder, FrontierBehindIterator, IsFrontier, Compacting
<1>15. PlacesInOrder'
  <2>1. ASSUME NEW h \in Marked'
        PROVE  /\ b <= Destination(h)'
               /\ Destination(h)' <= h
               /\ Destination(h)' + size_at(h)' <= live_end'
               /\ \/ Destination(h)' + size_at(h)' = live_end'
                  \/ \E g \in Marked' : Destination(g)' = Destination(h)' + size_at(h)'
    <3>1. PICK g \in Marked : h = At(g)
      BY <1>4
    <3>2. Destination(h)' = At(Destination(g)) /\ size_at(h)' = size_at(g) /\ g \in DOMAIN mem
      BY <1>4, <1>5, <3>1
    <3>3. ASSUME NEW k \in Marked, Destination(k) = Destination(g) + size_at(g)
          PROVE  At(k) \in Marked' /\ Destination(At(k))' = Destination(h)' + size_at(h)'
      <4>1. Destination(At(k))' = At(Destination(k)) /\ At(k) \in Marked'
        BY <1>4, <1>5
      <4> QED
        BY <1>4, <1>5, <3>2, <3>3, <4>1
    <3>4. b <= At(Destination(g)) /\ At(Destination(g)) <= h
      BY <1>4, <1>5, <1>14, <3>1
    <3>5. At(Destination(g)) + size_at(g) <= live_end'
      BY <1>3, <1>4, <1>5, <1>14
    <3>6. \/ At(Destination(g)) + size_at(g) = live_end'
          \/ \E k \in Marked : Destination(k) = Destination(g) + size_at(g)
      BY <1>3, <1>4, <1>5, <1>14
    <3> QED
      BY <3>2, <3>3, <3>4, <3>5, <3>6
  <2>2. ASSUME NEW c \in Marked', NEW h \in Marked', c < h
        PROVE  Destination(c)' + size_at(c)' <= Destination(h)'
    <3>1. PICK g \in Marked, k \in Marked : c = At(g) /\ h = At(k)
      BY <1>4
    <3>2. /\ Destination(c)' = At(Destination(g)) /\ Destination(h)' = At(Destination(k))
          /\ size_at(c)' = size_at(g)
      BY <1>4, <1>5, <3>1
    <3> QED
      BY <1>4, <1>5, <1>14, <2>2, <3>1, <3>2
  <2>3. live_end' <= heap'.current
    BY <1>3, <1>4, <1>5
  <2> QED
    BY <1>1, <1>4, <1>9, <2>1, <2>2, <2>3 DEF PlacesInOrder
<1>16. FrontierBehindIterator'
  <2>1. b = live_end' \/ \E h \in Marked' : Destination(h)' = b
    <3>1. CASE o = freePtr
      BY <1>3, <1>4, <1>5, <3>1
    <3>2. ASSUME NEW h \in Marked, Destination(h) = o
          PROVE  At(h) \in Marked' /\ Destination(At(h))' = b
      <4>1. Destination(At(h))' = At(Destination(h)) /\ At(h) \in Marked'
        BY <1>4, <1>5
      <4> QED
        BY <1>4, <3>2, <4>1
    <3> QED
      BY <1>14, <3>1, <3>2
  <2>2. b <= live_end'
    BY <1>3, <1>4, <1>5, <1>14
  <2>3. \A h \in Marked' : b <= Destination(h)'
    BY <1>1, <1>4, <1>9, <1>15 DEF PlacesInOrder, Compacting, Collecting
  <2> QED
    BY <1>1, <1>4, <1>9, <2>1, <2>2, <2>3 DEF FrontierBehindIterator, IsFrontier
<1>17. TiledOnBothSides'
  BY <1>1, <1>13 DEF TiledOnBothSides
<1>18. /\ \A l : ~SlotFixed(l)'
       /\ \A h \in KeptHeaders' : ~FieldsFixed(h)'
  <2>1. \A h \in KeptHeaders' : b <= h
    BY <1>4, <1>5, <1>9
  <2>2. \A h \in KeptHeaders' : h \in Nat
    BY <1>4, <1>5, <1>9
  <2> QED
    BY <1>1, <1>2, <1>4, <2>1, <2>2 DEF SlotFixed, FieldsFixed
<1>19. RootSet' = RootSet
  BY <1>1 DEF RootSet, RootOrder
<1>20. /\ \A l \in RootSet \cup {StackBottom} :
            slots[l] \in Word /\ slots[l] \in ScannedWords /\ Target(slots[l]) \subseteq Marked
       /\ \A g \in Marked : \A i \in 1..Len(mem[g].flds) :
            /\ mem[g].flds[i] \in Word /\ mem[g].flds[i] \in ScannedWords
            /\ Target(mem[g].flds[i]) \subseteq Marked
  BY <1>1, ScannedWordsLeadToMarked
<1>21. ASSUME NEW v \in ScannedWords, v \in Word, Target(v) \subseteq Marked
       PROVE  /\ OldWord(v)'
              /\ \A h \in Target(v) : FinalTarget(v, FALSE)' = {At(Destination(h))}
              /\ Target(v) = {} => FinalTarget(v, FALSE)' = {}
  <2>1. LeadsToCopy(v, b, o)
    BY <1>0, <1>2, <1>3, <1>4, <1>21, OldWordsLeadToCopies
  <2> QED
    BY <1>4, <1>5, <1>21, <2>1 DEF LeadsToCopy
<1>22. WordsReadable'
  <2>1. \A l \in RootSet \cup {StackBottom} : OldWord(slots[l])'
    BY <1>1, <1>20, <1>21
  <2>2. ASSUME NEW h \in KeptHeaders', NEW i \in 1..Len(mem'[h].flds)
        PROVE  OldWord(mem[h].flds[i])'
    <3>1. PICK g \in Marked : h = At(g)
      BY <1>9
    <3>2. mem'[h] = mem[g]
      BY <1>4, <1>5, <3>1
    <3> QED
      BY <1>20, <1>21, <2>2, <3>2
  <2> QED
    BY <1>1, <1>18, <1>19, <2>1, <2>2 DEF WordsReadable, WordOK
<1>23. FinalHeaders' = {At(Destination(g)) : g \in Marked}
  <2>1. \A g \in Marked : FinalOf(At(g))' = At(Destination(g))
    BY <1>4, <1>5, <1>9 DEF FinalOf
  <2> QED
    BY <1>9, <2>1 DEF FinalHeaders
<1>24. OnlyLiveKept'
  <2> SUFFICES ASSUME NEW S \in SUBSET FinalHeaders', FinalClosed(S)'
               PROVE  FinalHeaders' \subseteq S
    BY DEF OnlyLiveKept
  <2> DEFINE T == {g \in Marked : At(Destination(g)) \in S}
  <2>1. ASSUME NEW v \in ScannedWords, v \in Word, Target(v) \subseteq Marked,
               FinalTarget(v, FALSE)' \subseteq S
        PROVE  Target(v) \subseteq T
    <3>1. \A h \in Target(v) : FinalTarget(v, FALSE)' = {At(Destination(h))}
      BY <1>21, <2>1
    <3> QED
      BY <2>1, <3>1
  <2>2. RootTargets \subseteq T
    <3>1. ASSUME NEW l \in RootSet PROVE Target(slots[l]) \subseteq T
      <4>1. FinalTarget(slots[l], FALSE)' \subseteq S
        BY <1>18, <1>19 DEF FinalClosed, FinalTarget
      <4>2. slots'[l] = slots[l]
        BY <1>1
      <4> QED
        BY <1>20, <2>1, <4>1, <4>2
    <3> QED
      BY <3>1 DEF RootTargets, RootSet
  <2>3. ASSUME NEW g \in T PROVE Successors(g) \subseteq T
    <3>1. At(g) \in KeptHeaders' /\ FinalOf(At(g))' \in S /\ mem'[At(g)] = mem[g]
      BY <1>4, <1>5, <1>9 DEF FinalOf
    <3>2. ASSUME NEW i \in 1..Len(mem[g].flds) PROVE Target(mem[g].flds[i]) \subseteq T
      <4>1. FinalTarget(mem[At(g)].flds[i], FALSE)' \subseteq S
        BY <1>18, <3>1 DEF FinalClosed, FinalTarget
      <4> QED
        BY <1>20, <2>1, <3>1, <4>1
    <3> QED
      BY <3>2 DEF Successors
  <2>4. Closed(T)
    BY <2>2, <2>3 DEF Closed
  <2>5. Reached \subseteq T
    BY <1>3, <1>5, <2>4 DEF MarkInvariant, OnlyLiveReached
  <2> QED
    BY <1>23, <2>5 DEF Reached
<1>25. CompactedInOrder' /\ need' > 0 /\ ~Marking' /\ phase' # "locate"
  BY <1>1 DEF CompactedInOrder, CompactInvariant, Marking
<1>26. EdgesNeedNoFixing'
  <2>1. EdgesHoldNoObject
    BY <1>1 DEF CompactInvariant, EdgesNeedNoFixing
  <2>2. ASSUME NEW l \in EdgeRoots PROVE ~InOldHeap(slots[l])
    BY <1>3, <2>1, <2>2 DEF EdgesHoldNoObject, Target, is_valid_heap_pointer, InOldHeap
  <2> QED
    BY <1>1, <2>2 DEF EdgesNeedNoFixing, Marking, EdgeRoots, InOldHeap
<1> QED
  BY <1>4, <1>11, <1>12, <1>15, <1>16, <1>17, <1>22, <1>24, <1>25, <1>26 DEF CompactInvariant

\* While the chunk, the locations and the bits stay, words lead where they led.
LEMMA WordsStay ==
  ASSUME UNCHANGED <<heap, fwd, old>>
  PROVE  /\ Marked' = Marked
         /\ \A h : Destination(h)' = Destination(h)
         /\ \A v : /\ InOldHeap(v)' <=> InOldHeap(v)
                   /\ is_valid_heap_pointer(v)' <=> is_valid_heap_pointer(v)
                   /\ InNewHeap(v)' = InNewHeap(v)
                   /\ Fixed(v)' = Fixed(v)
                   /\ Target(v)' = Target(v)
                   /\ OldWord(v)' <=> OldWord(v)
                   /\ FinalTarget(v, TRUE)' = FinalTarget(v, TRUE)
                   /\ FinalTarget(v, FALSE)' = FinalTarget(v, FALSE)
<1>1. Marked' = Marked /\ \A h : Destination(h)' = Destination(h)
  BY DEF Marked, Destination
<1>2. \A v : /\ InOldHeap(v)' <=> InOldHeap(v)
             /\ is_valid_heap_pointer(v)' <=> is_valid_heap_pointer(v)
             /\ InNewHeap(v)' = InNewHeap(v)
  BY DEF InOldHeap, is_valid_heap_pointer, InNewHeap
<1>3. \A v : Fixed(v)' = Fixed(v) /\ Target(v)' = Target(v) /\ (OldWord(v)' <=> OldWord(v))
  BY <1>1, <1>2 DEF Fixed, Forwarded, Destination, InNewHeap, InOldHeap, Target, OldWord
<1>4. \A v : /\ FinalTarget(v, TRUE)' = FinalTarget(v, TRUE)
             /\ FinalTarget(v, FALSE)' = FinalTarget(v, FALSE)
  BY <1>2, <1>3 DEF FinalTarget, Destination, InNewHeap, InOldHeap
<1> QED
  BY <1>1, <1>2, <1>3, <1>4

\* A word that is fixed refers to the final location of what it referred to, and
\* fixing it once more would not change it.
LEMMA FixedWord ==
  ASSUME CompactInvariant, phase \in {"update", "fixroots"}, NEW v \in Word
  PROVE  /\ OldWord(v) => /\ Fixed(v) \in Word
                          /\ NewWord(Fixed(v))
                          /\ Target(Fixed(v)) = FinalTarget(v, FALSE)
                          /\ FinalTarget(v, FALSE) = {} => Fixed(v) = v
         /\ NewWord(v) => Fixed(v) = v
<1>1. NewWord(v) => Fixed(v) = v
  BY DEF NewWord, Fixed
<1>2. CASE OldWord(v) /\ InOldHeap(v)
  <2> DEFINE h == InNewHeap(v)
             w == get_object_content_ptr(Destination(h))
  <2>1. Compacting /\ Collecting
    BY DEF Compacting, Collecting
  <2>2. CompactTypeOK /\ PlacesInOrder /\ ChunksApart
    BY DEF CompactInvariant
  <2>3. h \in Placed /\ h \in KeptHeaders /\ h \in DOMAIN mem
    BY <1>2, <2>2, CompactNumbers DEF OldWord, Placed, KeptHeaders
  <2>4. /\ heap.begin <= Destination(h) /\ Destination(h) + size_at(h) <= live_end
        /\ live_end <= heap.current
    BY <2>1, <2>2, <2>3 DEF PlacesInOrder
  <2>5. w = Destination(h) + 2 /\ Fixed(v) = w
    BY <1>2 DEF Fixed, Forwarded, get_object_content_ptr, HeaderWords
  <2>6. w \in Nat /\ heap.begin < w /\ w <= live_end
    BY <2>2, <2>3, <2>4, <2>5, CompactNumbers
  <2>7. w \notin Unboxed /\ w \in Word
    BY <2>6, HeapAssumption DEF Word
  <2>8. get_obj_header_ptr(w) = Destination(h) /\ Destination(h) = FinalOf(h)
    BY <2>2, <2>3, <2>5, CompactNumbers DEF get_obj_header_ptr, HeaderWords, FinalOf
  <2>9. Target(w) = {Destination(h)} /\ Destination(h) \in FinalHeaders
    BY <2>2, <2>3, <2>4, <2>6, <2>7, <2>8, CompactNumbers
       DEF Target, is_valid_heap_pointer, is_valid_pointer, FinalHeaders
  <2>10. ~InOldHeap(w)
    <3>1. need > 0 /\ live_end + need <= heap_end
      BY <2>1, <2>2 DEF CompactInvariant, ChunksApart
    <3>2. \/ heap_end <= old.begin
          \/ old.current <= heap.begin
      BY <2>1, <2>2, CompactNumbers DEF ChunksApart, heap_end
    <3> QED
      BY <2>2, <2>6, <3>1, <3>2, CompactNumbers DEF InOldHeap, heap_end
  <2>11. NewWord(w)
    BY <2>8, <2>9, <2>10 DEF NewWord
  <2>12. FinalTarget(v, FALSE) = {Destination(h)}
    BY <1>2 DEF FinalTarget
  <2> QED
    BY <1>1, <2>5, <2>7, <2>9, <2>11, <2>12
<1>3. CASE OldWord(v) /\ ~InOldHeap(v)
  <2>1. Fixed(v) = v /\ ~is_valid_heap_pointer(v)
    BY <1>3 DEF Fixed, OldWord
  <2> QED
    BY <1>1, <1>3, <2>1 DEF NewWord, Target, FinalTarget
<1> QED
  BY <1>1, <1>2, <1>3

\* k is after the step what h was before it.
Counterpart(h, k) ==
  /\ FinalOf(k)' = FinalOf(h)
  /\ mem'[k].id = mem[h].id /\ mem'[k].kind = mem[h].kind /\ mem'[k].len = mem[h].len
  /\ Len(mem'[k].flds) = Len(mem[h].flds)
  /\ \A i \in 1..Len(mem[h].flds) :
       /\ FinalTarget(mem[k].flds[i], FieldsFixed(k))' = FinalTarget(mem[h].flds[i], FieldsFixed(h))
       /\ FinalTarget(mem[h].flds[i], FieldsFixed(h)) = {} => mem'[k].flds[i] = mem[h].flds[i]

\* Whatever the step does to the words, they lead to the same final locations.
GraphKept ==
  /\ Collecting /\ Collecting'
  /\ RootSet' = RootSet
  /\ FinalHeaders' = FinalHeaders
  /\ \A l \in RootSet :
       /\ FinalTarget(slots[l], SlotFixed(l))' = FinalTarget(slots[l], SlotFixed(l))
       /\ FinalTarget(slots[l], SlotFixed(l)) = {} => slots'[l] = slots[l]
  /\ \A h \in KeptHeaders : \E k \in KeptHeaders' : Counterpart(h, k)
  /\ \A k \in KeptHeaders' : \E h \in KeptHeaders : Counterpart(h, k)

\* Nothing becomes garbage by such a step.
LEMMA OnlyLiveKeptStays ==
  ASSUME OnlyLiveKept, GraphKept
  PROVE  OnlyLiveKept'
<1> SUFFICES ASSUME NEW S \in SUBSET FinalHeaders', FinalClosed(S)'
             PROVE  S = FinalHeaders'
  BY DEF OnlyLiveKept
<1>1. \A l \in RootSet : FinalTarget(slots[l], SlotFixed(l)) \subseteq S
  BY DEF FinalClosed, GraphKept
<1>2. ASSUME NEW h \in KeptHeaders, FinalOf(h) \in S, NEW i \in 1..Len(mem[h].flds)
      PROVE  FinalTarget(mem[h].flds[i], FieldsFixed(h)) \subseteq S
  <2>1. PICK k \in KeptHeaders' :
          /\ FinalOf(k)' = FinalOf(h)
          /\ Len(mem'[k].flds) = Len(mem[h].flds)
          /\ FinalTarget(mem[k].flds[i], FieldsFixed(k))' = FinalTarget(mem[h].flds[i], FieldsFixed(h))
    BY <1>2 DEF GraphKept, Counterpart
  <2>2. FinalTarget(mem[k].flds[i], FieldsFixed(k))' \subseteq S
    BY <1>2, <2>1 DEF FinalClosed
  <2> QED
    BY <2>1, <2>2
<1>3. FinalClosed(S)
  BY <1>1, <1>2 DEF FinalClosed
<1> QED
  BY <1>3 DEF OnlyLiveKept, GraphKept

\* What the rewriting of words leaves alone, in a field or in a root.
LEMMA RewritingKeepsPlaces ==
  ASSUME CompactInvariant, phase \in {"update", "fixroots"}, phase' \in {"update", "fixroots"},
         UNCHANGED <<heap, fwd, need, old, freePtr>>, DOMAIN mem' = DOMAIN mem,
         \A h \in DOMAIN mem : size_at(h)' = size_at(h)
  PROVE  /\ Placed' = Marked /\ Placed = Marked /\ Marked' = Marked
         /\ KeptHeaders' = Marked /\ KeptHeaders = Marked
         /\ \A h \in Marked : FinalOf(h)' = FinalOf(h)
         /\ FinalHeaders' = FinalHeaders
         /\ live_end' = live_end
         /\ ChunksApart' /\ PlacesInOrder' /\ FrontierBehindIterator' /\ TiledOnBothSides'
         /\ CompactedInOrder' /\ Enqueued' = {} /\ need' > 0
<1>1. /\ Collecting /\ Compacting /\ phase # "locate" /\ phase # "relocate" /\ phase # "collected"
      /\ Collecting' /\ Compacting' /\ phase' # "locate" /\ phase' # "relocate"
      /\ phase' # "collected"
  BY DEF Collecting, Compacting
<1>2. CompactTypeOK /\ Marked \subseteq DOMAIN mem
  BY CompactNumbers DEF CompactInvariant
<1>3. Marked' = Marked /\ \A h : Destination(h)' = Destination(h)
  BY WordsStay
<1>4. /\ Placed' = Marked /\ Placed = Marked
      /\ KeptHeaders' = Marked /\ KeptHeaders = Marked
  BY <1>1, <1>3 DEF Placed, KeptHeaders
<1>5. \A h \in Marked : FinalOf(h)' = FinalOf(h)
  BY <1>3, <1>4 DEF FinalOf
<1>6. FinalHeaders' = FinalHeaders
  BY <1>4, <1>5 DEF FinalHeaders
<1>7. live_end' = live_end
  BY DEF live_end, live_size
<1>8. ChunksApart'
  <2>1. ChunksApart
    BY DEF CompactInvariant
  <2> QED
    BY <1>1, <1>7, <2>1 DEF ChunksApart, heap_end
<1>9. PlacesInOrder'
  <2>1. PlacesInOrder
    BY DEF CompactInvariant
  <2> QED
    BY <1>1, <1>2, <1>3, <1>4, <1>7, <2>1 DEF PlacesInOrder
<1>10. FrontierBehindIterator'
  <2>1. IsFrontier(heap.begin)
    BY DEF CompactInvariant, FrontierBehindIterator
  <2> QED
    BY <1>1, <1>3, <1>4, <1>7, <2>1 DEF FrontierBehindIterator, IsFrontier
<1>11. TiledOnBothSides'
  <2>1. Tiled
    BY DEF CompactInvariant, TiledOnBothSides
  <2>2. \A h \in DOMAIN mem : heap_next_obj_iterator(h)' = heap_next_obj_iterator(h)
    BY DEF heap_next_obj_iterator
  <2>3. Tiled'
    BY <2>1, <2>2 DEF Tiled, heap_end
  <2> QED
    BY <1>1, <2>3 DEF TiledOnBothSides
<1>12. CompactedInOrder' /\ need' > 0
  BY <1>1 DEF CompactedInOrder, CompactInvariant
<1>13. Enqueued' = {}
  BY <1>1 DEF Enqueued, CompactInvariant
<1> QED
  BY <1>3, <1>4, <1>5, <1>6, <1>7, <1>8, <1>9, <1>10, <1>11, <1>12, <1>13

\* One object of update_references: its fields refer to final locations now.
LEMMA UpdateObjectStep ==
  ASSUME CompactInvariant, UpdateObject
  PROVE  CompactInvariant' /\ GraphKept
<1>0. PICK p : p = scan
  OBVIOUS
<1>1. /\ phase = "update" /\ phase' = "update" /\ p < heap.current
      /\ UNCHANGED <<heap, fwd, slots, extra, need, old, freePtr, root>>
      /\ scan' = heap_next_obj_iterator(p)
  <2>1. scan < heap.current
    BY CompactNumbers DEF UpdateObject, heap_is_done_iterator, CompactInvariant
  <2> QED
    BY <1>0, <2>1 DEF UpdateObject, next_scan, markVars
<1>2. CompactTypeOK /\ HeapTypeOK /\ Tiled /\ Collecting
  BY <1>1 DEF CompactInvariant, CompactTypeOK, TiledOnBothSides, Collecting
<1>3. p \in DOMAIN mem /\ p \in Nat
  BY <1>0, <1>1, <1>2, CompactNumbers DEF CompactInvariant, IteratorOnObject
<1>4. /\ scan' \in DOMAIN mem \cup {heap.current}
      /\ \A c \in DOMAIN mem : c < scan' <=> c <= p
  BY <1>1, <1>2, <1>3, NextCell
<1>5. mem' = IF fwd[p].mark
             THEN [mem EXCEPT ![p].flds = [i \in DOMAIN mem[p].flds |-> Fixed(mem[p].flds[i])]]
             ELSE mem
  BY <1>0 DEF UpdateObject
<1>6. p \in Marked <=> fwd[p].mark
  BY <1>2, <1>3, CompactNumbers DEF Marked
<1>7. WordsReadable /\ KeptHeaders = Marked
  BY <1>1 DEF CompactInvariant, KeptHeaders
<1>8. /\ mem[p].flds \in Seq(Word) /\ mem[p].flds = [i \in 1..Len(mem[p].flds) |-> mem[p].flds[i]]
      /\ mem[p] \in Object
  BY <1>2, <1>3 DEF HeapTypeOK, ObjectOK, Object
<1>9. ASSUME p \in Marked, NEW i \in 1..Len(mem[p].flds)
      PROVE  mem[p].flds[i] \in Word /\ OldWord(mem[p].flds[i])
  <2>1. ~FieldsFixed(p)
    BY <1>0, <1>1, <1>3 DEF FieldsFixed
  <2> QED
    BY <1>2, <1>7, <1>8, <1>9, <2>1 DEF WordsReadable, WordOK
<1>10. DOMAIN mem' = DOMAIN mem /\ \A h \in DOMAIN mem : h # p => mem'[h] = mem[h]
  BY <1>5
<1>11. /\ mem'[p].kind = mem[p].kind /\ mem'[p].len = mem[p].len /\ mem'[p].id = mem[p].id
       /\ Len(mem'[p].flds) = Len(mem[p].flds)
       /\ mem'[p] \in Object
       /\ p \in Marked => \A i \in 1..Len(mem[p].flds) : mem'[p].flds[i] = Fixed(mem[p].flds[i])
  <2>1. CASE ~fwd[p].mark
    BY <1>5, <1>6, <1>8, <2>1
  <2>2. CASE fwd[p].mark
    <3> DEFINE f == [i \in 1..Len(mem[p].flds) |-> Fixed(mem[p].flds[i])]
    <3>1. mem'[p] = [mem[p] EXCEPT !.flds = f]
      BY <1>3, <1>5, <1>8, <2>2
    <3>2. \A i \in 1..Len(mem[p].flds) : Fixed(mem[p].flds[i]) \in Word
      BY <1>1, <1>6, <1>9, <2>2, FixedWord
    <3>3. f \in Seq(Word) /\ Len(f) = Len(mem[p].flds)
      BY <1>8, <3>2
    <3> HIDE DEF f
    <3>4. mem'[p] \in Object /\ mem'[p].flds = f
      BY <1>8, <3>1, <3>3 DEF Object
    <3>5. mem'[p].kind = mem[p].kind /\ mem'[p].len = mem[p].len /\ mem'[p].id = mem[p].id
      BY <1>8, <3>1 DEF Object
    <3> QED
      BY <3>3, <3>4, <3>5 DEF f
  <2> QED
    BY <2>1, <2>2
<1>12. \A h \in DOMAIN mem : size_at(h)' = size_at(h)
  BY <1>10, <1>11 DEF size_at
<1>13. CompactTypeOK'
  <2>1. \A h \in DOMAIN mem : ObjectOK(mem'[h])
    <3>1. ObjectOK(mem'[p])
      BY <1>2, <1>3, <1>11 DEF HeapTypeOK, ObjectOK
    <3> QED
      BY <1>2, <1>10, <3>1 DEF HeapTypeOK
  <2>2. HeapTypeOK'
    BY <1>1, <1>2, <1>10, <2>1 DEF HeapTypeOK, ObjectOK
  <2>3. scan' \in Nat
    BY <1>2, <1>4, CompactNumbers
  <2> QED
    BY <1>1, <1>2, <2>2, <2>3 DEF CompactTypeOK
<1>14. /\ Placed' = Marked /\ Placed = Marked /\ Marked' = Marked
       /\ KeptHeaders' = Marked
       /\ \A h \in Marked : FinalOf(h)' = FinalOf(h)
       /\ FinalHeaders' = FinalHeaders
       /\ ChunksApart' /\ PlacesInOrder' /\ FrontierBehindIterator' /\ TiledOnBothSides'
       /\ CompactedInOrder' /\ Enqueued' = {} /\ need' > 0
  BY <1>1, <1>10, <1>12, RewritingKeepsPlaces
<1>15. IteratorOnObject'
  BY <1>1, <1>4, <1>10 DEF IteratorOnObject
<1>16. /\ \A h : ~SlotFixed(h) /\ ~SlotFixed(h)'
       /\ RootSet' = RootSet
       /\ \A h \in Marked : FieldsFixed(h)' <=> FieldsFixed(h) \/ h = p
  <2>1. \A h \in Marked : h \in DOMAIN mem /\ h \in Nat
    BY <1>2, CompactNumbers
  <2>2. \A h \in Marked : FieldsFixed(h)' <=> FieldsFixed(h) \/ h = p
    BY <1>0, <1>1, <1>3, <1>4, <2>1 DEF FieldsFixed
  <2> QED
    BY <1>1, <2>2 DEF SlotFixed, RootSet, RootOrder
<1>17. /\ \A v : /\ OldWord(v)' <=> OldWord(v)
                 /\ NewWord(v)' <=> NewWord(v)
                 /\ Target(v)' = Target(v)
                 /\ FinalTarget(v, TRUE)' = FinalTarget(v, TRUE)
                 /\ FinalTarget(v, FALSE)' = FinalTarget(v, FALSE)
  <2>1. \A v : /\ InOldHeap(v)' <=> InOldHeap(v)
               /\ is_valid_heap_pointer(v)' <=> is_valid_heap_pointer(v)
               /\ OldWord(v)' <=> OldWord(v)
               /\ Target(v)' = Target(v)
               /\ FinalTarget(v, TRUE)' = FinalTarget(v, TRUE)
               /\ FinalTarget(v, FALSE)' = FinalTarget(v, FALSE)
    BY <1>1, WordsStay
  <2>2. \A v : NewWord(v)' <=> NewWord(v)
    BY <1>14, <2>1 DEF NewWord
  <2> QED
    BY <2>1, <2>2
<1>18. ASSUME NEW h \in Marked, NEW i \in 1..Len(mem[h].flds)
       PROVE  /\ Len(mem'[h].flds) = Len(mem[h].flds)
              /\ WordOK(mem[h].flds[i], FieldsFixed(h))'
              /\ FinalTarget(mem[h].flds[i], FieldsFixed(h))' = FinalTarget(mem[h].flds[i], FieldsFixed(h))
              /\ FinalTarget(mem[h].flds[i], FieldsFixed(h)) = {} => mem'[h].flds[i] = mem[h].flds[i]
  <2>1. WordOK(mem[h].flds[i], FieldsFixed(h)) /\ h \in DOMAIN mem
    BY <1>2, <1>7, <1>18, CompactNumbers DEF WordsReadable
  <2>2. CASE h # p
    <3>1. mem'[h] = mem[h] /\ (FieldsFixed(h)' <=> FieldsFixed(h))
      BY <1>10, <1>16, <2>1, <2>2
    <3> QED
      BY <1>17, <2>1, <3>1 DEF WordOK, FinalTarget
  <2>3. CASE h = p
    <3>1. FieldsFixed(h)' /\ ~FieldsFixed(h)
      BY <1>0, <1>1, <1>3, <1>16, <2>3 DEF FieldsFixed
    <3>2. mem'[h].flds[i] = Fixed(mem[h].flds[i]) /\ mem[h].flds[i] \in Word /\ OldWord(mem[h].flds[i])
      BY <1>9, <1>11, <1>18, <2>3
    <3>3. /\ NewWord(Fixed(mem[h].flds[i]))
          /\ Target(Fixed(mem[h].flds[i])) = FinalTarget(mem[h].flds[i], FALSE)
          /\ FinalTarget(mem[h].flds[i], FALSE) = {} => Fixed(mem[h].flds[i]) = mem[h].flds[i]
      BY <1>1, <3>2, FixedWord
    <3> QED
      BY <1>11, <1>17, <2>3, <3>1, <3>2, <3>3 DEF WordOK, FinalTarget
  <2> QED
    BY <2>2, <2>3
<1>19. \A h \in Marked : Len(mem'[h].flds) = Len(mem[h].flds)
  BY <1>2, <1>10, <1>11, CompactNumbers
<1>20. WordsReadable'
  <2>1. \A l \in RootSet \cup {StackBottom} : WordOK(slots[l], SlotFixed(l))'
    BY <1>1, <1>2, <1>7, <1>16, <1>17 DEF WordsReadable, WordOK
  <2> QED
    BY <1>14, <1>16, <1>18, <1>19, <2>1 DEF WordsReadable
<1>21. GraphKept
  <2>1. \A l \in RootSet :
          FinalTarget(slots[l], SlotFixed(l))' = FinalTarget(slots[l], SlotFixed(l))
    BY <1>1, <1>16, <1>17 DEF FinalTarget
  <2>2. \A h \in Marked :
          mem'[h].id = mem[h].id /\ mem'[h].kind = mem[h].kind /\ mem'[h].len = mem[h].len
    BY <1>2, <1>10, <1>11, CompactNumbers
  <2>3. \A h \in Marked : Counterpart(h, h)
    BY <1>14, <1>18, <1>19, <2>2 DEF Counterpart
  <2> QED
    BY <1>1, <1>2, <1>7, <1>14, <1>16, <2>1, <2>3 DEF GraphKept, Collecting
<1>22. OnlyLiveKept'
  BY <1>21, OnlyLiveKeptStays DEF CompactInvariant
<1>23. EdgesNeedNoFixing'
  BY <1>1, EdgesStayOutside DEF CompactInvariant
<1> QED
  BY <1>1, <1>13, <1>14, <1>15, <1>20, <1>21, <1>22, <1>23 DEF CompactInvariant, Marking, Collecting

\* Two sequences, one after the other.
LEMMA ConcatAt ==
  ASSUME NEW a \in Seq(Loc), NEW c \in Seq(Loc)
  PROVE  /\ a \o c \in Seq(Loc) /\ Len(a \o c) = Len(a) + Len(c)
         /\ \A i \in 1..Len(a) : (a \o c)[i] = a[i]
         /\ \A i \in 1..Len(c), k \in Nat : k = Len(a) + i => (a \o c)[k] = c[i]
OBVIOUS

\* The words in the order in which they are marked, and in which they are fixed.
LEMMA RootAt ==
  ASSUME HeapTypeOK
  PROVE  /\ Len(RootOrder) = Len(StackArea) + Len(extra) + Len(GlobalArea)
         /\ \A i \in 1..Len(StackArea) : RootOrder[i] = StackArea[i]
         /\ \A i \in 1..Len(extra) : RootOrder[Len(StackArea) + i] = extra[i]
         /\ \A i \in 1..Len(GlobalArea) :
              RootOrder[Len(StackArea) + Len(extra) + i] = GlobalArea[i]
<1>1. StackArea \in Seq(Loc) /\ extra \in Seq(Loc) /\ GlobalArea \in Seq(Loc)
  BY HeapAssumption DEF HeapTypeOK
<1> DEFINE r == extra \o GlobalArea
<1>2. /\ r \in Seq(Loc) /\ Len(r) = Len(extra) + Len(GlobalArea)
      /\ \A i \in 1..Len(extra) : r[i] = extra[i]
      /\ \A i \in 1..Len(GlobalArea), k \in Nat : k = Len(extra) + i => r[k] = GlobalArea[i]
  BY <1>1, ConcatAt
<1> HIDE DEF r
<1>3. /\ Len(StackArea \o r) = Len(StackArea) + Len(r)
      /\ \A i \in 1..Len(StackArea) : (StackArea \o r)[i] = StackArea[i]
      /\ \A i \in 1..Len(r), k \in Nat : k = Len(StackArea) + i => (StackArea \o r)[k] = r[i]
  BY <1>1, <1>2, ConcatAt
<1>4. RootOrder = StackArea \o r
  BY <1>1 DEF RootOrder, r
<1>5. Len(StackArea) \in Nat /\ Len(extra) \in Nat /\ Len(GlobalArea) \in Nat
  BY <1>1
<1>6. \A i \in 1..Len(extra) : RootOrder[Len(StackArea) + i] = extra[i]
  BY <1>2, <1>3, <1>4, <1>5
<1>7. ASSUME NEW i \in 1..Len(GlobalArea)
      PROVE  RootOrder[Len(StackArea) + Len(extra) + i] = GlobalArea[i]
  <2>1. r[Len(extra) + i] = GlobalArea[i]
    BY <1>2, <1>5
  <2> QED
    BY <1>2, <1>3, <1>4, <1>5, <2>1
<1>8. Len(RootOrder) = Len(StackArea) + Len(extra) + Len(GlobalArea)
  BY <1>2, <1>3, <1>4, <1>5
<1>9. \A i \in 1..Len(StackArea) : RootOrder[i] = StackArea[i]
  BY <1>3, <1>4
<1> QED
  BY <1>6, <1>7, <1>8, <1>9

\* scan_and_fix_region, scan_and_fix_region_roots, and the global area.
LEMMA FixedAt ==
  ASSUME HeapTypeOK
  PROVE  /\ FixOrder \in Seq(Loc)
         /\ Len(FixOrder) = Len(StackArea) + 1 + Len(extra) + Len(GlobalArea)
         /\ \A i \in 1..Len(StackArea) : FixOrder[i] = StackArea[i]
         /\ FixOrder[Len(StackArea) + 1] = StackBottom
         /\ \A i \in 1..Len(extra) : FixOrder[Len(StackArea) + 1 + i] = extra[i]
         /\ \A i \in 1..Len(GlobalArea) :
              FixOrder[Len(StackArea) + 1 + Len(extra) + i] = GlobalArea[i]
<1>1. /\ StackArea \in Seq(Loc) /\ extra \in Seq(Loc) /\ GlobalArea \in Seq(Loc)
      /\ <<StackBottom>> \in Seq(Loc) /\ Len(<<StackBottom>>) = 1
      /\ <<StackBottom>>[1] = StackBottom
  BY HeapAssumption DEF HeapTypeOK
<1> DEFINE q == StackArea \o <<StackBottom>>
           r == extra \o GlobalArea
<1>2. /\ q \in Seq(Loc) /\ Len(q) = Len(StackArea) + 1
      /\ \A i \in 1..Len(StackArea) : q[i] = StackArea[i]
      /\ q[Len(StackArea) + 1] = StackBottom
  BY <1>1, ConcatAt
<1>3. /\ r \in Seq(Loc) /\ Len(r) = Len(extra) + Len(GlobalArea)
      /\ \A i \in 1..Len(extra) : r[i] = extra[i]
      /\ \A i \in 1..Len(GlobalArea), k \in Nat : k = Len(extra) + i => r[k] = GlobalArea[i]
  BY <1>1, ConcatAt
<1> HIDE DEF q
<1>4. FixOrder = q \o r
  BY <1>1, <1>2 DEF FixOrder, q
<1> HIDE DEF r
<1>5. /\ FixOrder \in Seq(Loc) /\ Len(FixOrder) = Len(q) + Len(r)
      /\ \A i \in 1..Len(q) : FixOrder[i] = q[i]
      /\ \A i \in 1..Len(r), k \in Nat : k = Len(q) + i => FixOrder[k] = r[i]
  BY <1>2, <1>3, <1>4, ConcatAt, ZenonT(30)
<1>6. Len(StackArea) \in Nat /\ Len(extra) \in Nat /\ Len(GlobalArea) \in Nat
  BY <1>1
<1>7. \A i \in 1..Len(StackArea) : FixOrder[i] = StackArea[i]
  BY <1>2, <1>5, <1>6
<1>8. \A i \in 1..Len(extra) : FixOrder[Len(StackArea) + 1 + i] = extra[i]
  BY <1>2, <1>3, <1>5, <1>6
<1>9. ASSUME NEW i \in 1..Len(GlobalArea)
      PROVE  FixOrder[Len(StackArea) + 1 + Len(extra) + i] = GlobalArea[i]
  <2>1. r[Len(extra) + i] = GlobalArea[i]
    BY <1>3, <1>6
  <2> QED
    BY <1>2, <1>3, <1>5, <1>6, <2>1
<1> QED
  BY <1>2, <1>3, <1>5, <1>6, <1>7, <1>8, <1>9

\* Every root is fixed but for the extra roots at the edges, also an extra root
\* that is skipped because it lies in a region, and nothing else is but the word at
\* the bottom of the stack.
LEMMA FixOrderCovers ==
  ASSUME HeapTypeOK
  PROVE  /\ \A i \in 1..Len(FixOrder) : FixOrder[i] \in RootSet \cup {StackBottom}
         /\ \A l \in RootSet \cup {StackBottom} :
              \/ l \in EdgeRoots
              \/ \E i \in 1..Len(FixOrder) : FixOrder[i] = l /\ ~Skipped(i)
<1> DEFINE s == Len(StackArea)
           x == Len(extra)
           g == Len(GlobalArea)
<1>1. s \in Nat /\ x \in Nat /\ g \in Nat
  BY HeapAssumption DEF HeapTypeOK
<1>2. /\ Len(RootOrder) = s + x + g
      /\ \A i \in 1..s : RootOrder[i] = StackArea[i]
      /\ \A i \in 1..x : RootOrder[s + i] = extra[i]
      /\ \A i \in 1..g : RootOrder[s + x + i] = GlobalArea[i]
  BY RootAt
<1>3. /\ Len(FixOrder) = s + 1 + x + g
      /\ \A i \in 1..s : FixOrder[i] = StackArea[i]
      /\ FixOrder[s + 1] = StackBottom
      /\ \A i \in 1..x : FixOrder[s + 1 + i] = extra[i]
      /\ \A i \in 1..g : FixOrder[s + 1 + x + i] = GlobalArea[i]
  BY FixedAt
<1>4. \A i : IsExtraRoot(i) <=> i \in s + 2 .. s + 1 + x
  BY DEF IsExtraRoot
<1> HIDE DEF s, x, g
<1>5. \A i \in 1..s + x + g : RootOrder[i] \in RootSet
  BY <1>2 DEF RootSet
<1>6. ASSUME NEW i \in 1..Len(FixOrder)
      PROVE  FixOrder[i] \in RootSet \cup {StackBottom}
  <2>1. CASE i <= s
    BY <1>1, <1>2, <1>3, <1>5, <1>6, <2>1
  <2>2. CASE i = s + 1
    BY <1>3, <2>2
  <2>3. CASE s + 1 < i /\ i <= s + 1 + x
    <3>1. PICK j \in 1..x : i = s + 1 + j
      <4>1. i - (s + 1) \in 1..x /\ i = s + 1 + (i - (s + 1))
        BY <1>1, <1>6, <2>3
      <4> QED
        BY <4>1
    <3>2. s + j \in 1..s + x + g
      BY <1>1, <3>1
    <3>3. FixOrder[i] = RootOrder[s + j]
      BY <1>2, <1>3, <3>1
    <3> QED
      BY <1>5, <3>2, <3>3
  <2>4. CASE s + 1 + x < i
    <3>1. PICK j \in 1..g : i = s + 1 + x + j
      <4>1. i - (s + 1 + x) \in 1..g /\ i = s + 1 + x + (i - (s + 1 + x))
        BY <1>1, <1>3, <1>6, <2>4
      <4> QED
        BY <4>1
    <3>2. s + x + j \in 1..s + x + g
      BY <1>1, <3>1
    <3>3. FixOrder[i] = RootOrder[s + x + j]
      BY <1>2, <1>3, <3>1
    <3> QED
      BY <1>5, <3>2, <3>3
  <2> QED
    BY <1>1, <1>3, <1>6, <2>1, <2>2, <2>3, <2>4
<1>7. ASSUME NEW j \in 1..s
      PROVE  \E i \in 1..Len(FixOrder) : FixOrder[i] = StackArea[j] /\ ~Skipped(i)
  <2>1. j \in 1..Len(FixOrder) /\ ~IsExtraRoot(j)
    BY <1>1, <1>3, <1>4, <1>7
  <2> QED
    BY <1>3, <1>7, <2>1 DEF Skipped
<1>8. ASSUME NEW j \in 1..g
      PROVE  \E i \in 1..Len(FixOrder) : FixOrder[i] = GlobalArea[j] /\ ~Skipped(i)
  <2>1. s + 1 + x + j \in 1..Len(FixOrder) /\ ~IsExtraRoot(s + 1 + x + j)
    BY <1>1, <1>3, <1>4, <1>8
  <2> QED
    BY <1>3, <1>8, <2>1 DEF Skipped
<1>9. ASSUME NEW j \in 1..x
      PROVE  \/ extra[j] \in EdgeRoots
             \/ \E i \in 1..Len(FixOrder) : FixOrder[i] = extra[j] /\ ~Skipped(i)
  <2>1. s + 1 + j \in 1..Len(FixOrder) /\ FixOrder[s + 1 + j] = extra[j]
    BY <1>1, <1>3, <1>9
  <2>2. CASE extra[j] \in {StackTop, GlobalStop}
    BY <1>9, <2>2 DEF EdgeRoots, x
  <2>3. CASE FixedAsRegion(extra[j]) /\ extra[j] \notin {StackTop, GlobalStop}
    BY <1>7, <1>8, <2>3 DEF FixedAsRegion, s, g
  <2>4. CASE ~FixedAsRegion(extra[j])
    BY <2>1, <2>4 DEF Skipped
  <2> QED
    BY <2>2, <2>3, <2>4
<1>10. \E i \in 1..Len(FixOrder) : FixOrder[i] = StackBottom /\ ~Skipped(i)
  <2>1. s + 1 \in 1..Len(FixOrder) /\ ~IsExtraRoot(s + 1)
    BY <1>1, <1>3, <1>4
  <2> QED
    BY <1>3, <2>1 DEF Skipped
<1>11. ASSUME NEW k \in 1..s + x + g
       PROVE  \/ RootOrder[k] \in EdgeRoots
              \/ \E i \in 1..Len(FixOrder) : FixOrder[i] = RootOrder[k] /\ ~Skipped(i)
  <2>1. CASE k <= s
    BY <1>1, <1>2, <1>7, <1>11, <2>1
  <2>2. CASE s < k /\ k <= s + x
    <3>1. PICK j \in 1..x : k = s + j
      <4>1. k - s \in 1..x /\ k = s + (k - s)
        BY <1>1, <1>11, <2>2
      <4> QED
        BY <4>1
    <3> QED
      BY <1>2, <1>9, <3>1
  <2>3. CASE s + x < k
    <3>1. PICK j \in 1..g : k = s + x + j
      <4>1. k - (s + x) \in 1..g /\ k = s + x + (k - (s + x))
        BY <1>1, <1>11, <2>3
      <4> QED
        BY <4>1
    <3> QED
      BY <1>2, <1>8, <3>1
  <2> QED
    BY <1>1, <1>11, <2>1, <2>2, <2>3
<1> QED
  BY <1>2, <1>6, <1>10, <1>11, SMTT(20) DEF RootSet

\* The last object has been updated: all fields are fixed and no root is.
LEMMA UpdateObjectsDoneStep ==
  ASSUME CompactInvariant, UpdateObjectsDone
  PROVE  CompactInvariant' /\ GraphKept
<1>1. /\ phase = "update" /\ phase' = "fixroots" /\ root' = 1
      /\ UNCHANGED <<heap, mem, fwd, slots, extra, need, old, scan, freePtr>>
      /\ scan >= heap.current
  BY DEF UpdateObjectsDone, heap_is_done_iterator, heapVars, compactVars
<1>2. CompactTypeOK /\ HeapTypeOK /\ Tiled /\ Collecting /\ Collecting'
  BY <1>1 DEF CompactInvariant, CompactTypeOK, TiledOnBothSides, Collecting
<1>3. CompactTypeOK'
  BY <1>1, <1>2 DEF CompactTypeOK, HeapTypeOK
<1>4. \A h \in DOMAIN mem : size_at(h)' = size_at(h)
  BY <1>1 DEF size_at
<1>5. /\ Marked' = Marked /\ KeptHeaders' = Marked /\ KeptHeaders = Marked
      /\ \A h \in Marked : FinalOf(h)' = FinalOf(h)
      /\ FinalHeaders' = FinalHeaders
      /\ ChunksApart' /\ PlacesInOrder' /\ FrontierBehindIterator' /\ TiledOnBothSides'
      /\ CompactedInOrder' /\ Enqueued' = {} /\ need' > 0
  BY <1>1, <1>4, RewritingKeepsPlaces
<1>6. \A h \in Marked : h < scan
  <2>1. \A h \in DOMAIN mem : h < heap.current
    BY <1>2, NextCell
  <2> QED
    BY <1>1, <1>2, <2>1, CompactNumbers
<1>7. /\ \A l : ~SlotFixed(l) /\ ~SlotFixed(l)'
      /\ \A h \in Marked : FieldsFixed(h) /\ FieldsFixed(h)'
      /\ RootSet' = RootSet
  BY <1>1, <1>6 DEF SlotFixed, FieldsFixed, RootSet, RootOrder
<1>8. \A v : /\ OldWord(v)' <=> OldWord(v)
             /\ NewWord(v)' <=> NewWord(v)
             /\ FinalTarget(v, TRUE)' = FinalTarget(v, TRUE)
             /\ FinalTarget(v, FALSE)' = FinalTarget(v, FALSE)
  <2>1. \A v : /\ InOldHeap(v)' <=> InOldHeap(v)
               /\ is_valid_heap_pointer(v)' <=> is_valid_heap_pointer(v)
               /\ OldWord(v)' <=> OldWord(v)
               /\ FinalTarget(v, TRUE)' = FinalTarget(v, TRUE)
               /\ FinalTarget(v, FALSE)' = FinalTarget(v, FALSE)
    BY <1>1, WordsStay
  <2> QED
    BY <1>5, <2>1 DEF NewWord
<1>9. WordsReadable'
  <2>1. WordsReadable
    BY DEF CompactInvariant
  <2> QED
    BY <1>1, <1>2, <1>5, <1>7, <1>8, <2>1 DEF WordsReadable, WordOK
<1>10. GraphKept
  <2>1. \A l \in RootSet :
          FinalTarget(slots[l], SlotFixed(l))' = FinalTarget(slots[l], SlotFixed(l))
    BY <1>1, <1>7, <1>8 DEF FinalTarget
  <2>2. \A h \in Marked : Counterpart(h, h)
    BY <1>1, <1>5, <1>7, <1>8 DEF Counterpart, FinalTarget
  <2> QED
    BY <1>1, <1>2, <1>5, <1>7, <2>1, <2>2 DEF GraphKept
<1>11. OnlyLiveKept'
  BY <1>10, OnlyLiveKeptStays DEF CompactInvariant
<1>12. EdgesNeedNoFixing'
  BY <1>1, EdgesStayOutside DEF CompactInvariant
<1> QED
  BY <1>1, <1>3, <1>5, <1>9, <1>10, <1>11, <1>12 DEF CompactInvariant, Marking, Collecting, IteratorOnObject

\* One word outside the heap, which may have been fixed before: a location that is
\* an extra root twice, or whose fixing found an unboxed value.
LEMMA FixRootStep ==
  ASSUME CompactInvariant, FixRoot
  PROVE  CompactInvariant' /\ GraphKept
<1>0. PICK r, l : r = root /\ l = FixOrder[root]
  OBVIOUS
<1>1. /\ phase = "fixroots" /\ phase' = "fixroots" /\ r <= Len(FixOrder)
      /\ root' = r + 1
      /\ UNCHANGED <<heap, mem, fwd, extra, need, old, scan, freePtr>>
      /\ slots' = IF Skipped(r) THEN slots ELSE [slots EXCEPT ![l] = Fixed(slots[l])]
  BY <1>0 DEF FixRoot, compactVars
<1>2. /\ CompactTypeOK /\ HeapTypeOK /\ Collecting /\ Collecting' /\ WordsReadable
      /\ r \in Nat /\ r >= 1
  BY <1>0, <1>1 DEF CompactInvariant, CompactTypeOK, Collecting
<1>3. /\ r \in 1..Len(FixOrder) /\ FixOrder \in Seq(Loc)
      /\ l \in RootSet \cup {StackBottom} /\ l \in Loc /\ l = FixOrder[r]
  <2>1. FixOrder \in Seq(Loc)
    BY <1>2, FixedAt
  <2>2. r \in 1..Len(FixOrder)
    BY <1>1, <1>2, <2>1
  <2> QED
    BY <1>0, <1>2, <2>1, <2>2, FixOrderCovers
<1>4. /\ slots \in [Loc -> Word] /\ slots[l] \in Word
      /\ WordOK(slots[l], SlotFixed(l))
  BY <1>2, <1>3 DEF HeapTypeOK, WordsReadable
<1>5. /\ Fixed(slots[l]) \in Word /\ NewWord(Fixed(slots[l]))
      /\ Target(Fixed(slots[l])) = FinalTarget(slots[l], SlotFixed(l))
      /\ FinalTarget(slots[l], SlotFixed(l)) = {} => Fixed(slots[l]) = slots[l]
  <2>1. CASE SlotFixed(l)
    <3>1. NewWord(slots[l]) /\ Fixed(slots[l]) = slots[l]
      BY <1>1, <1>4, <2>1, FixedWord DEF WordOK
    <3> QED
      BY <1>4, <2>1, <3>1 DEF FinalTarget
  <2>2. CASE ~SlotFixed(l)
    <3>1. OldWord(slots[l]) /\ FinalTarget(slots[l], SlotFixed(l)) = FinalTarget(slots[l], FALSE)
      BY <1>4, <2>2 DEF WordOK, FinalTarget
    <3> QED
      BY <1>1, <1>4, <3>1, FixedWord
  <2> QED
    BY <2>1, <2>2
<1>6. \A h \in DOMAIN mem : size_at(h)' = size_at(h)
  BY <1>1 DEF size_at
<1>7. /\ Marked' = Marked /\ KeptHeaders' = Marked /\ KeptHeaders = Marked
      /\ \A h \in Marked : FinalOf(h)' = FinalOf(h)
      /\ FinalHeaders' = FinalHeaders
      /\ ChunksApart' /\ PlacesInOrder' /\ FrontierBehindIterator' /\ TiledOnBothSides'
      /\ CompactedInOrder' /\ Enqueued' = {} /\ need' > 0
  BY <1>1, <1>6, RewritingKeepsPlaces
<1>8. CompactTypeOK'
  <2>1. slots' \in [Loc -> Word]
    BY <1>1, <1>3, <1>4, <1>5
  <2>2. HeapTypeOK'
    BY <1>1, <1>2, <2>1 DEF HeapTypeOK
  <2> QED
    BY <1>1, <1>2, <2>2 DEF CompactTypeOK
<1>9. /\ FixOrder' = FixOrder /\ RootSet' = RootSet
      /\ \A i : Skipped(i)' <=> Skipped(i)
  BY <1>1 DEF FixOrder, RootSet, RootOrder, Skipped, IsExtraRoot, FixedAsRegion
<1>10. \A k : SlotFixed(k)' <=> SlotFixed(k) \/ (k = l /\ ~Skipped(r))
  <2>1. \A i \in 1..Len(FixOrder) : i < root' <=> i < r \/ i = r
    BY <1>1, <1>2
  <2> QED
    BY <1>0, <1>1, <1>3, <1>9, <2>1 DEF SlotFixed
<1>11. \A h : FieldsFixed(h) /\ FieldsFixed(h)'
  BY <1>1 DEF FieldsFixed
<1>12. \A v : /\ OldWord(v)' <=> OldWord(v)
              /\ NewWord(v)' <=> NewWord(v)
              /\ FinalTarget(v, TRUE)' = FinalTarget(v, TRUE)
              /\ FinalTarget(v, FALSE)' = FinalTarget(v, FALSE)
  <2>1. \A v : /\ InOldHeap(v)' <=> InOldHeap(v)
               /\ is_valid_heap_pointer(v)' <=> is_valid_heap_pointer(v)
               /\ OldWord(v)' <=> OldWord(v)
               /\ FinalTarget(v, TRUE)' = FinalTarget(v, TRUE)
               /\ FinalTarget(v, FALSE)' = FinalTarget(v, FALSE)
    BY <1>1, WordsStay
  <2> QED
    BY <1>7, <2>1 DEF NewWord
<1>13. ASSUME NEW k \in RootSet \cup {StackBottom}
       PROVE  /\ WordOK(slots[k], SlotFixed(k))'
              /\ FinalTarget(slots[k], SlotFixed(k))' = FinalTarget(slots[k], SlotFixed(k))
              /\ FinalTarget(slots[k], SlotFixed(k)) = {} => slots'[k] = slots[k]
  <2>1. WordOK(slots[k], SlotFixed(k))
    BY <1>2, <1>13 DEF WordsReadable
  <2>2. CASE Skipped(r) \/ k # l
    <3>1. slots'[k] = slots[k] /\ (SlotFixed(k)' <=> SlotFixed(k))
      BY <1>1, <1>4, <1>10, <2>2
    <3> QED
      BY <1>12, <2>1, <3>1 DEF WordOK, FinalTarget
  <2>3. CASE ~Skipped(r) /\ k = l
    <3>1. slots'[k] = Fixed(slots[l]) /\ SlotFixed(k)'
      BY <1>1, <1>3, <1>4, <1>10, <2>3
    <3>2. FinalTarget(Fixed(slots[l]), TRUE) = FinalTarget(slots[l], SlotFixed(l))
      BY <1>5 DEF FinalTarget
    <3> QED
      BY <1>5, <1>12, <2>3, <3>1, <3>2 DEF WordOK, FinalTarget
  <2> QED
    BY <2>2, <2>3
<1>14. WordsReadable'
  BY <1>1, <1>2, <1>7, <1>9, <1>11, <1>12, <1>13 DEF WordsReadable, WordOK
<1>15. GraphKept
  <2>1. \A h \in Marked : Counterpart(h, h)
    BY <1>1, <1>7, <1>11, <1>12 DEF Counterpart, FinalTarget
  <2> QED
    BY <1>2, <1>7, <1>9, <1>13, <2>1 DEF GraphKept
<1>16. OnlyLiveKept'
  BY <1>15, OnlyLiveKeptStays DEF CompactInvariant
<1>17. EdgesNeedNoFixing'
  <2>1. \A k \in EdgeRoots : k \in Loc /\ ~InOldHeap(slots[k])
    BY <1>1, <1>2 DEF CompactInvariant, EdgesNeedNoFixing, EdgeRoots, HeapTypeOK
  <2>2. \A k \in EdgeRoots : slots'[k] = slots[k]
    BY <1>1, <1>4, <2>1 DEF Fixed
  <2> QED
    BY <1>1, <2>1, <2>2 DEF EdgesNeedNoFixing, Marking, EdgeRoots, InOldHeap
<1> QED
  BY <1>1, <1>7, <1>8, <1>14, <1>15, <1>16, <1>17 DEF CompactInvariant, Marking, Collecting, IteratorOnObject

\* Frontier is the one address that IsFrontier describes.
LEMMA FrontierIsUnique ==
  CompactTypeOK /\ phase = "relocate" /\ PlacesInOrder
    => \A a : IsFrontier(a) => Frontier = a
<1> SUFFICES ASSUME CompactTypeOK, phase = "relocate", PlacesInOrder, NEW a, IsFrontier(a)
             PROVE  Frontier = a
  OBVIOUS
<1>1. Placed = Unmoved /\ Unmoved \subseteq DOMAIN mem
  BY CompactNumbers DEF Placed, Unmoved
<1>2. \A h \in Unmoved :
        Destination(h) \in Int /\ Destination(h) < live_end /\ live_end \in Int
  BY <1>1, CompactNumbers DEF PlacesInOrder, Compacting, Collecting
<1> DEFINE C == {Destination(h) : h \in Unmoved} \cup {live_end}
           Least(x) == \A h \in Unmoved : x <= Destination(h)
<1>3. a \in C /\ Least(a)
  BY <1>1 DEF IsFrontier
<1>4. Frontier = CHOOSE x \in C : Least(x)
  BY DEF Frontier, live_end
<1>5. Frontier \in C /\ Least(Frontier)
  BY <1>3, <1>4
<1> QED
  BY <1>2, <1>3, <1>5

\* The same in the state that a step leads to.
LEMMA FrontierAfterStep ==
  (CompactTypeOK /\ phase = "relocate" /\ PlacesInOrder
    => \A a : IsFrontier(a) => Frontier = a)'
BY FrontierIsUnique, PTL

\* The last root has been fixed: all words are fixed and no object has moved.
LEMMA FixRootsDoneStep ==
  ASSUME CompactInvariant, FixRootsDone
  PROVE  CompactInvariant' /\ GraphKept
<1>0. PICK b : b = heap.begin
  OBVIOUS
<1>1. /\ phase = "fixroots" /\ phase' = "relocate" /\ root > Len(FixOrder)
      /\ UNCHANGED <<heap, mem, fwd, slots, extra, root, need, old, freePtr>>
      /\ scan' = b
  BY <1>0 DEF FixRootsDone, heapVars
<1>2. /\ CompactTypeOK /\ HeapTypeOK /\ Tiled
      /\ Collecting /\ Compacting /\ Collecting' /\ Compacting'
      /\ WordsReadable /\ ChunksApart /\ PlacesInOrder /\ IsFrontier(heap.begin)
  BY <1>1 DEF CompactInvariant, CompactTypeOK, TiledOnBothSides, Collecting, Compacting,
              FrontierBehindIterator
<1>3. CompactTypeOK'
  BY <1>0, <1>1, <1>2, CompactNumbers DEF CompactTypeOK, HeapTypeOK
<1>4. Marked' = Marked /\ \A h : Destination(h)' = Destination(h)
  BY <1>1, WordsStay
<1>5. /\ \A h : size_at(h)' = size_at(h) /\ heap_next_obj_iterator(h)' = heap_next_obj_iterator(h)
      /\ live_end' = live_end /\ heap_end' = heap_end
  BY <1>1 DEF size_at, heap_next_obj_iterator, live_end, live_size, heap_end
<1>6. \A h \in DOMAIN mem : h \in Nat /\ b <= h
  BY <1>0, <1>2, CompactNumbers DEF Tiled
<1>7. Placed' = Marked /\ Placed = Marked /\ Unmoved' = Marked
  BY <1>1, <1>2, <1>4, <1>6, CompactNumbers DEF Placed, Unmoved
<1>8. ChunksApart'
  BY <1>1, <1>2, <1>5 DEF ChunksApart
<1>9. PlacesInOrder'
  BY <1>1, <1>2, <1>4, <1>5, <1>7, CompactNumbers DEF PlacesInOrder
<1>10. IsFrontier(b)'
  BY <1>0, <1>2, <1>4, <1>5, <1>7 DEF IsFrontier
<1>11. Frontier' = b
  BY <1>1, <1>3, <1>9, <1>10, FrontierAfterStep
<1>12. FrontierBehindIterator'
  BY <1>0, <1>1, <1>2, <1>10, <1>11, CompactNumbers DEF FrontierBehindIterator
<1>13. Arrived' = {} /\ KeptHeaders' = Marked /\ KeptHeaders = Marked
  BY <1>0, <1>1, <1>2, <1>6, <1>7, <1>11, CompactNumbers, SMTT(20) DEF Arrived, KeptHeaders
<1>14. /\ \A h \in Marked : FinalOf(h)' = FinalOf(h)
       /\ FinalHeaders' = FinalHeaders
  BY <1>4, <1>7, <1>13 DEF FinalOf, FinalHeaders
<1>15. TiledOnBothSides'
  <2>1. \A h \in DOMAIN mem :
          /\ heap_next_obj_iterator(h) <= heap.current
          /\ heap_next_obj_iterator(h) \in {g \in DOMAIN mem : g >= b} \cup {heap.current}
    BY <1>2, <1>6, NextCell DEF Tiled
  <2>2. \A g, h \in DOMAIN mem : g < h => heap_next_obj_iterator(g) <= h
    BY <1>2 DEF Tiled
  <2> QED
    BY <1>0, <1>1, <1>5, <1>11, <1>13, <2>1, <2>2 DEF TiledOnBothSides
<1>16. /\ \A l \in RootSet \cup {StackBottom} : SlotFixed(l) \/ l \in EdgeRoots
       /\ \A l : SlotFixed(l)'
       /\ \A h : FieldsFixed(h) /\ FieldsFixed(h)'
       /\ RootSet' = RootSet
  <2>1. \A i \in 1..Len(FixOrder) : i < root
    BY <1>1, <1>2, FixedAt DEF CompactTypeOK
  <2>2. \A l \in RootSet \cup {StackBottom} : SlotFixed(l) \/ l \in EdgeRoots
    BY <1>1, <1>2, <2>1, FixOrderCovers DEF SlotFixed
  <2> QED
    BY <1>1, <2>2 DEF SlotFixed, FieldsFixed, RootSet, RootOrder
<1>17. \A v : /\ NewWord(v)' <=> NewWord(v)
              /\ FinalTarget(v, TRUE)' = FinalTarget(v, TRUE)
  <2>1. \A v : /\ InOldHeap(v)' <=> InOldHeap(v)
               /\ is_valid_heap_pointer(v)' <=> is_valid_heap_pointer(v)
               /\ FinalTarget(v, TRUE)' = FinalTarget(v, TRUE)
    BY <1>1, WordsStay
  <2> QED
    BY <1>14, <2>1 DEF NewWord
<1>18. ASSUME NEW l \in RootSet \cup {StackBottom}
       PROVE  /\ NewWord(slots[l])
              /\ FinalTarget(slots[l], SlotFixed(l)) = FinalTarget(slots[l], TRUE)
  <2>1. WordOK(slots[l], SlotFixed(l))
    BY <1>2, <1>18 DEF WordsReadable
  <2>2. CASE SlotFixed(l)
    BY <2>1, <2>2 DEF WordOK, FinalTarget
  <2>3. CASE ~SlotFixed(l)
    <3>1. ~InOldHeap(slots[l])
      BY <1>1, <1>16, <1>18, <2>3 DEF CompactInvariant, EdgesNeedNoFixing
    <3>2. ~is_valid_heap_pointer(slots[l])
      BY <2>1, <2>3, <3>1 DEF WordOK, OldWord
    <3> QED
      BY <2>3, <3>1, <3>2 DEF NewWord, FinalTarget, Target
  <2> QED
    BY <2>2, <2>3
<1>19. WordsReadable'
  BY <1>1, <1>2, <1>13, <1>16, <1>17, <1>18 DEF WordsReadable, WordOK
<1>20. GraphKept
  <2>1. \A l \in RootSet :
          FinalTarget(slots[l], SlotFixed(l))' = FinalTarget(slots[l], SlotFixed(l))
    BY <1>1, <1>16, <1>17, <1>18 DEF FinalTarget
  <2>2. \A h \in Marked : Counterpart(h, h)
    BY <1>1, <1>14, <1>16, <1>17 DEF Counterpart, FinalTarget
  <2> QED
    BY <1>1, <1>2, <1>13, <1>14, <1>16, <2>1, <2>2 DEF GraphKept
<1>21. OnlyLiveKept'
  BY <1>20, OnlyLiveKeptStays DEF CompactInvariant
<1>22. IteratorOnObject'
  BY <1>0, <1>1, <1>2 DEF IteratorOnObject, Tiled
<1>23. Enqueued' = {} /\ need' > 0
  BY <1>1, <1>2 DEF CompactInvariant, Enqueued
<1> QED
  BY <1>1, <1>3, <1>8, <1>9, <1>12, <1>15, <1>19, <1>20, <1>21, <1>22, <1>23
     DEF CompactInvariant, Marking, Collecting, EdgesNeedNoFixing, CompactedInOrder

\* The object that moves next moves to Frontier.
LEMMA NextGoesToFrontier ==
  ASSUME CompactInvariant, phase = "relocate", scan \in Marked
  PROVE  /\ scan \in Placed
         /\ Destination(scan) = Frontier
         /\ Frontier + size_at(scan) <= live_end
         /\ \A h \in Placed : h # scan => scan < h /\ Frontier + size_at(scan) <= Destination(h)
         /\ \/ Frontier + size_at(scan) = live_end
            \/ \E g \in Placed : g # scan /\ Destination(g) = Frontier + size_at(scan)
<1>1. CompactTypeOK /\ PlacesInOrder /\ IsFrontier(Frontier) /\ Compacting
  BY DEF CompactInvariant, FrontierBehindIterator, Compacting, Collecting
<1>2. scan \in Placed /\ \A h \in Placed : h \in DOMAIN mem /\ h >= scan /\ h \in Nat
  BY <1>1, CompactNumbers DEF Placed
<1>3. \A h \in Placed : h # scan => scan < h
  BY <1>1, <1>2, CompactNumbers
<1> DEFINE d == Destination(scan)
           n == size_at(scan)
<1>4. d \in Int /\ n \in Nat /\ n >= 2 /\ live_end \in Int /\ \A h \in Placed : Destination(h) \in Int
  BY <1>1, <1>2, CompactNumbers
<1>5. /\ d + n <= live_end
      /\ \A h \in Placed : h # scan => d + n <= Destination(h)
      /\ d + n = live_end \/ \E g \in Placed : Destination(g) = d + n
  BY <1>1, <1>2, <1>3 DEF PlacesInOrder
<1>6. /\ Frontier = live_end \/ \E h \in Placed : Destination(h) = Frontier
      /\ Frontier <= d
  BY <1>1, <1>2 DEF IsFrontier
<1>7. Frontier = d
  BY <1>4, <1>5, <1>6
<1> QED
  BY <1>2, <1>3, <1>4, <1>5, <1>7

\* memmove: what it writes, and what it leaves alone.
LEMMA MoveEffect ==
  ASSUME CompactInvariant, RelocateObject, NEW p, p = scan, NEW t, t = Frontier, p \in Marked
  PROVE  /\ t \in Nat /\ t <= p /\ heap.begin <= t /\ Destination(p) = t
         /\ DOMAIN fwd' = DOMAIN mem' /\ DOMAIN mem' \subseteq Nat
         /\ t \in DOMAIN mem' /\ mem'[t] = mem[p]
         /\ ~fwd'[t].mark /\ (fwd'[t].enq <=> fwd[p].enq)
         /\ \A h \in Arrived : h \in DOMAIN mem' /\ h < t
         /\ \A h \in DOMAIN mem : h > p => h \in DOMAIN mem'
         /\ \A h \in DOMAIN mem' : h # t =>
              /\ h \in DOMAIN mem /\ mem'[h] = mem[h] /\ fwd'[h] = fwd[h]
              /\ h < t + size_at(p) => h \in Arrived
         /\ CompactTypeOK'
<1> DEFINE n == size_at(p)
<1>1. /\ phase = "relocate" /\ phase' = "relocate"
      /\ UNCHANGED <<heap, slots, extra, root, need, old, freePtr>>
      /\ scan' = heap_next_obj_iterator(p)
  BY DEF RelocateObject, next_scan, markVars
<1>2. CompactTypeOK /\ HeapTypeOK /\ TiledOnBothSides /\ Compacting /\ PlacesInOrder
  BY <1>1 DEF CompactInvariant, CompactTypeOK, Compacting, Collecting
<1>3. p \in DOMAIN mem /\ p \in Nat /\ n \in Nat /\ n >= 2 /\ fwd[p].mark
  BY <1>2, CompactNumbers DEF Marked
<1>4. Destination(p) = t /\ t <= p /\ heap.begin <= t /\ t \in Nat
  <2>1. Destination(p) = t /\ p \in Placed
    BY <1>1, NextGoesToFrontier
  <2>2. t <= p /\ heap.begin <= t
    BY <1>2, <2>1 DEF PlacesInOrder
  <2> QED
    BY <1>2, <1>3, <2>1, <2>2, CompactNumbers
<1> DEFINE gone == Overwritten(t, n)
           w == [fwd[p] EXCEPT !.mark = FALSE]
<1>5. /\ mem' = [h \in (DOMAIN mem \ gone) \cup {t} |-> IF h = t THEN mem[p] ELSE mem[h]]
      /\ fwd' = [h \in (DOMAIN fwd \ gone) \cup {t} |-> IF h = t THEN w ELSE fwd[h]]
  BY <1>1, <1>3, <1>4 DEF RelocateObject, Move, moved_unmarked
<1>6. \A h \in DOMAIN mem : h \in gone <=> h < t + n /\ t < h + size_at(h)
  BY DEF Overwritten, heap_next_obj_iterator
<1>7. DOMAIN fwd = DOMAIN mem /\ DOMAIN mem \subseteq Nat
  BY <1>2 DEF HeapTypeOK
<1>8. w \in ForwardWord /\ ~w.mark /\ (w.enq <=> fwd[p].enq)
  BY <1>2, <1>3 DEF HeapTypeOK, ForwardWord
<1> HIDE DEF gone, w
<1>9. DOMAIN mem' = (DOMAIN mem \ gone) \cup {t} /\ DOMAIN fwd' = DOMAIN mem'
  BY <1>5, <1>7
<1>10. /\ mem'[t] = mem[p] /\ fwd'[t] = w
       /\ \A h \in DOMAIN mem' : h # t => mem'[h] = mem[h] /\ fwd'[h] = fwd[h]
  BY <1>5, <1>7, <1>9
<1>11. ASSUME NEW h \in Arrived PROVE h \in DOMAIN mem' /\ h < t
  <2>1. h \in DOMAIN mem /\ h < t
    BY <1>11 DEF Arrived
  <2>2. h + size_at(h) \in Arrived \cup {t}
    BY <1>1, <1>2, <1>11 DEF TiledOnBothSides, heap_next_obj_iterator
  <2>3. h + size_at(h) <= t
    BY <1>2, <1>4, <2>1, <2>2, CompactNumbers DEF Arrived
  <2>4. h \notin gone
    BY <1>2, <1>4, <1>6, <2>1, <2>3, CompactNumbers
  <2> QED
    BY <1>9, <2>1, <2>4
<1>12. ASSUME NEW h \in DOMAIN mem, h > p PROVE h \in DOMAIN mem'
  <2>1. p + n <= h
    BY <1>1, <1>2, <1>3, <1>12, CompactNumbers DEF TiledOnBothSides, heap_next_obj_iterator
  <2>2. h \notin gone
    BY <1>3, <1>4, <1>6, <1>7, <2>1
  <2> QED
    BY <1>9, <2>2
<1>13. ASSUME NEW h \in DOMAIN mem', h # t
       PROVE  h \in DOMAIN mem /\ (h < t + n => h \in Arrived)
  <2>1. h \in DOMAIN mem /\ h \notin gone
    BY <1>9, <1>13
  <2>2. h < t + n => h < t
    BY <1>2, <1>4, <1>6, <2>1, CompactNumbers
  <2> QED
    BY <1>1, <2>1, <2>2 DEF Arrived
<1>14. CompactTypeOK'
  <2>1. DOMAIN mem' \subseteq Nat
    BY <1>4, <1>7, <1>9
  <2>2. \A h \in DOMAIN mem' : ObjectOK(mem'[h])
    BY <1>2, <1>3, <1>10, <1>13 DEF HeapTypeOK
  <2>3. fwd' \in [DOMAIN mem' -> ForwardWord]
    <3>1. \A h \in DOMAIN mem' : fwd'[h] \in ForwardWord
      BY <1>2, <1>7, <1>8, <1>10, <1>13 DEF HeapTypeOK
    <3> QED
      BY <1>5, <1>9, <3>1
  <2>4. HeapTypeOK'
    BY <1>1, <1>2, <2>1, <2>2, <2>3 DEF HeapTypeOK, ObjectOK
  <2>5. scan' \in Nat
    BY <1>1, <1>2, <1>3, CompactNumbers
  <2> QED
    BY <1>1, <1>2, <2>4, <2>5 DEF CompactTypeOK
<1> QED
  BY <1>4, <1>8, <1>9, <1>10, <1>11, <1>12, <1>13, <1>14 DEF CompactTypeOK, HeapTypeOK

\* A dead object: the iterator steps over it.
LEMMA DeadObjectStep ==
  ASSUME CompactInvariant, RelocateObject, scan \notin Marked
  PROVE  CompactInvariant' /\ GraphKept
<1>0. PICK p, t : p = scan /\ t = Frontier
  OBVIOUS
<1>1. /\ phase = "relocate" /\ phase' = "relocate" /\ scan < heap.current
      /\ UNCHANGED <<heap, slots, extra, root, need, old, freePtr>>
      /\ scan' = heap_next_obj_iterator(p)
  BY <1>0, CompactNumbers
     DEF RelocateObject, next_scan, markVars, heap_is_done_iterator, CompactInvariant
<1>2. /\ CompactTypeOK /\ HeapTypeOK /\ TiledOnBothSides /\ PlacesInOrder /\ ChunksApart
      /\ Collecting /\ Compacting /\ Collecting' /\ Compacting'
      /\ IsFrontier(t) /\ heap.begin <= t /\ t <= p
      /\ WordsReadable
  BY <1>0, <1>1 DEF CompactInvariant, CompactTypeOK, Compacting, Collecting,
                    FrontierBehindIterator
<1>3. p \in DOMAIN mem /\ p \in Nat
  BY <1>0, <1>1, <1>2, CompactNumbers DEF CompactInvariant, IteratorOnObject
<1>4. UNCHANGED <<mem, fwd>>
  <2>1. ~fwd[p].mark
    BY <1>0, <1>2, <1>3, CompactNumbers DEF Marked
  <2> QED
    BY <1>0, <2>1 DEF RelocateObject
<1>5. /\ scan' \in {g \in DOMAIN mem : g >= p} \cup {heap.current}
      /\ scan' \in Nat /\ p < scan'
      /\ \A h \in DOMAIN mem : h >= scan' <=> h >= p /\ h # p
  <2>1. /\ scan' \in {g \in DOMAIN mem : g >= p} \cup {heap.current}
        /\ \A h \in DOMAIN mem : p < h => scan' <= h
    BY <1>0, <1>1, <1>2, <1>3, CompactNumbers DEF TiledOnBothSides
  <2>2. scan' \in Nat /\ p < scan'
    BY <1>1, <1>2, <1>3, CompactNumbers
  <2> QED
    BY <1>2, <1>3, <2>1, <2>2, CompactNumbers
<1>6. Marked' = Marked /\ \A h : Destination(h)' = Destination(h)
  BY <1>1, <1>4, WordsStay
<1>7. /\ \A h : size_at(h)' = size_at(h) /\ heap_next_obj_iterator(h)' = heap_next_obj_iterator(h)
      /\ live_end' = live_end /\ heap_end' = heap_end
  BY <1>1, <1>4 DEF size_at, heap_next_obj_iterator, live_end, live_size, heap_end
<1>8. Placed' = Placed /\ Unmoved' = Placed /\ Unmoved = Placed
  <2>1. \A h \in Marked : h >= scan' <=> h >= scan
    BY <1>0, <1>2, <1>5, CompactNumbers
  <2> QED
    BY <1>1, <1>6, <2>1 DEF Placed, Unmoved
<1>9. CompactTypeOK'
  BY <1>1, <1>2, <1>4, <1>5 DEF CompactTypeOK, HeapTypeOK
<1>10. ChunksApart'
  BY <1>1, <1>2, <1>7 DEF ChunksApart
<1>11. PlacesInOrder'
  BY <1>1, <1>2, <1>6, <1>7, <1>8 DEF PlacesInOrder
<1>12. IsFrontier(t)' /\ Frontier' = t
  <2>1. IsFrontier(t)'
    BY <1>2, <1>6, <1>7, <1>8 DEF IsFrontier
  <2> QED
    BY <1>1, <1>9, <1>11, <2>1, FrontierAfterStep
<1>13. FrontierBehindIterator'
  <2>1. t \in Int
    BY <1>2, CompactNumbers DEF IsFrontier, Placed
  <2>2. t <= scan'
    BY <1>2, <1>3, <1>5, <2>1
  <2> QED
    BY <1>1, <1>2, <1>12, <2>2 DEF FrontierBehindIterator
<1>14. Arrived' = Arrived /\ KeptHeaders' = KeptHeaders
  BY <1>0, <1>1, <1>4, <1>8, <1>12 DEF Arrived, KeptHeaders
<1>15. /\ \A h : FinalOf(h)' = FinalOf(h)
       /\ FinalHeaders' = FinalHeaders
  BY <1>6, <1>8, <1>14 DEF FinalOf, FinalHeaders
<1>16. TiledOnBothSides'
  <2>1. ASSUME NEW h \in DOMAIN mem, h >= scan'
        PROVE  /\ heap_next_obj_iterator(h) <= heap.current
               /\ heap_next_obj_iterator(h) \in {g \in DOMAIN mem : g >= scan'} \cup {heap.current}
    <3>1. h >= p /\ h # p
      BY <1>5, <2>1
    <3>2. /\ heap_next_obj_iterator(h) <= heap.current
          /\ heap_next_obj_iterator(h) \in {g \in DOMAIN mem : g >= p} \cup {heap.current}
      BY <1>0, <1>1, <1>2, <3>1 DEF TiledOnBothSides
    <3>3. heap_next_obj_iterator(h) # p
      BY <1>2, <1>3, <3>1, CompactNumbers
    <3> QED
      BY <1>5, <3>2, <3>3
  <2>2. \A g, h \in DOMAIN mem : g >= scan' /\ g < h => heap_next_obj_iterator(g) <= h
    BY <1>0, <1>1, <1>2, <1>5 DEF TiledOnBothSides
  <2> QED
    BY <1>0, <1>1, <1>2, <1>4, <1>7, <1>12, <1>14, <2>1, <2>2 DEF TiledOnBothSides
<1>17. /\ \A l : SlotFixed(l) /\ SlotFixed(l)'
       /\ \A h : FieldsFixed(h) /\ FieldsFixed(h)'
       /\ RootSet' = RootSet
  BY <1>1 DEF SlotFixed, FieldsFixed, RootSet, RootOrder
<1>18. \A v : /\ NewWord(v)' <=> NewWord(v)
              /\ FinalTarget(v, TRUE)' = FinalTarget(v, TRUE)
  <2>1. \A v : /\ InOldHeap(v)' <=> InOldHeap(v)
               /\ is_valid_heap_pointer(v)' <=> is_valid_heap_pointer(v)
               /\ FinalTarget(v, TRUE)' = FinalTarget(v, TRUE)
    BY <1>1, <1>4, WordsStay
  <2> QED
    BY <1>15, <2>1 DEF NewWord
<1>19. WordsReadable'
  BY <1>1, <1>2, <1>4, <1>14, <1>17, <1>18 DEF WordsReadable, WordOK
<1>20. GraphKept
  <2>1. \A l \in RootSet :
          FinalTarget(slots[l], SlotFixed(l))' = FinalTarget(slots[l], SlotFixed(l))
    BY <1>1, <1>17, <1>18 DEF FinalTarget
  <2>2. \A h \in KeptHeaders : Counterpart(h, h)
    BY <1>4, <1>15, <1>17, <1>18 DEF Counterpart, FinalTarget
  <2> QED
    BY <1>1, <1>2, <1>14, <1>15, <1>17, <2>1, <2>2 DEF GraphKept
<1>21. OnlyLiveKept'
  BY <1>20, OnlyLiveKeptStays DEF CompactInvariant
<1>22. IteratorOnObject'
  BY <1>1, <1>4, <1>5 DEF IteratorOnObject
<1>23. Enqueued' = {} /\ need' > 0
  BY <1>1, <1>2, <1>4 DEF CompactInvariant, Enqueued
<1> QED
  BY <1>1, <1>9, <1>10, <1>11, <1>13, <1>16, <1>19, <1>20, <1>21, <1>22, <1>23
     DEF CompactInvariant, Marking, Collecting, EdgesNeedNoFixing, CompactedInOrder

\* A live object: it moves to Frontier, with its final header, and Frontier moves
\* behind it.
LEMMA LiveObjectStep ==
  ASSUME CompactInvariant, RelocateObject, scan \in Marked
  PROVE  CompactInvariant' /\ GraphKept
<1>0. PICK p, t, n : p = scan /\ t = Frontier /\ n = size_at(p)
  OBVIOUS
<1>1. /\ phase = "relocate" /\ phase' = "relocate"
      /\ UNCHANGED <<heap, slots, extra, root, need, old, freePtr>>
      /\ scan' = heap_next_obj_iterator(p)
  BY <1>0 DEF RelocateObject, next_scan, markVars
<1>2. /\ CompactTypeOK /\ HeapTypeOK /\ TiledOnBothSides /\ PlacesInOrder /\ ChunksApart
      /\ Collecting /\ Compacting /\ Collecting' /\ Compacting'
      /\ IsFrontier(t) /\ WordsReadable
  BY <1>0, <1>1 DEF CompactInvariant, CompactTypeOK, Compacting, Collecting,
                    FrontierBehindIterator
<1>3. p \in DOMAIN mem /\ p \in Nat /\ n \in Nat /\ n >= 2
  BY <1>0, <1>2, CompactNumbers
<1>4. /\ t \in Nat /\ t <= p /\ heap.begin <= t /\ Destination(p) = t
      /\ DOMAIN fwd' = DOMAIN mem' /\ DOMAIN mem' \subseteq Nat
      /\ t \in DOMAIN mem' /\ mem'[t] = mem[p]
      /\ ~fwd'[t].mark /\ (fwd'[t].enq <=> fwd[p].enq)
      /\ \A h \in Arrived : h \in DOMAIN mem' /\ h < t
      /\ \A h \in DOMAIN mem : h > p => h \in DOMAIN mem'
      /\ \A h \in DOMAIN mem' : h # t =>
           /\ h \in DOMAIN mem /\ mem'[h] = mem[h] /\ fwd'[h] = fwd[h]
           /\ h < t + n => h \in Arrived
      /\ CompactTypeOK'
  BY <1>0, MoveEffect
<1>5. /\ p \in Placed /\ t + n <= live_end
      /\ \A h \in Placed : h # p => p < h /\ t + n <= Destination(h)
      /\ t + n = live_end \/ \E g \in Placed : g # p /\ Destination(g) = t + n
  BY <1>0, <1>1, NextGoesToFrontier
<1>6. /\ scan' = p + n
      /\ scan' \in {g \in DOMAIN mem : g >= p} \cup {heap.current}
      /\ \A h \in DOMAIN mem : h >= scan' <=> h > p
  <2>1. scan' = p + n
    BY <1>0, <1>1, <1>2, <1>3, CompactNumbers
  <2>2. /\ scan' \in {g \in DOMAIN mem : g >= p} \cup {heap.current}
        /\ \A h \in DOMAIN mem : p < h => scan' <= h
    BY <1>0, <1>1, <1>2, <1>3, CompactNumbers DEF TiledOnBothSides
  <2> QED
    BY <1>2, <1>3, <2>1, <2>2, CompactNumbers
<1>7. \A h \in DOMAIN mem' : h # t =>
        /\ size_at(h)' = size_at(h)
        /\ heap_next_obj_iterator(h)' = heap_next_obj_iterator(h)
        /\ Destination(h)' = Destination(h)
  BY <1>1, <1>4 DEF size_at, heap_next_obj_iterator, Destination
<1>8. size_at(t)' = n /\ heap_next_obj_iterator(t)' = t + n
  BY <1>0, <1>4 DEF size_at, heap_next_obj_iterator
<1>9. /\ live_end' = live_end /\ heap_end' = heap_end
      /\ \A v : InOldHeap(v)' <=> InOldHeap(v)
      /\ \A v : is_valid_heap_pointer(v)' <=> is_valid_heap_pointer(v)
      /\ \A v : Target(v)' = Target(v)
  BY <1>1 DEF live_end, live_size, heap_end, InOldHeap, is_valid_heap_pointer, Target
<1>10. /\ \A h \in Placed : h \in DOMAIN mem /\ h \in Nat /\ fwd[h].mark
       /\ \A h \in Placed : h # p => h \in DOMAIN mem' /\ h # t
  BY <1>2, <1>3, <1>4, <1>5, CompactNumbers DEF Placed, Marked
<1>11. Placed' = Placed \ {p} /\ Unmoved' = Placed \ {p} /\ Unmoved = Placed
  <2>1. Unmoved' = Placed' /\ Unmoved = Placed
    BY <1>1 DEF Unmoved, Placed
  <2>2. ASSUME NEW h \in Placed \ {p} PROVE h \in Placed'
    <3>1. h \in DOMAIN mem' /\ fwd'[h].mark /\ h > p /\ h \in DOMAIN mem
      BY <1>4, <1>5, <1>10, <2>2
    <3> QED
      BY <1>1, <1>4, <1>6, <3>1 DEF Placed, Marked
  <2>3. ASSUME NEW h \in Placed' PROVE h \in Placed \ {p}
    <3>1. h \in DOMAIN mem' /\ fwd'[h].mark /\ h >= scan'
      BY <1>1, <1>4, <2>3 DEF Placed, Marked
    <3>2. h # t /\ h \in DOMAIN mem /\ fwd[h].mark
      BY <1>4, <3>1
    <3>3. h > p /\ h # p /\ h >= p
      BY <1>2, <1>3, <1>6, <3>1, <3>2, CompactNumbers
    <3> QED
      BY <1>0, <1>1, <1>2, <3>2, <3>3, CompactNumbers DEF Placed, Marked
  <2> QED
    BY <2>1, <2>2, <2>3
<1>12. \A h \in Placed' :
         /\ h \in Placed /\ h # p /\ h \in DOMAIN mem /\ h \in DOMAIN mem' /\ h # t
         /\ Destination(h)' = Destination(h) /\ size_at(h)' = size_at(h)
         /\ mem'[h] = mem[h]
         /\ Destination(h) \in Int /\ size_at(h) \in Nat
  BY <1>2, <1>4, <1>7, <1>10, <1>11, CompactNumbers
<1>13. PlacesInOrder'
  <2>1. ASSUME NEW h \in Placed'
        PROVE  \/ Destination(h)' + size_at(h)' = live_end'
               \/ \E g \in Placed' : Destination(g)' = Destination(h)' + size_at(h)'
    <3>1. \/ Destination(h) + size_at(h) = live_end
          \/ \E g \in Placed : Destination(g) = Destination(h) + size_at(h)
      BY <1>2, <1>12, <2>1 DEF PlacesInOrder
    <3>2. Destination(h) + size_at(h) # Destination(p)
      BY <1>3, <1>4, <1>5, <1>12, <2>1
    <3> QED
      BY <1>9, <1>11, <1>12, <2>1, <3>1, <3>2
  <2>2. \A h \in Placed' :
          /\ heap'.begin <= Destination(h)'
          /\ Destination(h)' <= h
          /\ Destination(h)' + size_at(h)' <= live_end'
    BY <1>1, <1>2, <1>9, <1>12 DEF PlacesInOrder
  <2>3. \A g, h \in Placed' : g < h => Destination(g)' + size_at(g)' <= Destination(h)'
    BY <1>2, <1>12 DEF PlacesInOrder
  <2>4. live_end' <= heap'.current
    BY <1>1, <1>2, <1>9 DEF PlacesInOrder
  <2> QED
    BY <1>1, <2>1, <2>2, <2>3, <2>4 DEF PlacesInOrder
<1>14. t + n \in Int
  BY <1>3, <1>4
<1>15. IsFrontier(t + n)' /\ Frontier' = t + n
  <2>1. t + n = live_end' \/ \E g \in Placed' : Destination(g)' = t + n
    BY <1>5, <1>9, <1>11, <1>12
  <2>2. \A h \in Placed' : t + n <= Destination(h)'
    BY <1>5, <1>12
  <2>3. IsFrontier(t + n)'
    BY <1>5, <1>9, <2>1, <2>2 DEF IsFrontier
  <2> QED
    BY <1>1, <1>4, <1>13, <2>3, FrontierAfterStep
<1>16. FrontierBehindIterator'
  <2>1. heap'.begin <= t + n /\ t + n <= scan'
    BY <1>1, <1>2, <1>3, <1>4, <1>6, CompactNumbers
  <2> QED
    BY <1>1, <1>15, <2>1 DEF FrontierBehindIterator
<1>17. Arrived' = Arrived \cup {t}
  <2>1. Arrived' = {h \in DOMAIN mem' : h < t + n}
    BY <1>1, <1>15 DEF Arrived
  <2>2. \A h \in Arrived : h \in DOMAIN mem' /\ h < t + n
    BY <1>3, <1>4
  <2>3. t \in DOMAIN mem' /\ t < t + n
    BY <1>3, <1>4
  <2> QED
    BY <1>4, <2>1, <2>2, <2>3
<1>18. KeptHeaders = Arrived \cup Placed /\ KeptHeaders' = Arrived \cup {t} \cup (Placed \ {p})
  <2>1. KeptHeaders = Arrived \cup Unmoved /\ KeptHeaders' = Arrived' \cup Unmoved'
    BY <1>1 DEF KeptHeaders, Arrived
  <2> QED
    BY <1>11, <1>17, <2>1
<1>19. \A h \in Arrived : h \in DOMAIN mem /\ h \in DOMAIN mem' /\ h # t /\ mem'[h] = mem[h]
                          /\ h \notin Placed /\ h \notin Placed'
  <2>1. \A h \in Arrived : h \in DOMAIN mem /\ h \in DOMAIN mem' /\ h < t /\ h \in Nat
    BY <1>2, <1>4, CompactNumbers DEF Arrived
  <2>2. \A h \in Placed : h >= p
    BY <1>3, <1>5, <1>10
  <2> QED
    BY <1>3, <1>4, <1>11, <2>1, <2>2
<1>20. /\ FinalOf(t)' = t /\ FinalOf(p) = t
       /\ \A h \in Arrived : FinalOf(h)' = h /\ FinalOf(h) = h
       /\ \A h \in Placed \ {p} : FinalOf(h)' = FinalOf(h)
  <2>1. t \notin Placed'
    BY <1>12
  <2> QED
    BY <1>4, <1>5, <1>11, <1>12, <1>19, <2>1 DEF FinalOf
<1>21. FinalHeaders' = FinalHeaders
  BY <1>5, <1>18, <1>20 DEF FinalHeaders
<1>22. TiledOnBothSides'
  <2>1. ASSUME NEW h \in DOMAIN mem', h >= scan'
        PROVE  /\ h \in DOMAIN mem /\ h > p /\ h # t
               /\ heap_next_obj_iterator(h)' = heap_next_obj_iterator(h)
    <3>1. h # t
      BY <1>3, <1>4, <1>6, <2>1
    <3> QED
      BY <1>4, <1>6, <1>7, <2>1, <3>1
  <2>2. ASSUME NEW h \in DOMAIN mem', h >= scan'
        PROVE  /\ heap_next_obj_iterator(h)' <= heap.current
               /\ heap_next_obj_iterator(h)' \in {g \in DOMAIN mem' : g >= scan'} \cup {heap.current}
    <3>1. h \in DOMAIN mem /\ h > p /\ heap_next_obj_iterator(h)' = heap_next_obj_iterator(h)
      BY <2>1, <2>2
    <3>2. /\ heap_next_obj_iterator(h) <= heap.current
          /\ heap_next_obj_iterator(h) \in {g \in DOMAIN mem : g >= p} \cup {heap.current}
      BY <1>0, <1>1, <1>2, <1>3, <3>1, CompactNumbers DEF TiledOnBothSides
    <3>3. heap_next_obj_iterator(h) > p
      BY <1>2, <1>3, <3>1, CompactNumbers
    <3> QED
      BY <1>4, <1>6, <3>1, <3>2, <3>3
  <2>3. ASSUME NEW g \in DOMAIN mem', NEW h \in DOMAIN mem', g >= scan', g < h
        PROVE  heap_next_obj_iterator(g)' <= h
    <3>1. g \in DOMAIN mem /\ g > p /\ heap_next_obj_iterator(g)' = heap_next_obj_iterator(g)
      BY <2>1, <2>3
    <3>2. h # t /\ h \in DOMAIN mem
      BY <1>3, <1>4, <2>3, <3>1
    <3> QED
      BY <1>0, <1>1, <1>2, <1>3, <2>3, <3>1, <3>2, CompactNumbers DEF TiledOnBothSides
  <2>4. heap.begin \in Arrived'
    BY <1>0, <1>1, <1>2, <1>17 DEF TiledOnBothSides
  <2>5. ASSUME NEW h \in Arrived'
        PROVE  /\ heap.begin <= h
               /\ heap_next_obj_iterator(h)' \in Arrived' \cup {t + n}
               /\ ~fwd'[h].mark
    <3>1. CASE h = t
      BY <1>4, <1>8, <3>1
    <3>2. CASE h \in Arrived
      <4>1. /\ heap.begin <= h
            /\ heap_next_obj_iterator(h) \in Arrived \cup {t}
            /\ ~fwd[h].mark
        BY <1>0, <1>1, <1>2, <3>2 DEF TiledOnBothSides
      <4>2. heap_next_obj_iterator(h)' = heap_next_obj_iterator(h) /\ fwd'[h] = fwd[h]
        BY <1>4, <1>7, <1>19, <3>2
      <4> QED
        BY <1>17, <4>1, <4>2
    <3> QED
      BY <1>17, <3>1, <3>2
  <2>6. ASSUME NEW g \in Arrived', NEW h \in Arrived', g < h
        PROVE  heap_next_obj_iterator(g)' <= h
    <3>1. g \in Arrived
      <4>1. \A k \in Arrived : k \in Nat /\ k < t
        BY <1>2, <1>4, CompactNumbers DEF Arrived
      <4> QED
        BY <1>4, <1>17, <2>6, <4>1
    <3>2. heap_next_obj_iterator(g)' = heap_next_obj_iterator(g)
      BY <1>7, <1>19, <3>1
    <3>3. CASE h \in Arrived
      BY <1>0, <1>1, <1>2, <2>6, <3>1, <3>2, <3>3 DEF TiledOnBothSides
    <3>4. CASE h = t
      <4>1. heap_next_obj_iterator(g) \in Arrived \cup {t}
        BY <1>0, <1>1, <1>2, <3>1 DEF TiledOnBothSides
      <4> QED
        BY <1>4, <3>2, <3>4, <4>1
    <3> QED
      BY <1>17, <3>3, <3>4
  <2> QED
    BY <1>1, <1>15, <2>2, <2>3, <2>4, <2>5, <2>6 DEF TiledOnBothSides
<1>23. /\ \A l : SlotFixed(l) /\ SlotFixed(l)'
       /\ \A h : FieldsFixed(h) /\ FieldsFixed(h)'
       /\ RootSet' = RootSet
  BY <1>1 DEF SlotFixed, FieldsFixed, RootSet, RootOrder
<1>24. \A v : /\ NewWord(v)' <=> NewWord(v)
              /\ FinalTarget(v, TRUE)' = FinalTarget(v, TRUE)
  BY <1>9, <1>21 DEF NewWord, FinalTarget
<1>25. \A h \in KeptHeaders' :
         \/ h = t /\ mem'[h] = mem[p] /\ p \in KeptHeaders
         \/ h # t /\ mem'[h] = mem[h] /\ h \in KeptHeaders
  BY <1>4, <1>5, <1>12, <1>11, <1>18, <1>19
<1>26. WordsReadable'
  BY <1>1, <1>2, <1>23, <1>24, <1>25 DEF WordsReadable, WordOK
<1>27. GraphKept
  <2>1. \A l \in RootSet :
          FinalTarget(slots[l], SlotFixed(l))' = FinalTarget(slots[l], SlotFixed(l))
    BY <1>1, <1>23, <1>24 DEF FinalTarget
  <2>2. ASSUME NEW h \in KeptHeaders, NEW k \in KeptHeaders',
               FinalOf(k)' = FinalOf(h), mem'[k] = mem[h]
        PROVE  Counterpart(h, k)
    BY <1>23, <1>24, <2>2 DEF Counterpart, FinalTarget
  <2>3. p \in KeptHeaders /\ t \in KeptHeaders' /\ Counterpart(p, t)
    BY <1>4, <1>5, <1>18, <1>20, <2>2
  <2>4. ASSUME NEW h \in KeptHeaders, h # p
        PROVE  h \in KeptHeaders' /\ Counterpart(h, h)
    BY <1>11, <1>12, <1>18, <1>19, <1>20, <2>2, <2>4
  <2>5. ASSUME NEW k \in KeptHeaders', k # t
        PROVE  k \in KeptHeaders /\ k # p
    BY <1>5, <1>18, <1>19, <2>5
  <2> QED
    BY <1>1, <1>2, <1>21, <1>23, <2>1, <2>3, <2>4, <2>5 DEF GraphKept
<1>28. OnlyLiveKept'
  BY <1>27, OnlyLiveKeptStays DEF CompactInvariant
<1>29. IteratorOnObject'
  <2>1. scan' \in DOMAIN mem' \cup {heap.current}
    BY <1>3, <1>4, <1>6
  <2> QED
    BY <1>1, <2>1 DEF IteratorOnObject
<1>30. ChunksApart'
  BY <1>1, <1>2, <1>9 DEF ChunksApart
<1>31. need' > 0
  BY <1>1 DEF CompactInvariant
<1>32. Enqueued' = {}
  <2>1. \A h \in DOMAIN mem : ~fwd[h].enq
    BY <1>2, CompactNumbers DEF CompactInvariant, Enqueued
  <2>2. \A h \in DOMAIN mem' : ~fwd'[h].enq
    BY <1>3, <1>4, <2>1
  <2> QED
    BY <1>4, <2>2 DEF Enqueued
<1> QED
  BY <1>1, <1>4, <1>13, <1>16, <1>22, <1>26, <1>27, <1>28, <1>29, <1>30, <1>31, <1>32
     DEF CompactInvariant, Marking, Collecting, EdgesNeedNoFixing, CompactedInOrder

\* The objects that are kept are where they stay, and their words refer to them.
KeptAsTheyAre ==
  /\ phase = "relocate" /\ phase' = "collected"
  /\ Unmoved = {} /\ KeptHeaders' = KeptHeaders
  /\ RootSet' = RootSet /\ slots' = slots
  /\ \A h \in KeptHeaders : mem'[h] = mem[h]
  /\ \A v \in Word : NewWord(v) =>
       /\ is_valid_heap_pointer(v)' <=> is_valid_heap_pointer(v)
       /\ is_valid_heap_pointer(v) => get_obj_header_ptr(v) \in KeptHeaders

\* The last object has moved: what is below the last location are the live objects,
\* and nothing refers to what is above it.
LEMMA FinishCompactionStep ==
  ASSUME CompactInvariant, FinishCompaction
  PROVE  CompactInvariant' /\ KeptAsTheyAre
<1>0. PICK q : q = heap.begin + live_size
  OBVIOUS
<1> DEFINE kept == {h \in DOMAIN mem : h < q}
<1>1. /\ phase = "relocate" /\ phase' = "collected" /\ scan >= heap.current
      /\ UNCHANGED <<slots, extra, root, need, old, scan, freePtr>>
      /\ heap' = [heap EXCEPT !.current = q]
      /\ mem' = [h \in kept |-> mem[h]]
      /\ fwd' = [h \in kept |-> fwd[h]]
  BY <1>0 DEF FinishCompaction, heap_is_done_iterator, compactVars
<1>2. /\ CompactTypeOK /\ HeapTypeOK /\ TiledOnBothSides /\ PlacesInOrder /\ ChunksApart
      /\ Collecting /\ Compacting
      /\ IsFrontier(Frontier) /\ heap.begin <= Frontier
      /\ WordsReadable /\ OnlyLiveKept /\ Enqueued = {} /\ need > 0
  BY <1>1 DEF CompactInvariant, CompactTypeOK, Compacting, Collecting, FrontierBehindIterator
<1>3. \A h \in DOMAIN mem : h < scan
  <2>1. \A h \in DOMAIN mem : h >= scan => h < heap.current
    BY <1>1, <1>2, CompactNumbers DEF TiledOnBothSides
  <2> QED
    BY <1>1, <1>2, <2>1, CompactNumbers
<1>4. Placed = {} /\ Unmoved = {}
  BY <1>1, <1>2, <1>3, CompactNumbers DEF Placed, Unmoved
<1>5. live_end = q /\ Frontier = q
  BY <1>0, <1>2, <1>4 DEF live_end, IsFrontier
<1>6. /\ Arrived = kept /\ KeptHeaders = kept /\ FinalHeaders = kept
      /\ \A h : FinalOf(h) = h
  <2>1. Arrived = kept
    BY <1>1, <1>5 DEF Arrived
  <2>2. KeptHeaders = kept
    BY <1>1, <1>4, <1>5 DEF KeptHeaders
  <2> QED
    BY <1>4, <2>1, <2>2 DEF FinalHeaders, FinalOf
<1>7. /\ heap.begin \in Nat /\ q \in Nat /\ heap.begin <= q /\ q <= heap.current
      /\ need \in Nat /\ heap.size \in Nat /\ heap.current \in Nat
      /\ q + need <= heap.begin + heap.size
  <2>1. q + need <= heap.begin + heap.size /\ q <= heap.current
    BY <1>1, <1>2, <1>5 DEF ChunksApart, PlacesInOrder, heap_end
  <2> QED
    BY <1>2, <1>5, <2>1, CompactNumbers
<1>8. heap'.begin = heap.begin /\ heap'.size = heap.size /\ heap'.current = q
  BY <1>1, <1>2 DEF HeapTypeOK
<1> HIDE DEF kept
<1>9. /\ kept \subseteq DOMAIN mem /\ DOMAIN mem' = kept /\ DOMAIN fwd' = kept
      /\ \A h \in kept : mem'[h] = mem[h] /\ fwd'[h] = fwd[h] /\ h < q
  BY <1>1 DEF kept
<1>10. CompactTypeOK'
  <2>1. /\ heap' \in [begin : Nat, size : Nat, current : Nat]
        /\ DOMAIN mem' \subseteq Nat
        /\ \A h \in DOMAIN mem' : ObjectOK(mem'[h])
        /\ fwd' \in [DOMAIN mem' -> ForwardWord]
    BY <1>1, <1>2, <1>7, <1>9 DEF HeapTypeOK
  <2>2. HeapTypeOK'
    BY <1>1, <1>2, <2>1 DEF HeapTypeOK, ObjectOK
  <2> QED
    BY <1>1, <1>2, <2>2 DEF CompactTypeOK
<1>11. \A h \in kept :
         /\ heap.begin <= h /\ ~fwd[h].mark /\ ~fwd[h].enq
         /\ size_at(h)' = size_at(h)
         /\ heap_next_obj_iterator(h)' = heap_next_obj_iterator(h)
         /\ heap_next_obj_iterator(h) \in kept \cup {q}
         /\ heap_next_obj_iterator(h) <= q
         /\ h + 2 <= q
  <2>1. ASSUME NEW h \in kept
        PROVE  /\ heap.begin <= h /\ ~fwd[h].mark
               /\ heap_next_obj_iterator(h) \in kept \cup {q}
    BY <1>1, <1>2, <1>5, <1>6, <2>1 DEF TiledOnBothSides
  <2>2. \A h \in kept : ~fwd[h].enq
    BY <1>2, <1>9, CompactNumbers DEF Enqueued
  <2>3. \A h \in kept : heap_next_obj_iterator(h) <= q /\ h + 2 <= heap_next_obj_iterator(h)
    BY <1>2, <1>7, <1>9, <2>1, CompactNumbers
  <2>4. \A h \in kept : size_at(h)' = size_at(h)
    BY <1>9 DEF size_at
  <2>5. \A h \in kept : heap_next_obj_iterator(h)' = heap_next_obj_iterator(h)
    BY <2>4 DEF heap_next_obj_iterator
  <2> QED
    BY <1>2, <1>7, <1>9, <2>1, <2>2, <2>3, <2>4, <2>5, CompactNumbers
<1>12. Tiled'
  <2>1. heap.begin # q => heap.begin \in kept
    BY <1>1, <1>2, <1>5, <1>6 DEF TiledOnBothSides
  <2>2. \A g, h \in kept : g < h => heap_next_obj_iterator(g) <= h
    BY <1>1, <1>2, <1>6 DEF TiledOnBothSides
  <2>3. q <= heap_end'
    BY <1>7, <1>8 DEF heap_end
  <2> QED
    BY <1>7, <1>8, <1>9, <1>11, <2>1, <2>2, <2>3 DEF Tiled
<1>13. ASSUME NEW v, v \in Word, NewWord(v)
       PROVE  /\ SoundWord(v)' /\ Target(v)' = FinalTarget(v, TRUE)
              /\ is_valid_heap_pointer(v)' <=> is_valid_heap_pointer(v)
              /\ is_valid_heap_pointer(v) => get_obj_header_ptr(v) \in kept
  <2>1. is_valid_heap_pointer(v)' => is_valid_heap_pointer(v)
    BY <1>7, <1>8, <1>13 DEF is_valid_heap_pointer, is_valid_pointer, Word
  <2>2. is_valid_heap_pointer(v) => get_obj_header_ptr(v) \in kept /\ v \in Nat
    BY <1>6, <1>13 DEF NewWord, is_valid_heap_pointer, is_valid_pointer, Word
  <2>3. is_valid_heap_pointer(v) => is_valid_heap_pointer(v)'
    <3> SUFFICES ASSUME is_valid_heap_pointer(v) PROVE is_valid_heap_pointer(v)'
      OBVIOUS
    <3>1. (v - 2) + 2 <= q
      BY <1>11, <2>2 DEF get_obj_header_ptr, HeaderWords
    <3>2. v <= q
      BY <1>7, <2>2, <3>1
    <3> QED
      BY <1>8, <3>2 DEF is_valid_heap_pointer
  <2> QED
    BY <1>9, <2>1, <2>2, <2>3 DEF SoundWord, Target, FinalTarget
<1>14. /\ RootOrder' = RootOrder
       /\ \A i \in 1..Len(RootOrder) : slots[RootOrder[i]] \in Word /\ NewWord(slots[RootOrder[i]])
       /\ \A h \in kept : \A i \in 1..Len(mem[h].flds) :
            mem[h].flds[i] \in Word /\ NewWord(mem[h].flds[i])
  <2>1. RootOrder' = RootOrder
    BY <1>1 DEF RootOrder
  <2>2. \A i \in 1..Len(RootOrder) : RootOrder[i] \in RootSet /\ RootOrder[i] \in Loc
    BY <1>2, RootOrderIsSeq DEF RootSet
  <2>3. /\ \A l \in RootSet : NewWord(slots[l])
        /\ \A h \in kept : \A i \in 1..Len(mem[h].flds) : NewWord(mem[h].flds[i])
    BY <1>1, <1>2, <1>6 DEF WordsReadable, WordOK, SlotFixed, FieldsFixed
  <2>4. \A h \in kept : mem[h].flds \in Seq(Word)
    BY <1>2, <1>9 DEF HeapTypeOK, ObjectOK, Object
  <2> QED
    BY <1>2, <2>1, <2>2, <2>3, <2>4 DEF HeapTypeOK
<1>15. RootsSound' /\ FieldsSound'
  BY <1>1, <1>9, <1>13, <1>14 DEF RootsSound, FieldsSound
<1>16. AtRest'
  BY <1>9, <1>11 DEF AtRest
<1>17. heap'.current + need' <= heap_end'
  BY <1>1, <1>7, <1>8 DEF heap_end
<1>18. ASSUME NEW S \in SUBSET kept, Closed(S)'
       PROVE  S = kept
  <2>1. ASSUME NEW l \in RootSet PROVE FinalTarget(slots[l], TRUE) \subseteq S
    <3>1. PICK i \in 1..Len(RootOrder) : l = RootOrder[i]
      BY DEF RootSet
    <3>2. Target(slots[l])' \subseteq S
      BY <1>1, <1>14, <1>18, <3>1 DEF Closed, RootTargets
    <3> QED
      BY <1>1, <1>13, <1>14, <3>1, <3>2
  <2>2. ASSUME NEW h \in kept, h \in S, NEW i \in 1..Len(mem[h].flds)
        PROVE  FinalTarget(mem[h].flds[i], TRUE) \subseteq S
    <3>1. Target(mem[h].flds[i])' \subseteq S
      BY <1>9, <1>18, <2>2 DEF Closed, Successors
    <3> QED
      BY <1>9, <1>13, <1>14, <2>2, <3>1
  <2>3. FinalClosed(S)
    BY <1>1, <1>6, <2>1, <2>2 DEF FinalClosed, SlotFixed, FieldsFixed, FinalTarget
  <2> QED
    BY <1>2, <1>6, <2>3 DEF OnlyLiveKept
<1>19. CompactedInOrder'
  BY <1>9, <1>12, <1>15, <1>16, <1>17, <1>18 DEF CompactedInOrder
<1>20. ~Marking' /\ ~Collecting' /\ ~Compacting' /\ need' > 0
  BY <1>1, <1>2 DEF Marking, Collecting, Compacting
<1>21. KeptAsTheyAre
  <2>1. KeptHeaders' = kept
    BY <1>1, <1>9 DEF KeptHeaders
  <2>2. RootSet' = RootSet
    BY <1>1 DEF RootSet, RootOrder
  <2> QED
    BY <1>1, <1>4, <1>6, <1>9, <1>13, <2>1, <2>2 DEF KeptAsTheyAre
<1> QED
  BY <1>1, <1>10, <1>19, <1>20, <1>21
     DEF CompactInvariant, IteratorOnObject, ChunksApart, PlacesInOrder, FrontierBehindIterator,
         TiledOnBothSides, WordsReadable, OnlyLiveKept, EdgesNeedNoFixing

\* Nor does a step that changes nothing break any part of it.
LEMMA CompactStutter ==
  ASSUME CompactInvariant, UNCHANGED gcVars
  PROVE  CompactInvariant' /\ (Collecting => GraphKept)
<1>1. /\ UNCHANGED <<heap, mem, fwd, slots, extra, need, old, scan, freePtr>>
      /\ UNCHANGED <<heapVars, markVars>>
      /\ UNCHANGED <<phase, root>>
  BY DEF gcVars, heapVars, markVars, compactVars
<1>2. CompactTypeOK'
  BY <1>1 DEF CompactInvariant, CompactTypeOK, HeapTypeOK
<1>3. (Marking \/ phase = "locate" => MarkInvariant /\ BottomFollowed)'
  <2>1. CASE Marking \/ phase = "locate"
    BY <1>1, <2>1, MarkStutter, BottomUnchanged DEF CompactInvariant
  <2>2. CASE ~(Marking \/ phase = "locate")
    BY <1>1, <2>2 DEF Marking
  <2> QED
    BY <2>1, <2>2
<1>4. /\ Marked' = Marked /\ Enqueued' = Enqueued
      /\ \A h : Destination(h)' = Destination(h)
      /\ \A v : /\ InOldHeap(v)' <=> InOldHeap(v)
                /\ is_valid_heap_pointer(v)' <=> is_valid_heap_pointer(v)
                /\ OldWord(v)' <=> OldWord(v)
                /\ Target(v)' = Target(v)
                /\ FinalTarget(v, TRUE)' = FinalTarget(v, TRUE)
                /\ FinalTarget(v, FALSE)' = FinalTarget(v, FALSE)
  BY <1>1, WordsStay DEF Enqueued
<1>5. /\ \A h : size_at(h)' = size_at(h) /\ heap_next_obj_iterator(h)' = heap_next_obj_iterator(h)
      /\ live_end' = live_end /\ heap_end' = heap_end
      /\ (Collecting' <=> Collecting) /\ (Compacting' <=> Compacting)
  BY <1>1 DEF size_at, heap_next_obj_iterator, live_end, live_size, heap_end, Collecting, Compacting
<1>6. /\ Placed' = Placed /\ Unmoved' = Unmoved
  BY <1>1, <1>4 DEF Placed, Unmoved
<1>7. Frontier' = Frontier
  BY <1>1, <1>6 DEF Frontier, live_size, Destination
<1>8. /\ Arrived' = Arrived /\ KeptHeaders' = KeptHeaders
      /\ (Tiled' <=> Tiled)
  BY <1>1, <1>4, <1>5, <1>6, <1>7 DEF Arrived, KeptHeaders, Tiled
<1>9. /\ \A h : FinalOf(h)' = FinalOf(h)
      /\ FinalHeaders' = FinalHeaders
  BY <1>4, <1>6, <1>8 DEF FinalOf, FinalHeaders
<1>10. \A v : NewWord(v)' <=> NewWord(v)
  BY <1>4, <1>9 DEF NewWord
<1>11. /\ \A l : SlotFixed(l)' <=> SlotFixed(l)
       /\ \A h : FieldsFixed(h)' <=> FieldsFixed(h)
       /\ RootSet' = RootSet /\ RootOrder' = RootOrder
  BY <1>1 DEF SlotFixed, FieldsFixed, RootSet, RootOrder, FixOrder, Skipped, IsExtraRoot,
              FixedAsRegion
<1>12. IteratorOnObject' /\ ChunksApart' /\ PlacesInOrder'
  BY <1>1, <1>4, <1>5, <1>6
     DEF CompactInvariant, IteratorOnObject, ChunksApart, PlacesInOrder
<1>13. FrontierBehindIterator'
  <2>1. IsFrontier(heap.begin)' <=> IsFrontier(heap.begin)
    BY <1>1, <1>4, <1>5, <1>6 DEF IsFrontier
  <2>2. IsFrontier(Frontier)' <=> IsFrontier(Frontier)
    BY <1>1, <1>4, <1>5, <1>6, <1>7 DEF IsFrontier
  <2> QED
    BY <1>1, <1>7, <2>1, <2>2 DEF CompactInvariant, FrontierBehindIterator
<1>14. TiledOnBothSides'
  BY <1>1, <1>5, <1>7, <1>8 DEF CompactInvariant, TiledOnBothSides
<1>15. WordsReadable'
  BY <1>1, <1>4, <1>5, <1>8, <1>10, <1>11 DEF CompactInvariant, WordsReadable, WordOK
<1>16. ASSUME Collecting PROVE GraphKept
  <2>1. \A l \in RootSet :
          FinalTarget(slots[l], SlotFixed(l))' = FinalTarget(slots[l], SlotFixed(l))
    BY <1>1, <1>4, <1>11 DEF FinalTarget
  <2>2. \A h \in KeptHeaders : Counterpart(h, h)
    BY <1>1, <1>4, <1>9, <1>11 DEF Counterpart, FinalTarget
  <2> QED
    BY <1>1, <1>5, <1>8, <1>9, <1>11, <1>16, <2>1, <2>2 DEF GraphKept
<1>17. OnlyLiveKept'
  BY <1>5, <1>16, OnlyLiveKeptStays DEF CompactInvariant, OnlyLiveKept
<1>18. CompactedInOrder'
  <2>1. /\ RootsSound' <=> RootsSound
        /\ FieldsSound' <=> FieldsSound
        /\ \A S : Closed(S)' <=> Closed(S)
    BY <1>1, GraphUnchanged
  <2>2. AtRest' <=> AtRest
    BY <1>1 DEF AtRest
  <2> QED
    BY <1>1, <1>5, <1>8, <2>1, <2>2 DEF CompactInvariant, CompactedInOrder
<1>19. EdgesNeedNoFixing'
  BY <1>1, <1>4 DEF CompactInvariant, EdgesNeedNoFixing, EdgesHoldNoObject, EdgeRoots, Marking
<1> QED
  BY <1>1, <1>2, <1>3, <1>4, <1>5, <1>12, <1>13, <1>14, <1>15, <1>16, <1>17, <1>18, <1>19 DEF CompactInvariant

\* One lemma for all steps of a collection.
LEMMA CollectStep == CompactInvariant /\ [CollectNext]_gcVars => CompactInvariant'
<1> SUFFICES ASSUME CompactInvariant, [CollectNext]_gcVars
             PROVE  CompactInvariant'
  OBVIOUS
<1>1. CASE MarkLoops /\ UNCHANGED compactVars
  BY <1>1, MarkingKeepsInvariant
<1>2. CASE StartLocate
  BY <1>2, StartLocateStep
<1>3. CASE ComputeLocation
  BY <1>3, ComputeLocationStep
<1>4. CASE MapChunk
  BY <1>4, MapChunkStep
<1>5. CASE UpdateObject
  BY <1>5, UpdateObjectStep
<1>6. CASE UpdateObjectsDone
  BY <1>6, UpdateObjectsDoneStep
<1>7. CASE FixRoot
  BY <1>7, FixRootStep
<1>8. CASE FixRootsDone
  BY <1>8, FixRootsDoneStep
<1>9. CASE RelocateObject
  BY <1>9, DeadObjectStep, LiveObjectStep
<1>10. CASE FinishCompaction
  BY <1>10, FinishCompactionStep
<1>11. CASE UNCHANGED gcVars
  BY <1>11, CompactStutter
<1> QED
  BY <1>1, <1>2, <1>3, <1>4, <1>5, <1>6, <1>7, <1>8, <1>9, <1>10, <1>11 DEF CollectNext, CompactNext

-----------------------------------------------------------------------------
(* The theorems.                                                           *)

\* The invariant holds throughout a collection, for every heap in order.
THEOREM CompactInvariantHolds == CollectSpec => []CompactInvariant
BY CompactInvariantInitially, CollectStep, PTL DEF CollectSpec

\* Every variable of compact_phase keeps its type.
THEOREM CompactTypeCorrect == CollectSpec => []CompactTypeOK
<1>1. CompactInvariant => CompactTypeOK
  BY DEF CompactInvariant
<1> QED
  BY <1>1, CompactInvariantHolds, PTL

\* The iterators of the passes of compact_phase, and of the one that overwrites the
\* objects behind it, are always at the header of an object.
THEOREM PassesMeetHeaders == CollectSpec => []IteratorMeetsHeaders
<1>1. CompactInvariant => IteratorMeetsHeaders
  <2> SUFFICES ASSUME CompactInvariant, phase \in {"locate", "update", "relocate"},
                      scan < heap.current
               PROVE  scan \in DOMAIN mem
    BY DEF IteratorMeetsHeaders
  <2>1. scan \in DOMAIN mem \cup {heap.current} /\ CompactTypeOK
    BY DEF CompactInvariant, IteratorOnObject
  <2> QED
    BY <2>1, CompactNumbers
<1> QED
  BY <1>1, CompactInvariantHolds, PTL

\* Objects move down, in order, to locations that do not overlap.
THEOREM LocationsSlideDown == CollectSpec => []ObjectsSlideDown
<1>1. CompactInvariant => ObjectsSlideDown
  <2> SUFFICES ASSUME CompactInvariant, phase \in {"update", "fixroots", "relocate"}
               PROVE  /\ \A h \in Unmoved :
                           /\ Destination(h) <= h
                           /\ Destination(h) + size_at(h) <= heap.begin + live_size
                      /\ \A g, h \in Unmoved : g < h => Destination(g) + size_at(g) <= Destination(h)
    BY DEF ObjectsSlideDown
  <2>1. Unmoved \subseteq Placed
    BY DEF Unmoved, Placed
  <2>2. Compacting /\ PlacesInOrder
    BY DEF CompactInvariant, Compacting, Collecting
  <2> QED
    BY <2>1, <2>2 DEF PlacesInOrder, live_end
<1> QED
  BY <1>1, CompactInvariantHolds, PTL

\* A collection leaves a heap in order that holds the live objects and nothing else,
\* with no bit set and with room for the request.
THEOREM CollectionCompacts == CollectSpec => []CompactedInOrder
<1>1. CompactInvariant => CompactedInOrder
  BY DEF CompactInvariant
<1> QED
  BY <1>1, CompactInvariantHolds, PTL

-----------------------------------------------------------------------------
(* The program cannot see a collection (CollectionInvisible).  A word is   *)
(* read by the object that it leads to in the end; the steps that rewrite  *)
(* or move words leave that alone (GraphKept), so what is read stays the   *)
(* same.                                                                   *)

\* What the program reads, r, is what a word leads to: v itself where it leads to no
\* object, and the object that will be at its only target otherwise.
Shows(r, targets, v) ==
  /\ targets = {} \/ \E h \in KeptHeaders : targets = {FinalOf(h)}
  /\ targets = {} => r = <<"word", v>>
  /\ \A h \in KeptHeaders : targets = {FinalOf(h)} => r = Denoted(h)

GraphReadable ==
  /\ \A l \in RootSet : Shows(ReadSlot(l), FinalTarget(slots[l], SlotFixed(l)), slots[l])
  /\ \A h \in KeptHeaders : \A i \in 1..Len(mem[h].flds) :
       Shows(ReadField(h, mem[h].flds[i]),
             FinalTarget(mem[h].flds[i], FieldsFixed(h)), mem[h].flds[i])

\* The object at h as the program sees it.
ObjectSeen(h) ==
  [id |-> mem[h].id, kind |-> mem[h].kind, len |-> mem[h].len,
   flds |-> [i \in DOMAIN mem[h].flds |-> ReadField(h, mem[h].flds[i])]]

\* An action that changes nothing the program sees.
SameGraph == GraphRoots' = GraphRoots /\ GraphObjects' = GraphObjects

-----------------------------------------------------------------------------
(* What a word is read as, while the chunk is being compacted.             *)

\* No two objects end up at the same address.
LEMMA FinalsDistinct ==
  ASSUME CompactInvariant, Collecting
  PROVE  \A g, h \in KeptHeaders : FinalOf(g) = FinalOf(h) => g = h
<1>1. CompactTypeOK /\ PlacesInOrder /\ Compacting /\ FrontierBehindIterator
  BY DEF CompactInvariant, Compacting
<1>2. \A g \in Placed : /\ g \in DOMAIN mem /\ g \in Nat /\ FinalOf(g) = Destination(g)
                        /\ Destination(g) \in Int /\ size_at(g) >= 2 /\ size_at(g) \in Nat
  BY <1>1, CompactNumbers DEF Placed, FinalOf
<1>3. \A g, h \in Placed : g # h => FinalOf(g) # FinalOf(h)
  <2>1. \A g, h \in Placed : g < h => Destination(g) # Destination(h)
    BY <1>1, <1>2 DEF PlacesInOrder
  <2> QED
    BY <1>2, <2>1
<1>4. CASE phase # "relocate"
  <2>1. KeptHeaders = Placed
    BY <1>4 DEF KeptHeaders, Placed, Collecting
  <2> QED
    BY <1>3, <2>1
<1>5. CASE phase = "relocate"
  <2>1. IsFrontier(Frontier) /\ Frontier <= scan /\ heap.begin <= Frontier
    BY <1>1, <1>5 DEF FrontierBehindIterator
  <2>2. KeptHeaders = Arrived \cup Placed
    BY <1>5 DEF KeptHeaders, Arrived, Placed, Unmoved
  <2>3. Frontier \in Int
    BY <1>1, <1>2, <2>1, CompactNumbers DEF IsFrontier
  <2>4. \A g \in Arrived : g \in Nat /\ g < Frontier /\ g \notin Placed /\ FinalOf(g) = g
    BY <1>1, <1>5, <2>1, <2>3, CompactNumbers DEF Arrived, Placed, FinalOf
  <2>5. \A g \in Arrived, h \in Placed : FinalOf(g) # FinalOf(h)
    BY <1>2, <2>1, <2>3, <2>4 DEF IsFrontier
  <2> QED
    BY <1>3, <2>2, <2>4, <2>5
<1> QED
  BY <1>4, <1>5

\* A word of the old chunk denotes the object whose location replaces it.
LEMMA OldWordShows ==
  ASSUME CompactInvariant, phase \in {"update", "fixroots"}, NEW v, OldWord(v)
  PROVE  Shows(ReadOld(v), FinalTarget(v, FALSE), v)
<1>1. Collecting /\ KeptHeaders = Marked /\ Placed = Marked
  BY DEF Collecting, KeptHeaders, Placed
<1>2. CASE InOldHeap(v)
  <2> DEFINE h == InNewHeap(v)
  <2>1. h \in KeptHeaders /\ FinalOf(h) = Destination(h)
    BY <1>1, <1>2 DEF OldWord, FinalOf
  <2>2. FinalTarget(v, FALSE) = {FinalOf(h)} /\ ReadOld(v) = Denoted(h)
    BY <1>2, <2>1 DEF FinalTarget, ReadOld
  <2>3. \A g \in KeptHeaders : {FinalOf(h)} = {FinalOf(g)} => g = h
    BY <1>1, <2>1, FinalsDistinct
  <2> QED
    BY <2>1, <2>2, <2>3 DEF Shows
<1>3. CASE ~InOldHeap(v)
  BY <1>3 DEF Shows, FinalTarget, ReadOld
<1> QED
  BY <1>2, <1>3

\* A word that has been fixed denotes the object that is or will be there.
LEMMA NewWordShows ==
  ASSUME CompactInvariant, Collecting, NEW v, NewWord(v)
  PROVE  Shows(ReadNew(v), FinalTarget(v, TRUE), v)
<1> DEFINE a == get_obj_header_ptr(v)
<1>1. CASE is_valid_heap_pointer(v)
  <2>1. PICK h \in KeptHeaders : a = FinalOf(h)
    BY <1>1 DEF NewWord, FinalHeaders
  <2>2. \A g \in KeptHeaders : FinalOf(g) = a => g = h
    BY <2>1, FinalsDistinct
  <2>3. ReadNew(v) = Denoted(h)
    <3>1. CASE phase = "relocate"
      <4>1. Unmoved = Placed /\ KeptHeaders = Arrived \cup Placed
        BY <3>1 DEF Unmoved, Placed, Arrived, KeptHeaders
      <4>2. \A g \in Unmoved : FinalOf(g) = Destination(g)
        BY <4>1 DEF FinalOf
      <4>3. CASE h \in Unmoved
        <5>1. \A g \in Unmoved : Destination(g) = a <=> g = h
          BY <2>1, <2>2, <4>1, <4>2, <4>3
        <5>2. HeaderOfFinal(a) = h
          BY <4>3, <5>1 DEF HeaderOfFinal
        <5> QED
          BY <1>1, <3>1, <5>2 DEF ReadNew
      <4>4. CASE h \notin Unmoved
        <5>1. a = h /\ \A g \in Unmoved : Destination(g) # a
          BY <2>1, <2>2, <4>1, <4>2, <4>4 DEF FinalOf
        <5>2. HeaderOfFinal(a) = h
          BY <5>1 DEF HeaderOfFinal
        <5> QED
          BY <1>1, <3>1, <5>2 DEF ReadNew
      <4> QED
        BY <4>3, <4>4
    <3>2. CASE phase # "relocate"
      <4>1. KeptHeaders = Marked /\ Placed = Marked
        BY <3>2 DEF Collecting, KeptHeaders, Placed
      <4>2. \A g \in Marked : Destination(g) = a <=> g = h
        BY <2>1, <2>2, <4>1 DEF FinalOf
      <4>3. (CHOOSE g \in Marked : Destination(g) = a) = h
        BY <2>1, <4>1, <4>2
      <4> QED
        BY <1>1, <3>2, <4>3 DEF ReadNew
    <3> QED
      BY <3>1, <3>2
  <2>4. FinalTarget(v, TRUE) = {a}
    BY <1>1 DEF FinalTarget, Target
  <2>5. \A g \in KeptHeaders : {a} = {FinalOf(g)} => g = h
    BY <2>2
  <2> QED
    BY <2>1, <2>3, <2>4, <2>5 DEF Shows
<1>2. CASE ~is_valid_heap_pointer(v)
  BY <1>2 DEF Shows, FinalTarget, Target, ReadNew
<1> QED
  BY <1>1, <1>2

\* So every root and every field that the collector keeps denotes what it leads to.
LEMMA GraphIsReadable == CompactInvariant /\ Collecting => GraphReadable
<1> SUFFICES ASSUME CompactInvariant, Collecting PROVE GraphReadable
  OBVIOUS
<1>1. WordsReadable /\ CompactTypeOK
  BY DEF CompactInvariant
<1>2. ASSUME NEW l \in RootSet
      PROVE  Shows(ReadSlot(l), FinalTarget(slots[l], SlotFixed(l)), slots[l])
  <2>1. CASE SlotFixed(l)
    <3>1. NewWord(slots[l])
      BY <1>1, <1>2, <2>1 DEF WordsReadable, WordOK
    <3>2. /\ ReadSlot(l) = ReadNew(slots[l])
          /\ FinalTarget(slots[l], SlotFixed(l)) = FinalTarget(slots[l], TRUE)
      BY <2>1 DEF ReadSlot, FinalTarget
    <3> QED
      BY <3>1, <3>2, NewWordShows
  <2>2. CASE ~SlotFixed(l)
    <3>1. OldWord(slots[l]) /\ phase \in {"update", "fixroots"}
      BY <1>1, <1>2, <2>2 DEF WordsReadable, WordOK, SlotFixed, Collecting
    <3>2. /\ ReadSlot(l) = ReadOld(slots[l])
          /\ FinalTarget(slots[l], SlotFixed(l)) = FinalTarget(slots[l], FALSE)
      BY <2>2 DEF ReadSlot, FinalTarget
    <3> QED
      BY <3>1, <3>2, OldWordShows
  <2> QED
    BY <2>1, <2>2
<1>3. ASSUME NEW h \in KeptHeaders, NEW i \in 1..Len(mem[h].flds)
      PROVE  Shows(ReadField(h, mem[h].flds[i]),
                   FinalTarget(mem[h].flds[i], FieldsFixed(h)), mem[h].flds[i])
  <2> DEFINE v == mem[h].flds[i]
  <2>1. h \in Nat /\ scan \in Nat
    BY <1>1, <1>3, CompactNumbers DEF KeptHeaders, Collecting, Unmoved
  <2>2. CASE FieldsFixed(h)
    <3>1. NewWord(v)
      BY <1>1, <1>3, <2>2 DEF WordsReadable, WordOK
    <3>2. ReadField(h, v) = ReadNew(v) /\ FinalTarget(v, FieldsFixed(h)) = FinalTarget(v, TRUE)
      BY <2>1, <2>2 DEF ReadField, FieldsFixed, FinalTarget
    <3> QED
      BY <3>1, <3>2, NewWordShows
  <2>3. CASE ~FieldsFixed(h)
    <3>1. OldWord(v)
      BY <1>1, <1>3, <2>3 DEF WordsReadable, WordOK
    <3>2. phase = "update" /\ h >= scan
      BY <2>1, <2>3 DEF FieldsFixed, Collecting
    <3>3. ReadField(h, v) = ReadOld(v) /\ FinalTarget(v, FieldsFixed(h)) = FinalTarget(v, FALSE)
      BY <2>3, <3>2 DEF ReadField, FinalTarget
    <3> QED
      BY <3>1, <3>2, <3>3, OldWordShows
  <2> QED
    BY <2>2, <2>3
<1> QED
  BY <1>2, <1>3 DEF GraphReadable

\* The same in the state that a step leads to.
LEMMA GraphIsReadableAfterStep == (CompactInvariant /\ Collecting => GraphReadable)'
BY GraphIsReadable, PTL

\* The words of an object are the elements of a sequence.
LEMMA FieldsAreSeq == CompactInvariant => \A h \in DOMAIN mem : DOMAIN mem[h].flds = 1..Len(mem[h].flds)
<1> SUFFICES ASSUME CompactInvariant, NEW h \in DOMAIN mem
             PROVE  DOMAIN mem[h].flds = 1..Len(mem[h].flds)
  OBVIOUS
<1>1. mem[h].flds \in Seq(Word)
  BY DEF CompactInvariant, CompactTypeOK, HeapTypeOK, ObjectOK, Object
<1> QED
  BY <1>1

LEMMA FieldsAreSeqAfterStep ==
  (CompactInvariant => \A h \in DOMAIN mem : DOMAIN mem[h].flds = 1..Len(mem[h].flds))'
BY FieldsAreSeq, PTL

\* Objects that are kept are objects.
LEMMA KeptAreObjects == CompactInvariant => KeptHeaders \subseteq DOMAIN mem
BY CompactNumbers DEF CompactInvariant, KeptHeaders, Unmoved

LEMMA KeptAreObjectsAfterStep == (CompactInvariant => KeptHeaders \subseteq DOMAIN mem)'
BY KeptAreObjects, PTL

\* After a step, q is what the word w leads to.
ShowsAfter(q, targets, w) ==
  /\ targets = {} => q = <<"word", w>>
  /\ \A k \in KeptHeaders' : targets = {FinalOf(k)'} => q = Denoted(k)'

\* A word that leads where it led is read as it was.
LEMMA SameReading ==
  ASSUME GraphKept, NEW r, NEW q, NEW T, NEW v, NEW w,
         Shows(r, T, v), ShowsAfter(q, T, w), T = {} => w = v
  PROVE  q = r
<1>1. CASE T = {}
  BY <1>1 DEF Shows, ShowsAfter
<1>2. CASE T # {}
  <2>1. PICK h \in KeptHeaders : T = {FinalOf(h)}
    BY <1>2 DEF Shows
  <2>2. PICK k \in KeptHeaders' : Counterpart(h, k)
    BY <2>1 DEF GraphKept
  <2>3. q = Denoted(k)' /\ r = Denoted(h)
    BY <2>1, <2>2 DEF Counterpart, Shows, ShowsAfter
  <2> QED
    BY <2>2, <2>3 DEF Counterpart, Denoted
<1> QED
  BY <1>1, <1>2

\* The steps that keep where words lead keep what the program sees.
LEMMA GraphKeptShowsSame ==
  ASSUME CompactInvariant, CompactInvariant', GraphKept
  PROVE  SameGraph
<1>1. Collecting /\ Collecting' /\ RootSet' = RootSet
  BY DEF GraphKept
<1>2. GraphReadable /\ GraphReadable'
  BY <1>1, GraphIsReadable, GraphIsReadableAfterStep
<1>3. ASSUME NEW l \in RootSet PROVE ReadSlot(l)' = ReadSlot(l)
  <2> DEFINE T == FinalTarget(slots[l], SlotFixed(l))
  <2>1. Shows(ReadSlot(l), T, slots[l]) /\ Shows(ReadSlot(l), T, slots[l])'
    BY <1>1, <1>2, <1>3 DEF GraphReadable
  <2>2. T' = T /\ (T = {} => slots'[l] = slots[l])
    BY <1>3 DEF GraphKept
  <2>3. ShowsAfter(ReadSlot(l)', T', slots'[l])
    BY <2>1 DEF Shows, ShowsAfter
  <2> HIDE DEF T
  <2> QED
    BY <2>1, <2>2, <2>3, SameReading
<1>4. ASSUME NEW h \in KeptHeaders, NEW k \in KeptHeaders', Counterpart(h, k)
      PROVE  ObjectSeen(k)' = ObjectSeen(h)
  <2>1. /\ DOMAIN mem[h].flds = 1..Len(mem[h].flds)
        /\ DOMAIN mem'[k].flds = 1..Len(mem[h].flds)
    BY <1>4, FieldsAreSeq, FieldsAreSeqAfterStep, KeptAreObjects, KeptAreObjectsAfterStep
       DEF Counterpart
  <2>2. ASSUME NEW i \in 1..Len(mem[h].flds)
        PROVE  ReadField(k, mem[k].flds[i])' = ReadField(h, mem[h].flds[i])
    <3> DEFINE T == FinalTarget(mem[h].flds[i], FieldsFixed(h))
               U == FinalTarget(mem[k].flds[i], FieldsFixed(k))
    <3>1. Shows(ReadField(h, mem[h].flds[i]), T, mem[h].flds[i])
      BY <1>2, <1>4, <2>2 DEF GraphReadable
    <3>2. Shows(ReadField(k, mem[k].flds[i]), U, mem[k].flds[i])'
      BY <1>2, <1>4, <2>2 DEF GraphReadable, Counterpart
    <3>3. U' = T /\ (T = {} => mem'[k].flds[i] = mem[h].flds[i])
      BY <1>4, <2>2 DEF Counterpart
    <3>4. ShowsAfter(ReadField(k, mem[k].flds[i])', U', mem'[k].flds[i])
      BY <3>2 DEF Shows, ShowsAfter
    <3> HIDE DEF T, U
    <3> QED
      BY <3>1, <3>3, <3>4, SameReading
  <2> QED
    BY <1>4, <2>1, <2>2 DEF ObjectSeen, Counterpart
<1>5. GraphRoots' = GraphRoots
  BY <1>1, <1>3 DEF GraphRoots
<1>6. GraphObjects' = GraphObjects
  <2>1. /\ GraphObjects = {ObjectSeen(h) : h \in KeptHeaders}
        /\ GraphObjects' = {ObjectSeen(k)' : k \in KeptHeaders'}
    BY DEF GraphObjects, ObjectSeen
  <2> QED
    BY <1>4, <2>1 DEF GraphKept
<1> QED
  BY <1>5, <1>6 DEF SameGraph

-----------------------------------------------------------------------------
(* The steps outside compaction, and the two that begin and end it.        *)

\* A step that only sets bits, or computes a location, changes nothing it reads.
LEMMA ReadingStays ==
  ASSUME UNCHANGED <<heap, mem, slots, extra>>, ~Collecting, ~Collecting'
  PROVE  /\ GraphRoots' = GraphRoots
         /\ \A h : ObjectSeen(h)' = ObjectSeen(h)
<1>1. RootSet' = RootSet /\ \A v : ReadNow(v)' = ReadNow(v)
  BY DEF RootSet, RootOrder, ReadNow, is_valid_heap_pointer, Denoted
<1>2. \A l : ReadSlot(l) = ReadNow(slots[l]) /\ ReadSlot(l)' = ReadNow(slots[l])'
  BY DEF ReadSlot
<1>3. \A h, v : ReadField(h, v) = ReadNow(v) /\ ReadField(h, v)' = ReadNow(v)'
  BY DEF ReadField, Collecting
<1>4. GraphRoots' = GraphRoots
  BY <1>1, <1>2 DEF GraphRoots, ReadNow, Denoted, is_valid_heap_pointer
<1>5. \A h : ObjectSeen(h)' = ObjectSeen(h)
  BY <1>1, <1>3 DEF ObjectSeen
<1> QED
  BY <1>4, <1>5

\* What the program sees are the kept objects.
LEMMA GraphOfKept ==
  /\ GraphObjects = {ObjectSeen(h) : h \in KeptHeaders}
  /\ GraphObjects' = {ObjectSeen(h)' : h \in KeptHeaders'}
BY DEF GraphObjects, ObjectSeen

\* Marking.
LEMMA MarkingInvisible ==
  ASSUME CompactInvariant, MarkLoops
  PROVE  SameGraph
<1>1. /\ UNCHANGED <<heap, mem, slots, extra>>
      /\ phase \in {"roots", "drain", "fields"} /\ phase' \in {"roots", "drain", "fields"}
  BY DEF MarkLoops, SkipRoot, MarkRoot, Dequeue, EnqueueField, SkipField, FieldsDone, MarkReturns,
         heapVars
<1>2. ~Collecting /\ ~Collecting'
  BY <1>1 DEF Collecting
<1>3. KeptHeaders = DOMAIN mem /\ KeptHeaders' = DOMAIN mem
  BY <1>1 DEF KeptHeaders
<1> QED
  BY <1>1, <1>2, <1>3, ReadingStays, GraphOfKept DEF SameGraph

\* The end of marking: the objects that no root reaches are gone, and only they.
LEMMA StartLocateForgets ==
  ASSUME CompactInvariant, StartLocate
  PROVE  GraphRoots' = GraphRoots /\ GraphObjects' \subseteq GraphObjects
<1>1. /\ UNCHANGED <<heap, mem, fwd, slots, extra>>
      /\ phase = "roots" /\ phase' = "locate" /\ CompactTypeOK
  BY DEF StartLocate, MarkPhaseDone, heapVars, CompactInvariant
<1>2. ~Collecting /\ ~Collecting'
  BY <1>1 DEF Collecting
<1>3. KeptHeaders = DOMAIN mem /\ KeptHeaders' \subseteq DOMAIN mem
  BY <1>1, CompactNumbers DEF KeptHeaders, Marked
<1> QED
  BY <1>1, <1>2, <1>3, ReadingStays, GraphOfKept

LEMMA ComputeLocationInvisible ==
  ASSUME CompactInvariant, ComputeLocation
  PROVE  SameGraph
<1>1. /\ UNCHANGED <<heap, mem, slots, extra>>
      /\ phase = "locate" /\ phase' = "locate" /\ CompactTypeOK
      /\ \/ fwd' = fwd
         \/ fwd' = [fwd EXCEPT ![scan].addr = location]
  BY DEF ComputeLocation, CompactInvariant, markVars
<1>2. Marked' = Marked
  BY <1>1, ZenonT(30) DEF Marked, CompactTypeOK, HeapTypeOK, ForwardWord
<1>3. ~Collecting /\ ~Collecting' /\ KeptHeaders = Marked /\ KeptHeaders' = Marked
  BY <1>1, <1>2 DEF Collecting, KeptHeaders
<1> QED
  BY <1>1, <1>3, ReadingStays, GraphOfKept DEF SameGraph

\* mmap and memcpy: words refer to the old chunk, whose objects are copied.
LEMMA MapChunkInvisible ==
  ASSUME CompactInvariant, MapChunk
  PROVE  SameGraph
<1>0. PICK o : o = heap.begin
  OBVIOUS
<1>1. /\ phase = "locate" /\ scan >= heap.current /\ phase' = "update"
      /\ UNCHANGED <<slots, extra>>
  BY DEF MapChunk
<1>2. PICK b \in Bases :
         /\ Unused(b, next_heap_size)
         /\ heap' = [begin |-> b, size |-> next_heap_size,
                     current |-> b + (heap.current - heap.begin)]
         /\ mem' = CopiedTo(b, mem) /\ fwd' = CopiedTo(b, fwd)
         /\ scan' = b
  BY DEF MapChunk
<1> DEFINE At(g) == b + (g - o)
<1>3. Copied(b, o)
  BY <1>0, <1>2, MapChunkEffect
<1>4. HeapTypeOK /\ Tiled /\ old = heap /\ live_size \in Nat /\ Marked \subseteq DOMAIN mem
  BY <1>1, AllPlaced, CompactNumbers
<1>5. ASSUME NEW v \in ScannedWords, v \in Word, Target(v) \subseteq Marked
      PROVE  ReadOld(v)' = ReadNow(v)
  <2>1. /\ InOldHeap(v)' <=> is_valid_heap_pointer(v)
        /\ is_valid_heap_pointer(v) => InNewHeap(v)' = At(get_obj_header_ptr(v))
    <3>1. LeadsToCopy(v, b, o)
      BY <1>0, <1>2, <1>3, <1>4, <1>5, OldWordsLeadToCopies DEF Copied
    <3> QED
      BY <3>1 DEF LeadsToCopy
  <2>2. CASE is_valid_heap_pointer(v)
    <3>1. get_obj_header_ptr(v) \in DOMAIN mem
      BY <1>4, <1>5, <2>2 DEF Target
    <3>2. mem'[At(get_obj_header_ptr(v))] = mem[get_obj_header_ptr(v)]
      BY <1>3, <3>1 DEF Copied
    <3> QED
      BY <2>1, <2>2, <3>2 DEF ReadOld, ReadNow, Denoted
  <2>3. CASE ~is_valid_heap_pointer(v)
    BY <2>1, <2>3 DEF ReadOld, ReadNow
  <2> QED
    BY <2>2, <2>3
<1>6. /\ ~Collecting /\ Collecting' /\ RootSet' = RootSet
      /\ \A l : ~SlotFixed(l)'
      /\ KeptHeaders = Marked /\ KeptHeaders' = {At(g) : g \in Marked}
  BY <1>1, <1>3 DEF Collecting, RootSet, RootOrder, SlotFixed, KeptHeaders, Copied
<1>7. ASSUME NEW l \in RootSet PROVE ReadSlot(l)' = ReadSlot(l)
  <2>1. ReadOld(slots[l])' = ReadNow(slots[l])
    BY <1>1, <1>5, <1>7, ScannedWordsLeadToMarked
  <2> QED
    BY <1>6, <2>1 DEF ReadSlot
<1>8. ASSUME NEW g \in Marked PROVE ObjectSeen(At(g))' = ObjectSeen(g)
  <2>1. g \in DOMAIN mem /\ mem'[At(g)] = mem[g] /\ At(g) >= scan'
    BY <1>2, <1>3, <1>4, <1>8 DEF Copied
  <2>2. DOMAIN mem[g].flds = 1..Len(mem[g].flds)
    BY <2>1, FieldsAreSeq
  <2>3. ASSUME NEW i \in 1..Len(mem[g].flds)
        PROVE  ReadField(At(g), mem[At(g)].flds[i])' = ReadField(g, mem[g].flds[i])
    <3>1. PICK v : v = mem[g].flds[i]
      OBVIOUS
    <3>2. v \in Word /\ v \in ScannedWords /\ Target(v) \subseteq Marked
      BY <1>1, <1>8, <2>3, <3>1, ScannedWordsLeadToMarked
    <3>3. ReadOld(v)' = ReadNow(v)
      BY <1>5, <3>2
    <3>4. ReadField(g, mem[g].flds[i]) = ReadNow(v)
      BY <1>1, <3>1 DEF ReadField, Collecting
    <3>5. mem'[At(g)].flds[i] = v
      BY <2>1, <3>1
    <3>6. ReadField(At(g), mem[At(g)].flds[i])' = ReadOld(v)'
      BY <1>1, <2>1, <3>5 DEF ReadField, Collecting, ReadOld, InOldHeap, InNewHeap, Denoted
    <3> QED
      BY <3>3, <3>4, <3>6
  <2> QED
    BY <2>1, <2>2, <2>3 DEF ObjectSeen
<1>9. GraphRoots' = GraphRoots
  BY <1>6, <1>7 DEF GraphRoots
<1>10. GraphObjects' = GraphObjects
  BY <1>6, <1>8, GraphOfKept
<1> QED
  BY <1>9, <1>10 DEF SameGraph

\* The chunk is cut off behind the objects that were kept.
LEMMA FinishCompactionInvisible ==
  ASSUME CompactInvariant, FinishCompaction
  PROVE  SameGraph
<1>1. KeptAsTheyAre /\ WordsReadable /\ HeapTypeOK
  BY FinishCompactionStep DEF CompactInvariant, CompactTypeOK
<1>2. /\ phase = "relocate" /\ phase' = "collected" /\ Collecting /\ ~Collecting'
      /\ \A h \in KeptHeaders : mem'[h] = mem[h]
  BY <1>1 DEF KeptAsTheyAre, Collecting
<1>3. ASSUME NEW v \in Word, NewWord(v)
      PROVE  ReadNow(v)' = ReadNew(v)
  <2>1. CASE is_valid_heap_pointer(v)
    <3> DEFINE a == get_obj_header_ptr(v)
    <3>1. /\ is_valid_heap_pointer(v)' /\ a \in KeptHeaders
          /\ HeaderOfFinal(a) = a
      BY <1>1, <1>3, <2>1 DEF KeptAsTheyAre, HeaderOfFinal
    <3>2. ReadNew(v) = Denoted(a)
      BY <1>2, <2>1, <3>1 DEF ReadNew
    <3>3. ReadNow(v)' = <<"object", mem'[a].id>>
      BY <3>1 DEF ReadNow, Denoted
    <3> QED
      BY <1>2, <3>1, <3>2, <3>3 DEF Denoted
  <2>2. CASE ~is_valid_heap_pointer(v)
    BY <1>1, <1>3, <2>2 DEF KeptAsTheyAre, ReadNow, ReadNew
  <2> QED
    BY <2>1, <2>2
<1>4. ASSUME NEW l \in RootSet PROVE ReadSlot(l)' = ReadSlot(l)
  <2>1. PICK v : v = slots[l]
    OBVIOUS
  <2>2. v \in Word /\ NewWord(v)
    BY <1>1, <1>2, <1>4, <2>1, RootOrderIsSeq
       DEF WordsReadable, WordOK, SlotFixed, RootSet, HeapTypeOK
  <2>3. slots'[l] = v
    BY <1>1, <2>1 DEF KeptAsTheyAre
  <2>4. ReadSlot(l)' = ReadNow(v)'
    BY <1>2, <2>3 DEF ReadSlot, ReadNow, Denoted, is_valid_heap_pointer
  <2>5. ReadSlot(l) = ReadNew(v)
    BY <1>2, <2>1 DEF ReadSlot, SlotFixed
  <2> QED
    BY <1>3, <2>2, <2>4, <2>5
<1>5. ASSUME NEW h \in KeptHeaders PROVE ObjectSeen(h)' = ObjectSeen(h)
  <2>1. h \in DOMAIN mem /\ mem'[h] = mem[h] /\ mem[h].flds \in Seq(Word)
    BY <1>1, <1>2, <1>5, KeptAreObjects DEF HeapTypeOK, ObjectOK, Object
  <2>2. ASSUME NEW i \in 1..Len(mem[h].flds)
        PROVE  ReadField(h, mem[h].flds[i])' = ReadField(h, mem[h].flds[i])
    <3>1. PICK v : v = mem[h].flds[i]
      OBVIOUS
    <3>2. v \in Word /\ NewWord(v)
      BY <1>1, <1>2, <1>5, <2>1, <2>2, <3>1 DEF WordsReadable, WordOK, FieldsFixed
    <3>3. mem'[h].flds[i] = v
      BY <2>1, <3>1
    <3>4. ReadField(h, mem[h].flds[i])' = ReadNow(v)'
      BY <1>2, <3>3 DEF ReadField, Collecting, ReadNow, Denoted, is_valid_heap_pointer
    <3>5. ReadField(h, mem[h].flds[i]) = ReadNew(v)
      BY <1>2, <3>1 DEF ReadField, Collecting
    <3> QED
      BY <1>3, <3>2, <3>4, <3>5
  <2>3. DOMAIN mem[h].flds = 1..Len(mem[h].flds)
    BY <2>1
  <2> QED
    BY <2>1, <2>2, <2>3 DEF ObjectSeen
<1>6. GraphRoots' = GraphRoots
  BY <1>1, <1>4 DEF GraphRoots, KeptAsTheyAre
<1>7. GraphObjects' = GraphObjects
  BY <1>1, <1>5, GraphOfKept DEF KeptAsTheyAre
<1> QED
  BY <1>6, <1>7 DEF SameGraph

\* Nothing happens.
LEMMA StutterInvisible ==
  ASSUME CompactInvariant, CompactInvariant', UNCHANGED gcVars
  PROVE  SameGraph
<1>1. /\ UNCHANGED <<heap, mem, fwd, slots, extra, phase>>
  BY DEF gcVars, heapVars, markVars
<1>2. CASE Collecting
  BY <1>2, CompactStutter, GraphKeptShowsSame
<1>3. CASE ~Collecting
  <2>1. ~Collecting' /\ phase # "relocate"
    BY <1>1, <1>3 DEF Collecting
  <2>2. KeptHeaders' = KeptHeaders
    BY <1>1, <2>1 DEF KeptHeaders, Marked
  <2> QED
    BY <1>1, <1>3, <2>1, <2>2, ReadingStays, GraphOfKept DEF SameGraph
<1> QED
  BY <1>2, <1>3

-----------------------------------------------------------------------------
\* What a step of the collector may do to what the program sees.
Invisible ==
  /\ GraphRoots' = GraphRoots
  /\ GraphObjects' \subseteq GraphObjects
  /\ phase' # "locate" => GraphObjects' = GraphObjects

LEMMA CollectStepInvisible ==
  CompactInvariant /\ CompactInvariant' /\ [CollectNext]_gcVars => Invisible
<1> SUFFICES ASSUME CompactInvariant, CompactInvariant', [CollectNext]_gcVars PROVE Invisible
  OBVIOUS
<1>1. SameGraph => Invisible
  BY DEF SameGraph, Invisible
<1>2. CASE MarkLoops
  BY <1>1, <1>2, MarkingInvisible
<1>3. CASE StartLocate
  <2>1. phase' = "locate"
    BY <1>3 DEF StartLocate, MarkPhaseDone
  <2> QED
    BY <1>3, <2>1, StartLocateForgets DEF Invisible
<1>4. CASE ComputeLocation
  BY <1>1, <1>4, ComputeLocationInvisible
<1>5. CASE MapChunk
  BY <1>1, <1>5, MapChunkInvisible
<1>6. CASE UpdateObject \/ UpdateObjectsDone \/ FixRoot \/ FixRootsDone \/ RelocateObject
  <2>1. GraphKept
    BY <1>6, UpdateObjectStep, UpdateObjectsDoneStep, FixRootStep, FixRootsDoneStep,
       DeadObjectStep, LiveObjectStep
  <2> QED
    BY <1>1, <2>1, GraphKeptShowsSame
<1>7. CASE FinishCompaction
  BY <1>1, <1>7, FinishCompactionInvisible
<1>8. CASE UNCHANGED gcVars
  BY <1>1, <1>8, StutterInvisible
<1> QED
  BY <1>2, <1>3, <1>4, <1>5, <1>6, <1>7, <1>8 DEF CollectNext, CompactNext

\* The roots and the live objects are, after every step of a collection, what they
\* were before it, whatever chunk mmap returns. A collection starts, in CollectInit,
\* with no object in a registered word at __gc_stack_top or __stop_custom_data
\* (EdgesHoldNoObject): such a word is skipped and no scan fixes it.
THEOREM CollectionCannotBeSeen == CollectSpec => CollectionInvisible
<1>1. CollectSpec => [][Invisible]_gcVars
  BY CompactInvariantHolds, CollectStepInvisible, PTL DEF CollectSpec
<1> QED
  BY <1>1 DEF CollectionInvisible, Invisible
=============================================================================
