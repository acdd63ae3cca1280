---------------------------- MODULE LamaGC_proofs ----------------------------
(***************************************************************************)
(* Proofs about LamaGC: the program, the constructors and the collector    *)
(* together, for programs of any size whose variables are all roots.       *)
(* GCInvariant is inductive; the collector's part of it is CompactInvariant*)
(* and what it says of the program's values is carried through a           *)
(* collection by CollectionCannotBeSeen.                                   *)
(***************************************************************************)
EXTENDS LamaGC, LamaCompact_proofs

-----------------------------------------------------------------------------
(* Lemmas about the state.                                                 *)

\* A word that the program may hold, and the slots and fields that hold one.
Held(v) == is_valid_heap_pointer(v) \/ v \in Unboxed

SlotsHeld  == \A l \in ProgramLoc \cup ArgsInUse : Held(slots[l])
FieldsHeld ==
  \A h \in DOMAIN mem \ Unfinished : \A i \in 1..Len(mem[h].flds) : Held(mem[h].flds[i])

\* All objects are there and words are read as they are: a collection has not yet
\* marked the live ones, or is over.
Whole == phase \notin {"locate", "update", "fixroots", "relocate"}

\* There a value is a word that is held.
LEMMA ValuesWhileWhole == Whole => (ValuesHeld <=> SlotsHeld /\ FieldsHeld)
<1> SUFFICES ASSUME Whole PROVE ValuesHeld <=> SlotsHeld /\ FieldsHeld
  OBVIOUS
<1>1. ASSUME NEW v PROVE IsValue(ReadNow(v)) <=> Held(v)
  <2>1. CASE is_valid_heap_pointer(v)
    BY <2>1 DEF ReadNow, Denoted, IsValue, Held
  <2>2. CASE ~is_valid_heap_pointer(v)
    BY <2>2 DEF ReadNow, IsValue, Held
  <2> QED
    BY <2>1, <2>2
<1>2. ~Collecting /\ KeptHeaders = DOMAIN mem
  BY DEF Whole, Collecting, KeptHeaders
<1>3. /\ \A l : ReadSlot(l) = ReadNow(slots[l])
      /\ \A h, v : ReadField(h, v) = ReadNow(v)
  BY <1>2 DEF ReadSlot, ReadField, Collecting
<1> QED
  BY <1>1, <1>2, <1>3 DEF ValuesHeld, SlotsHeld, FieldsHeld

LEMMA ValuesWhileWholeAfterStep == (Whole => (ValuesHeld <=> SlotsHeld /\ FieldsHeld))'
BY ValuesWhileWhole, PTL

\* No collection is going on.
Resting == Outside \/ phase = "collected"

LEMMA ValuesAtRest == Resting => (ValuesHeld <=> SlotsHeld /\ FieldsHeld)
BY ValuesWhileWhole DEF Resting, Outside, Whole

LEMMA ValuesAtRestAfterStep == (Resting => (ValuesHeld <=> SlotsHeld /\ FieldsHeld))'
BY ValuesAtRest, PTL

\* The arguments of the constructor that runs.
LEMMA ArgumentsFit ==
  ASSUME CallInOrder
  PROVE  /\ ArgCount \in Nat /\ ArgCount <= Len(ArgLoc)
         /\ Len(ArgLoc) \in Nat
         /\ \A i \in 1..ArgCount : ArgLoc[i] \in Loc \ (ProgramLoc \cup {StackBottom})
         /\ ArgsInUse \subseteq Loc \ (ProgramLoc \cup {StackBottom})
<1>1. /\ Len(ArgLoc) \in Nat
      /\ \A i \in 1..Len(ArgLoc) : ArgLoc[i] \in Loc \ (ProgramLoc \cup {StackBottom})
  BY GCAssumption
<1>2. ASSUME NEW sh \in Shapes
      PROVE  num_fields(sh.kind, sh.len) \in Nat /\ num_fields(sh.kind, sh.len) <= Len(ArgLoc)
  BY GCAssumption DEF num_fields
<1>3. ArgCount \in Nat /\ ArgCount <= Len(ArgLoc)
  BY <1>1, <1>2 DEF CallInOrder, ArgCount
<1> QED
  BY <1>1, <1>3 DEF ArgsInUse

\* What the program holds is in words that the collector scans.
LEMMA HeldAreRoots ==
  ASSUME HeapTypeOK, VariablesAreRoots, CallInOrder
  PROVE  ProgramLoc \cup ArgsInUse \subseteq RootSet
<1> DEFINE args == SubSeq(ArgLoc, 1, ArgCount)
<1>1. /\ ArgCount \in Nat /\ ArgCount <= Len(ArgLoc)
      /\ \A i \in 1..ArgCount : ArgLoc[i] \in Loc
  BY ArgumentsFit
<1>2. args \in Seq(Loc) /\ Len(args) = ArgCount /\ \A i \in 1..ArgCount : args[i] = ArgLoc[i]
  BY <1>1, GCAssumption
<1>3. PermanentRoots \in Seq(Loc)
  BY GCAssumption
<1>4. extra = PermanentRoots \o args
  BY DEF CallInOrder
<1> HIDE DEF args
<1>5. /\ Len(extra) = Len(PermanentRoots) + ArgCount
      /\ \A i \in 1..Len(PermanentRoots) : extra[i] = PermanentRoots[i]
      /\ \A i \in 1..ArgCount, k \in Nat : k = Len(PermanentRoots) + i => extra[k] = args[i]
  <2>1. LET c == PermanentRoots \o args
        IN  /\ Len(c) = Len(PermanentRoots) + Len(args)
            /\ \A i \in 1..Len(PermanentRoots) : c[i] = PermanentRoots[i]
            /\ \A i \in 1..Len(args), k \in Nat : k = Len(PermanentRoots) + i => c[k] = args[i]
    BY <1>2, <1>3, ConcatAt
  <2> QED
    BY <1>2, <1>4, <2>1
<1> DEFINE s == Len(StackArea)
           p == Len(PermanentRoots)
           x == Len(extra)
           g == Len(GlobalArea)
<1>6. s \in Nat /\ x \in Nat /\ g \in Nat /\ p \in Nat
  BY HeapAssumption, <1>3 DEF HeapTypeOK
<1>7. /\ Len(RootOrder) = s + x + g
      /\ \A i \in 1..s : RootOrder[i] = StackArea[i]
      /\ \A i \in 1..x : RootOrder[s + i] = extra[i]
      /\ \A i \in 1..g : RootOrder[s + x + i] = GlobalArea[i]
  BY RootAt
<1>8. /\ \A i \in 1..s : StackArea[i] \in RootSet
      /\ \A i \in 1..x : extra[i] \in RootSet
      /\ \A i \in 1..g : GlobalArea[i] \in RootSet
  <2> HIDE DEF s, x, g
  <2>1. \A i \in 1..s + x + g : RootOrder[i] \in RootSet
    BY <1>7 DEF RootSet
  <2>2. /\ \A i \in 1..s : i \in 1..s + x + g
        /\ \A i \in 1..x : s + i \in 1..s + x + g
        /\ \A i \in 1..g : s + x + i \in 1..s + x + g
    BY <1>6
  <2> QED
    BY <1>7, <2>1, <2>2
<1>9. ASSUME NEW l \in ProgramLoc PROVE l \in RootSet
  <2>1. ASSUME NEW i \in 1..p PROVE PermanentRoots[i] \in RootSet
    BY <1>1, <1>5, <1>6, <1>8, <2>1
  <2> QED
    BY <1>8, <2>1 DEF VariablesAreRoots
<1>10. ASSUME NEW i \in 1..ArgCount PROVE ArgLoc[i] \in RootSet
  <2>1. p + i \in 1..x /\ p + i \in Nat
    BY <1>1, <1>5, <1>6
  <2>2. extra[p + i] = ArgLoc[i]
    BY <1>2, <1>5, <2>1
  <2> QED
    BY <1>8, <2>1, <2>2
<1> QED
  BY <1>9, <1>10 DEF ArgsInUse

\* None of the registered words is one that the collector skips without fixing it.
LEMMA NoRootAtEdge == CallInOrder => EdgeRoots = {}
<1> SUFFICES ASSUME CallInOrder PROVE EdgeRoots = {}
  OBVIOUS
<1> DEFINE args == SubSeq(ArgLoc, 1, ArgCount)
<1>1. /\ ArgCount \in Nat /\ ArgCount <= Len(ArgLoc)
      /\ \A i \in 1..ArgCount : ArgLoc[i] \in Loc
  BY ArgumentsFit
<1>2. args \in Seq(Loc) /\ Len(args) = ArgCount /\ \A i \in 1..ArgCount : args[i] = ArgLoc[i]
  BY <1>1, GCAssumption
<1>3. PermanentRoots \in Seq(Loc) /\ extra = PermanentRoots \o args
  BY GCAssumption DEF CallInOrder
<1>4. /\ \A i \in 1..Len(args) : args[i] \notin {StackTop, GlobalStop}
      /\ \A i \in 1..Len(PermanentRoots) : PermanentRoots[i] \notin {StackTop, GlobalStop}
  BY <1>1, <1>2, GCAssumption
<1> HIDE DEF args
<1>5. \A i \in 1..Len(extra) :
        \/ i \in 1..Len(PermanentRoots) /\ extra[i] = PermanentRoots[i]
        \/ \E k \in 1..Len(args) : extra[i] = args[k]
  BY <1>2, <1>3
<1> QED
  BY <1>4, <1>5 DEF EdgeRoots

\* When every word is sound, the roots are.
LEMMA RootsFromSlots ==
  HeapTypeOK /\ (\A l \in Loc : SoundWord(slots[l])) => RootsSound
<1> SUFFICES ASSUME HeapTypeOK, \A l \in Loc : SoundWord(slots[l]) PROVE RootsSound
  OBVIOUS
<1>1. \A i \in 1..Len(RootOrder) : RootOrder[i] \in Loc
  BY RootOrderIsSeq
<1> QED
  BY <1>1 DEF RootsSound

LEMMA RootsFromSlotsAfterStep ==
  (HeapTypeOK /\ (\A l \in Loc : SoundWord(slots[l])) => RootsSound)'
BY RootsFromSlots, PTL

\* What the invariant says of the heap at rest.
RestingHeap ==
  /\ HeapTypeOK /\ Tiled /\ AtRest
  /\ \A l \in Loc : SoundWord(slots[l])
  /\ \A h \in DOMAIN mem \ Unfinished : \A i \in 1..Len(mem[h].flds) :
       SoundWord(mem[h].flds[i])
  /\ SlotsHeld /\ FieldsHeld

LEMMA HeapAtRest ==
  ASSUME GCInvariant, Resting
  PROVE  RestingHeap
<1>1. HeapTypeOK /\ VariablesAreRoots /\ CallInOrder /\ NowhereApart /\ ValuesHeld
  BY DEF GCInvariant, GCTypeOK
<1>2. /\ Tiled /\ AtRest /\ RootsSound
      /\ \A h \in DOMAIN mem \ Unfinished : \A i \in 1..Len(mem[h].flds) :
           SoundWord(mem[h].flds[i])
  <2>1. CASE Outside
    BY <2>1 DEF GCInvariant, HeapReady
  <2>2. CASE phase = "collected"
    BY <2>2 DEF GCInvariant, Outside, CompactInvariant, CompactedInOrder, FieldsSound
  <2> QED
    BY <2>1, <2>2 DEF Resting
<1>3. /\ heap \in [begin : Nat, size : Nat, current : Nat] /\ heap.current <= heap_end
      /\ ~is_valid_heap_pointer(Nowhere)
  BY <1>1, <1>2, GCAssumption DEF NowhereApart, is_valid_heap_pointer, heap_end, HeapTypeOK, Tiled
<1>4. \A l \in RootSet : SoundWord(slots[l])
  BY <1>2 DEF RootSet, RootsSound
<1>5. \A l \in ProgramLoc \cup ArgsInUse : SoundWord(slots[l])
  BY <1>1, <1>4, HeldAreRoots
<1>6. \A l \in Loc : SoundWord(slots[l])
  BY <1>1, <1>3, <1>5 DEF NowhereApart, SoundWord
<1>7. SlotsHeld /\ FieldsHeld
  BY <1>1, ValuesAtRest
<1> QED
  BY <1>1, <1>2, <1>6, <1>7 DEF RestingHeap

-----------------------------------------------------------------------------
(* GCInvariant is inductive: one lemma per action.                         *)

\* A program starts with an empty chunk and unboxed values.
LEMMA GCInvariantInitially == GCInit /\ VariablesAreRoots => GCInvariant
<1> SUFFICES ASSUME GCInit, VariablesAreRoots PROVE GCInvariant
  OBVIOUS
<1>1. /\ phase = "idle" /\ call = NoCall /\ Outside /\ Resting
      /\ heap = [begin |-> FirstBase, size |-> INIT_HEAP_SIZE, current |-> FirstBase]
      /\ mem = << >> /\ fwd = << >> /\ DOMAIN mem = {} /\ DOMAIN fwd = {}
      /\ slots = [l \in Loc |-> IF l \in ProgramLoc THEN BoxedZero ELSE Nowhere]
      /\ extra = PermanentRoots /\ need = 0
  BY DEF GCInit, Outside, Resting
<1>2. HeapTypeOK
  BY <1>1, GCAssumption DEF HeapTypeOK, Word
<1>3. GCTypeOK
  BY <1>1, <1>2 DEF GCTypeOK
<1>4. ArgCount = 0 /\ ArgsInUse = {} /\ Unfinished = {}
  BY <1>1 DEF ArgCount, ArgsInUse, Unfinished
<1>5. CallInOrder
  <2>1. SubSeq(ArgLoc, 1, 0) = << >> /\ PermanentRoots \o << >> = PermanentRoots
    BY GCAssumption
  <2> QED
    BY <1>1, <1>4, <2>1 DEF CallInOrder
<1>6. NowhereApart
  BY <1>1, <1>4, GCAssumption DEF NowhereApart, heap_end, Collecting
<1>7. \A l \in Loc : SoundWord(slots[l])
  <2>1. ~is_valid_heap_pointer(Nowhere) /\ ~is_valid_heap_pointer(BoxedZero)
    BY <1>1, GCAssumption DEF is_valid_heap_pointer, is_valid_pointer
  <2> QED
    BY <1>1, <2>1 DEF SoundWord
<1>8. HeapReady
  <2>1. Tiled /\ AtRest
    BY <1>1, GCAssumption DEF Tiled, AtRest, heap_end
  <2>2. RootsSound
    BY <1>2, <1>7, RootsFromSlots
  <2> QED
    BY <1>1, <1>4, <2>1, <2>2 DEF HeapReady, GCInit
<1>9. ValuesHeld
  <2>1. SlotsHeld /\ FieldsHeld
    BY <1>1, <1>4, GCAssumption DEF SlotsHeld, FieldsHeld, Held
  <2> QED
    BY <1>1, <2>1, ValuesAtRest
<1> QED
  BY <1>1, <1>3, <1>5, <1>6, <1>8, <1>9 DEF GCInvariant

\* A variable gets a value.
LEMMA SlotStep ==
  ASSUME GCInvariant, Idle, NEW d \in ProgramLoc, NEW v \in Word, Held(v), SoundWord(v),
         slots' = [slots EXCEPT ![d] = v],
         UNCHANGED <<heap, mem, fwd, extra, controlVars>>
  PROVE  GCInvariant'
<1>1. /\ phase = "idle" /\ phase' = "idle" /\ Outside /\ Outside' /\ Resting /\ Resting'
      /\ UNCHANGED <<heap, mem, fwd, extra, call, need, cur, root, fld, qHead, qTail,
                     scan, freePtr, old>>
      /\ ~Collecting'
  BY DEF Idle, Outside, Resting, controlVars, markVars, compactVars, Collecting
<1>2. RestingHeap /\ HeapReady /\ CallInOrder /\ NowhereApart /\ GCTypeOK /\ VariablesAreRoots
  BY <1>1, HeapAtRest DEF GCInvariant
<1>3. d \in Loc /\ slots \in [Loc -> Word] /\ HeapTypeOK
  BY <1>2, GCAssumption DEF RestingHeap, HeapTypeOK
<1>4. HeapTypeOK'
  BY <1>1, <1>3 DEF HeapTypeOK, ObjectOK
<1>5. GCTypeOK'
  BY <1>1, <1>2, <1>4 DEF GCTypeOK
<1>6. /\ ArgCount' = ArgCount /\ ArgsInUse' = ArgsInUse /\ Unfinished' = Unfinished
      /\ \A w : SoundWord(w)' <=> SoundWord(w)
      /\ \A w : Held(w)' <=> Held(w)
      /\ Tiled' /\ AtRest'
  BY <1>1, <1>2
     DEF ArgCount, ArgsInUse, Unfinished, SoundWord, Held, is_valid_heap_pointer, RestingHeap,
         Tiled, AtRest, heap_end, heap_next_obj_iterator, size_at
<1>7. CallInOrder'
  BY <1>1, <1>2, <1>6 DEF CallInOrder
<1>8. \A l \in Loc : SoundWord(slots[l])'
  BY <1>2, <1>3, <1>6 DEF RestingHeap
<1>9. RootsSound'
  BY <1>4, <1>8, RootsFromSlotsAfterStep
<1>10. HeapReady'
  BY <1>1, <1>2, <1>6, <1>9 DEF HeapReady
<1>11. NowhereApart'
  BY <1>1, <1>2, <1>3, <1>6 DEF NowhereApart, heap_end
<1>12. SlotsHeld' /\ FieldsHeld'
  BY <1>1, <1>2, <1>3, <1>6, GCAssumption DEF RestingHeap, SlotsHeld, FieldsHeld, ArgsInUse
<1>13. ValuesHeld'
  BY <1>1, <1>12, ValuesAtRestAfterStep
<1> QED
  BY <1>1, <1>2, <1>5, <1>7, <1>10, <1>11, <1>13 DEF GCInvariant, VariablesAreRoots

\* The words in the variables and in the objects that they hold.
LEMMA HeldWords ==
  ASSUME GCInvariant, Idle
  PROVE  /\ \A l \in ProgramLoc :
              /\ slots[l] \in Word /\ Held(slots[l]) /\ SoundWord(slots[l])
              /\ HoldsObject(l) => ContentOf(l) \in DOMAIN mem
         /\ \A h \in DOMAIN mem : \A i \in 1..Len(mem[h].flds) :
              mem[h].flds[i] \in Word /\ Held(mem[h].flds[i]) /\ SoundWord(mem[h].flds[i])
<1>1. RestingHeap /\ Unfinished = {}
  BY HeapAtRest DEF Idle, Outside, Resting, Unfinished
<1>2. ASSUME NEW l \in ProgramLoc
      PROVE  /\ slots[l] \in Word /\ Held(slots[l]) /\ SoundWord(slots[l])
             /\ HoldsObject(l) => ContentOf(l) \in DOMAIN mem
  <2>1. slots[l] \in Word /\ Held(slots[l]) /\ SoundWord(slots[l])
    BY <1>1, GCAssumption DEF RestingHeap, HeapTypeOK, SlotsHeld
  <2> QED
    BY <2>1 DEF HoldsObject, ContentOf, SoundWord
<1>3. \A h \in DOMAIN mem : mem[h].flds \in Seq(Word)
  BY <1>1 DEF RestingHeap, HeapTypeOK, ObjectOK, Object
<1>4. \A h \in DOMAIN mem : \A i \in 1..Len(mem[h].flds) :
        mem[h].flds[i] \in Word /\ Held(mem[h].flds[i]) /\ SoundWord(mem[h].flds[i])
  BY <1>1, <1>3 DEF RestingHeap, FieldsHeld
<1> QED
  BY <1>2, <1>4

LEMMA AssignStep ==
  ASSUME GCInvariant, Assign
  PROVE  GCInvariant'
<1>1. PICK d \in ProgramLoc, v \in {BoxedZero} \cup {slots[l] : l \in ProgramLoc} :
        slots' = [slots EXCEPT ![d] = v]
  BY DEF Assign
<1>2. Idle /\ UNCHANGED <<heap, mem, fwd, extra, controlVars>>
  BY DEF Assign
<1>3. v \in Word /\ Held(v) /\ SoundWord(v)
  <2>1. CASE v = BoxedZero
    BY <2>1, GCAssumption DEF Word, Held, SoundWord, is_valid_heap_pointer, is_valid_pointer
  <2>2. CASE v # BoxedZero
    BY <1>1, <1>2, <2>2, HeldWords
  <2> QED
    BY <2>1, <2>2
<1> QED
  BY <1>1, <1>2, <1>3, SlotStep

LEMMA BelemStep ==
  ASSUME GCInvariant, Belem
  PROVE  GCInvariant'
<1>1. PICK d \in ProgramLoc, o \in ProgramLoc :
         /\ HoldsObject(o)
         /\ \E i \in 1..Len(mem[ContentOf(o)].flds) :
              slots' = [slots EXCEPT ![d] = mem[ContentOf(o)].flds[i]]
  BY DEF Belem
<1>2. PICK i, v :
         i \in 1..Len(mem[ContentOf(o)].flds) /\ v = mem[ContentOf(o)].flds[i] /\ slots' = [slots EXCEPT ![d] = v]
  BY <1>1
<1>3. Idle /\ UNCHANGED <<heap, mem, fwd, extra, controlVars>>
  BY DEF Belem
<1>4. v \in Word /\ Held(v) /\ SoundWord(v)
  BY <1>1, <1>2, <1>3, HeldWords
<1> QED
  BY <1>2, <1>3, <1>4, SlotStep

\* A field gets the value of a variable.
LEMMA BstaStep ==
  ASSUME GCInvariant, Bsta
  PROVE  GCInvariant'
<1>1. /\ phase = "idle" /\ phase' = "idle" /\ Idle
      /\ Outside /\ Outside' /\ Resting /\ Resting' /\ ~Collecting'
      /\ UNCHANGED <<heap, fwd, slots, extra, call, need, cur, root, fld, qHead, qTail,
                     scan, freePtr, old>>
  BY DEF Bsta, Idle, Outside, Resting, controlVars, markVars, compactVars, Collecting
<1>2. PICK o \in ProgramLoc, v \in ProgramLoc :
         /\ HoldsObject(o)
         /\ \E i \in 1..Len(mem[ContentOf(o)].flds) :
              mem' = [mem EXCEPT ![ContentOf(o)].flds[i] = slots[v]]
  BY DEF Bsta
<1>3. PICK h, w, i :
         /\ h = ContentOf(o) /\ w = slots[v] /\ i \in 1..Len(mem[h].flds)
         /\ mem' = [mem EXCEPT ![h].flds[i] = w]
  BY <1>2
<1>4. h \in DOMAIN mem /\ w \in Word /\ Held(w) /\ SoundWord(w)
  BY <1>1, <1>2, <1>3, HeldWords
<1>5. RestingHeap /\ HeapReady /\ CallInOrder /\ NowhereApart /\ GCTypeOK /\ VariablesAreRoots
  BY <1>1, HeapAtRest DEF GCInvariant
<1>6. /\ HeapTypeOK /\ mem[h] \in Object /\ mem[h].flds \in Seq(Word)
      /\ Len(mem[h].flds) = num_fields(mem[h].kind, mem[h].len)
  BY <1>4, <1>5 DEF RestingHeap, HeapTypeOK, ObjectOK, Object
<1>7. /\ DOMAIN mem' = DOMAIN mem
      /\ \A g \in DOMAIN mem : g # h => mem'[g] = mem[g]
      /\ mem'[h] = [mem[h] EXCEPT !.flds[i] = w]
  BY <1>3, <1>4
<1>8. /\ mem'[h].kind = mem[h].kind /\ mem'[h].len = mem[h].len /\ mem'[h].id = mem[h].id
      /\ Len(mem'[h].flds) = Len(mem[h].flds)
      /\ mem'[h] \in Object
      /\ \A k \in 1..Len(mem[h].flds) : mem'[h].flds[k] = IF k = i THEN w ELSE mem[h].flds[k]
  <2> DEFINE f == [mem[h].flds EXCEPT ![i] = w]
  <2>1. mem'[h] = [mem[h] EXCEPT !.flds = f]
    BY <1>7
  <2>2. f \in Seq(Word) /\ Len(f) = Len(mem[h].flds)
    BY <1>3, <1>4, <1>6
  <2>3. \A k \in 1..Len(mem[h].flds) : f[k] = IF k = i THEN w ELSE mem[h].flds[k]
    BY <1>6
  <2> HIDE DEF f
  <2>4. mem'[h].flds = f /\ mem'[h] \in Object
    BY <1>6, <2>1, <2>2 DEF Object
  <2> QED
    BY <1>6, <2>1, <2>2, <2>3, <2>4 DEF Object
<1>9. HeapTypeOK'
  <2>1. ASSUME NEW g \in DOMAIN mem PROVE ObjectOK(mem'[g])
    <3>1. ObjectOK(mem[g]) /\ ObjectOK(mem[h])
      BY <1>4, <1>6 DEF HeapTypeOK
    <3>2. CASE g = h
      BY <1>8, <3>1, <3>2 DEF ObjectOK
    <3>3. CASE g # h
      BY <1>7, <3>1, <3>3
    <3> QED
      BY <3>2, <3>3
  <2>2. \A g \in DOMAIN mem' : ObjectOK(mem[g])'
    BY <1>7, <2>1 DEF ObjectOK
  <2> QED
    BY <1>1, <1>6, <1>7, <2>2 DEF HeapTypeOK
<1>10. /\ ArgCount' = ArgCount /\ ArgsInUse' = ArgsInUse /\ Unfinished' = Unfinished
       /\ Unfinished = {}
       /\ \A x : SoundWord(x)' <=> SoundWord(x)
       /\ \A x : Held(x)' <=> Held(x)
  BY <1>1, <1>7
     DEF ArgCount, ArgsInUse, Unfinished, SoundWord, Held, is_valid_heap_pointer
<1>11. Tiled' /\ AtRest'
  <2>1. \A g \in DOMAIN mem : heap_next_obj_iterator(g)' = heap_next_obj_iterator(g)
    BY <1>7, <1>8 DEF heap_next_obj_iterator, size_at
  <2> QED
    BY <1>1, <1>5, <1>7, <2>1 DEF RestingHeap, Tiled, AtRest, heap_end
<1>12. GCTypeOK' /\ CallInOrder' /\ NowhereApart'
  BY <1>1, <1>5, <1>9, <1>10 DEF GCTypeOK, CallInOrder, NowhereApart, heap_end
<1>13. RootsSound'
  BY <1>1, <1>5, <1>9, <1>10, RootsFromSlotsAfterStep DEF RestingHeap
<1>14. \A g \in DOMAIN mem' : \A k \in 1..Len(mem'[g].flds) :
         SoundWord(mem[g].flds[k])' /\ Held(mem[g].flds[k])'
  BY <1>1, <1>4, <1>7, <1>8, <1>10, HeldWords, ZenonT(30)
<1>15. HeapReady'
  BY <1>1, <1>5, <1>10, <1>11, <1>13, <1>14 DEF HeapReady
<1>16. ValuesHeld'
  <2>1. SlotsHeld' /\ FieldsHeld'
    BY <1>1, <1>5, <1>10, <1>14 DEF RestingHeap, SlotsHeld, FieldsHeld
  <2> QED
    BY <1>1, <2>1, ValuesAtRestAfterStep
<1> QED
  BY <1>1, <1>5, <1>12, <1>15, <1>16 DEF GCInvariant, VariablesAreRoots

\* What the program passes to a constructor.
LEMMA ArgumentsPassed ==
  ASSUME NEW n \in Nat, NEW from \in {<< >>} \cup [1..n -> ProgramLoc]
  PROVE  Len(from) \in {0, n} /\ \A i \in 1..Len(from) : from[i] \in ProgramLoc
<1>1. CASE from = << >>
  BY <1>1
<1>2. CASE from \in [1..n -> ProgramLoc]
  <2>1. from \in Seq(ProgramLoc) /\ Len(from) = n
    BY <1>2
  <2> QED
    BY <1>2, <2>1
<1> QED
  BY <1>1, <1>2

\* A constructor is called: its arguments become roots.
LEMMA CallConstructorStep ==
  ASSUME GCInvariant, CallConstructor
  PROVE  GCInvariant'
<1>1. /\ phase = "idle" /\ phase' = "alloc" /\ Idle
      /\ Outside /\ Outside' /\ Resting /\ Resting' /\ ~Collecting'
      /\ UNCHANGED <<heap, mem, fwd, cur, root, fld, qHead, qTail, scan, freePtr, old>>
  BY DEF CallConstructor, Idle, Outside, Resting, Collecting
<1>2. PICK sh, d, n, from :
         /\ sh \in Shapes /\ d \in ProgramLoc
         /\ n = num_fields(sh.kind, sh.len)
         /\ from \in {<< >>} \cup [1..n -> ProgramLoc]
         /\ slots' = [l \in Loc |->
                        IF \E i \in 1..Len(from) : ArgLoc[i] = l
                        THEN slots[from[CHOOSE i \in 1..Len(from) : ArgLoc[i] = l]]
                        ELSE slots[l]]
         /\ extra' = extra \o SubSeq(ArgLoc, 1, Len(from))
         /\ call' = [kind |-> sh.kind, len |-> sh.len, nargs |-> Len(from), dst |-> d]
         /\ need' = obj_words(sh.kind, sh.len)
  BY DEF CallConstructor
<1>3. PICK m : m = Len(from)
  OBVIOUS
<1>4. /\ n \in Nat /\ n <= Len(ArgLoc) /\ Len(ArgLoc) \in Nat
      /\ sh.kind \in Kinds /\ sh.len \in Nat
  BY <1>2, GCAssumption DEF num_fields
<1>5. m \in {0, n} /\ \A i \in 1..m : from[i] \in ProgramLoc
  BY <1>2, <1>3, <1>4, ArgumentsPassed
<1>6. /\ m \in Nat /\ m <= Len(ArgLoc)
      /\ \A i \in 1..m : ArgLoc[i] \in Loc \ (ProgramLoc \cup {StackBottom})
  BY <1>4, <1>5, GCAssumption
<1>7. RestingHeap /\ HeapReady /\ CallInOrder /\ NowhereApart /\ GCTypeOK /\ VariablesAreRoots
  BY <1>1, HeapAtRest DEF GCInvariant
<1>8. /\ call = NoCall /\ ArgCount = 0 /\ ArgsInUse = {} /\ Unfinished = {}
      /\ extra = PermanentRoots /\ slots \in [Loc -> Word]
  <2>1. SubSeq(ArgLoc, 1, 0) = << >> /\ PermanentRoots \o << >> = PermanentRoots
    BY GCAssumption
  <2> QED
    BY <1>1, <1>7, <2>1
       DEF CallInOrder, ArgCount, ArgsInUse, Unfinished, RestingHeap, HeapTypeOK
<1>9. /\ call'.kind = sh.kind /\ call'.len = sh.len /\ call'.nargs = m /\ call'.dst = d
      /\ call' # NoCall
  <2>1. call'.kind = sh.kind /\ call'.len = sh.len /\ call'.nargs = m /\ call'.dst = d
    BY <1>2, <1>3
  <2>2. NoCall.kind = "none" /\ sh.kind # "none"
    BY <1>4 DEF NoCall, Kinds
  <2> QED
    BY <2>1, <2>2
<1>10. ArgCount' = m /\ ArgsInUse' = {ArgLoc[i] : i \in 1..m} /\ Unfinished' = {}
  BY <1>1, <1>9 DEF ArgCount, ArgsInUse, Unfinished
<1>11. ASSUME NEW l \in Loc
       PROVE  /\ l \in ArgsInUse' => \E j \in 1..m : slots'[l] = slots[from[j]]
              /\ l \notin ArgsInUse' => slots'[l] = slots[l]
  <2>1. CASE \E i \in 1..m : ArgLoc[i] = l
    <3>1. PICK j : j = CHOOSE i \in 1..m : ArgLoc[i] = l
      OBVIOUS
    <3>2. j \in 1..m /\ ArgLoc[j] = l
      BY <2>1, <3>1
    <3>3. slots'[l] = slots[from[j]]
      BY <1>2, <1>3, <2>1, <3>1
    <3> QED
      BY <1>10, <3>2, <3>3
  <2>2. CASE ~\E i \in 1..m : ArgLoc[i] = l
    BY <1>2, <1>3, <1>10, <2>2
  <2> QED
    BY <2>1, <2>2
<1>12. ASSUME NEW j \in 1..m
       PROVE  slots[from[j]] \in Word /\ Held(slots[from[j]]) /\ SoundWord(slots[from[j]])
  BY <1>1, <1>5, HeldWords
<1>13. slots' \in [Loc -> Word]
  <2>1. \A l \in Loc : slots'[l] \in Word
    BY <1>8, <1>11, <1>12
  <2> QED
    BY <1>2, <2>1
<1>14. extra' = PermanentRoots \o SubSeq(ArgLoc, 1, m) /\ extra' \in Seq(Loc)
  <2>1. ArgLoc \in Seq(Loc)
    BY GCAssumption
  <2>2. SubSeq(ArgLoc, 1, m) \in Seq(Loc)
    BY <1>6, <2>1
  <2> QED
    BY <1>2, <1>3, <1>8, <2>2, GCAssumption
<1>15. HeapTypeOK'
  BY <1>1, <1>7, <1>13, <1>14 DEF RestingHeap, HeapTypeOK, ObjectOK
<1>16. GCTypeOK'
  <2>1. need' \in Nat
    BY <1>2, <1>4 DEF obj_words, HeaderWords, Kinds
  <2> QED
    BY <1>1, <1>2, <1>9, <1>15, <2>1, SMTT(20) DEF GCTypeOK
<1>17. CallInOrder'
  BY <1>1, <1>2, <1>5, <1>9, <1>10, <1>14 DEF CallInOrder
<1>18. /\ \A w : SoundWord(w)' <=> SoundWord(w)
       /\ \A w : Held(w)' <=> Held(w)
       /\ Tiled' /\ AtRest'
  BY <1>1, <1>7
     DEF SoundWord, Held, is_valid_heap_pointer, RestingHeap, Tiled, AtRest, heap_end,
         heap_next_obj_iterator, size_at
<1>19. \A l \in Loc : SoundWord(slots[l])'
  BY <1>7, <1>11, <1>12, <1>18 DEF RestingHeap
<1>20. RootsSound'
  BY <1>15, <1>19, RootsFromSlotsAfterStep
<1>21. HeapReady'
  BY <1>1, <1>7, <1>8, <1>10, <1>18, <1>20 DEF HeapReady
<1>22. NowhereApart'
  BY <1>1, <1>7, <1>8, <1>11 DEF NowhereApart, heap_end
<1>23. SlotsHeld' /\ FieldsHeld'
  <2>1. ASSUME NEW l \in ProgramLoc \cup ArgsInUse' PROVE Held(slots[l])'
    <3>1. l \in Loc /\ (l \notin ArgsInUse' => l \in ProgramLoc)
      BY <1>6, <1>10, GCAssumption
    <3> QED
      BY <1>7, <1>11, <1>12, <1>18, <3>1 DEF RestingHeap, SlotsHeld
  <2> QED
    BY <1>1, <1>7, <1>8, <1>10, <1>18, <2>1 DEF RestingHeap, SlotsHeld, FieldsHeld
<1>24. ValuesHeld'
  BY <1>1, <1>23, ValuesAtRestAfterStep
<1> QED
  BY <1>1, <1>7, <1>16, <1>17, <1>21, <1>22, <1>24 DEF GCInvariant, VariablesAreRoots

\* The object is allocated at the end of the heap and is not yet filled.
LEMMA AllocStep ==
  ASSUME GCInvariant, phase \in {"alloc", "collected"}, gc_alloc_on_existing_heap, LocalsGone
  PROVE  GCInvariant'
<1>1. /\ phase' = "construct" /\ Outside' /\ Resting /\ Resting' /\ ~Collecting'
      /\ UNCHANGED <<slots, extra, call>>
      /\ Unfinished = {}
  BY DEF gc_alloc_on_existing_heap, Outside, Resting, Collecting, Unfinished
<1>2. RestingHeap /\ CallInOrder /\ NowhereApart /\ GCTypeOK /\ VariablesAreRoots
  BY <1>1, HeapAtRest DEF GCInvariant
<1>3. PICK p : p = heap.current
  OBVIOUS
<1>4. PICK n : n = num_fields(call.kind, call.len)
  OBVIOUS
<1>5. /\ call # NoCall /\ need = obj_words(call.kind, call.len)
      /\ call.kind \in Kinds /\ call.len \in Nat
      /\ call.kind = "CLOSURE" => call.len >= 1
      /\ call.dst \in ProgramLoc
  BY <1>2, GCAssumption DEF CallInOrder
<1>6. n \in Nat
  BY <1>4, <1>5 DEF num_fields
<1>7. /\ heap \in [begin : Nat, size : Nat, current : Nat] /\ p \in Nat
      /\ DOMAIN mem \subseteq Nat /\ p \notin DOMAIN mem
      /\ heap.begin <= p /\ heap_end \in Nat
      /\ \A h \in DOMAIN mem : h < p /\ size_at(h) \in Nat
  <2>1. HeapTypeOK /\ Tiled
    BY <1>2 DEF RestingHeap
  <2>2. heap \in [begin : Nat, size : Nat, current : Nat] /\ heap.begin <= heap.current
        /\ DOMAIN mem \subseteq Nat
    BY <2>1 DEF HeapTypeOK, Tiled
  <2>3. \A h \in DOMAIN mem : h < heap.current /\ size_at(h) \in Nat
    BY <2>1, ObjectHasWords, NextCell
  <2> QED
    BY <1>3, <2>2, <2>3 DEF heap_end
<1>8. need \in Nat /\ need >= 2
  <2>1. call.len \div 8 \in Nat
    BY <1>5
  <2> QED
    BY <1>5, <2>1 DEF obj_words, HeaderWords, Kinds
<1>9. /\ heap' = [begin |-> heap.begin, size |-> heap.size, current |-> p + need]
      /\ p + need <= heap_end
      /\ cur' = p
  BY <1>3, <1>7 DEF gc_alloc_on_existing_heap, Fits
<1>10. /\ DOMAIN mem' = DOMAIN mem \cup {p}
       /\ \A h \in DOMAIN mem : mem'[h] = mem[h]
       /\ mem'[p] = [kind |-> call.kind, len |-> call.len, id |-> NewId,
                     flds |-> [i \in 1..n |-> 0]]
  BY <1>3, <1>4, <1>7 DEF gc_alloc_on_existing_heap
<1>11. NewId \in Nat
  BY GCAssumption DEF gc_alloc_on_existing_heap, NewId, FreshIds
<1>12. ObjectOK(mem'[p])
  <2>1. [i \in 1..n |-> 0] \in Seq(Word) /\ Len([i \in 1..n |-> 0]) = n
    BY <1>6 DEF Word
  <2>2. PICK f : f = [i \in 1..n |-> 0]
    OBVIOUS
  <2>3. mem'[p] = [kind |-> call.kind, len |-> call.len, id |-> NewId, flds |-> f]
    BY <1>10, <2>2
  <2>4. f \in Seq(Word) /\ Len(f) = num_fields(call.kind, call.len)
    BY <1>4, <2>1, <2>2
  <2> QED
    BY <1>5, <1>11, <2>3, <2>4 DEF ObjectOK, Object
<1>13. HeapTypeOK'
  <2>1. HeapTypeOK
    BY <1>2 DEF RestingHeap
  <2>2. \A h \in DOMAIN mem' : ObjectOK(mem'[h])
    BY <1>10, <1>12, <2>1 DEF HeapTypeOK
  <2>3. \A h \in DOMAIN mem' : ObjectOK(mem[h])'
    BY <2>2 DEF ObjectOK
  <2>4. DOMAIN mem' \subseteq Nat
    BY <1>7, <1>10
  <2>5. fwd' \in [DOMAIN mem' -> ForwardWord]
    BY <1>3, <1>10, <2>1 DEF gc_alloc_on_existing_heap, HeapTypeOK, ForwardWord
  <2>6. heap' \in [begin : Nat, size : Nat, current : Nat]
    BY <1>7, <1>8, <1>9
  <2> QED
    BY <1>1, <2>1, <2>3, <2>4, <2>5, <2>6 DEF HeapTypeOK
<1>14. GCTypeOK'
  BY <1>1, <1>5, <1>13 DEF GCTypeOK, LocalsGone
<1>15. /\ ArgCount' = ArgCount /\ ArgsInUse' = ArgsInUse /\ Unfinished' = {p}
       /\ heap_end' = heap_end
  BY <1>1, <1>7, <1>9 DEF ArgCount, ArgsInUse, Unfinished, heap_end
<1>16. ASSUME NEW v \in Word, Held(v), SoundWord(v) PROVE Held(v)' /\ SoundWord(v)'
  <2>1. CASE v \in Unboxed
    BY <2>1 DEF Held, SoundWord, is_valid_heap_pointer, is_valid_pointer
  <2>2. CASE v \notin Unboxed
    <3>1. is_valid_heap_pointer(v) /\ get_obj_header_ptr(v) \in DOMAIN mem
      BY <1>16, <2>2 DEF Held, SoundWord
    <3>2. v \in Nat
      BY <2>2 DEF Word
    <3>3. is_valid_heap_pointer(v)'
      BY <1>3, <1>7, <1>8, <1>9, <3>1, <3>2 DEF is_valid_heap_pointer
    <3> QED
      BY <1>10, <3>1, <3>3 DEF Held, SoundWord, get_obj_header_ptr
  <2> QED
    BY <2>1, <2>2
<1>17. /\ \A l \in ProgramLoc \cup ArgsInUse : l \in Loc
       /\ \A l \in Loc : slots[l] \in Word
  BY <1>2, ArgumentsFit, GCAssumption DEF RestingHeap, HeapTypeOK
<1>18. \A l \in Loc : SoundWord(slots[l])'
  <2>1. \A l \in ProgramLoc \cup ArgsInUse : SoundWord(slots[l])'
    BY <1>1, <1>2, <1>16, <1>17 DEF RestingHeap, SlotsHeld
  <2>2. ~is_valid_heap_pointer(Nowhere)'
    BY <1>2, <1>7, <1>8, <1>9, GCAssumption DEF NowhereApart, is_valid_heap_pointer, heap_end
  <2>3. \A l \in Loc \ (ProgramLoc \cup ArgsInUse) : slots'[l] = Nowhere
    BY <1>1, <1>2 DEF NowhereApart
  <2>4. \A l \in Loc \ (ProgramLoc \cup ArgsInUse) : SoundWord(slots[l])'
    BY <2>2, <2>3 DEF SoundWord
  <2> QED
    BY <2>1, <2>4
<1>19. \A h \in DOMAIN mem : \A i \in 1..Len(mem[h].flds) :
         Held(mem[h].flds[i])' /\ SoundWord(mem[h].flds[i])'
  <2>1. ASSUME NEW h \in DOMAIN mem, NEW i \in 1..Len(mem[h].flds)
        PROVE  Held(mem[h].flds[i])' /\ SoundWord(mem[h].flds[i])'
    <3>1. PICK w : w = mem[h].flds[i]
      OBVIOUS
    <3>2. w \in Word /\ Held(w) /\ SoundWord(w)
      BY <1>1, <1>2, <3>1 DEF RestingHeap, FieldsHeld, HeapTypeOK, ObjectOK, Object
    <3> QED
      BY <1>10, <1>16, <3>1, <3>2
  <2> QED
    BY <2>1
<1>20. \A h \in DOMAIN mem' \ Unfinished' : \A i \in 1..Len(mem'[h].flds) :
         Held(mem[h].flds[i])' /\ SoundWord(mem[h].flds[i])'
  BY <1>10, <1>15, <1>19
<1>21. Tiled' /\ AtRest'
  <2>1. /\ \A h \in DOMAIN mem : heap_next_obj_iterator(h)' = heap_next_obj_iterator(h)
        /\ heap_next_obj_iterator(p)' = p + need
    BY <1>5, <1>10 DEF heap_next_obj_iterator, size_at
  <2>2. Tiled
    BY <1>2 DEF RestingHeap
  <2>3. \A h \in DOMAIN mem :
          /\ heap.begin <= h /\ heap_next_obj_iterator(h) <= p
          /\ heap_next_obj_iterator(h) \in DOMAIN mem \cup {p}
          /\ heap_next_obj_iterator(h) \in Nat
    BY <1>3, <1>7, <2>2 DEF Tiled, heap_next_obj_iterator
  <2>4. heap'.begin \in DOMAIN mem'
    BY <1>3, <1>9, <1>10, <2>2 DEF Tiled
  <2>5. \A h \in DOMAIN mem' :
          /\ heap'.begin <= h /\ heap_next_obj_iterator(h)' <= heap'.current
          /\ heap_next_obj_iterator(h)' \in DOMAIN mem' \cup {heap'.current}
    BY <1>7, <1>8, <1>9, <1>10, <2>1, <2>3
  <2>6. \A g, h \in DOMAIN mem' : g < h => heap_next_obj_iterator(g)' <= h
    BY <1>7, <1>10, <2>1, <2>2, <2>3 DEF Tiled
  <2>7. heap'.begin <= heap'.current /\ heap'.current <= heap_end'
    BY <1>7, <1>8, <1>9, <1>15
  <2>8. AtRest'
    BY <1>2, <1>3, <1>7 DEF RestingHeap, AtRest, gc_alloc_on_existing_heap
  <2> QED
    BY <2>4, <2>5, <2>6, <2>7, <2>8 DEF Tiled
<1>22. RootsSound'
  BY <1>13, <1>18, RootsFromSlotsAfterStep
<1>23. HeapReady'
  BY <1>1, <1>9, <1>10, <1>20, <1>21, <1>22 DEF HeapReady, LocalsGone
<1>24. CallInOrder' /\ NowhereApart'
  BY <1>1, <1>2, <1>5, <1>9, <1>15 DEF CallInOrder, NowhereApart
<1>25. SlotsHeld' /\ FieldsHeld'
  <2>1. \A l \in ProgramLoc \cup ArgsInUse : Held(slots[l])'
    BY <1>1, <1>2, <1>16, <1>17 DEF RestingHeap, SlotsHeld
  <2> QED
    BY <1>15, <1>20, <2>1 DEF SlotsHeld, FieldsHeld
<1>26. ValuesHeld'
  BY <1>1, <1>25, ValuesAtRestAfterStep
<1> QED
  BY <1>1, <1>2, <1>14, <1>23, <1>24, <1>26 DEF GCInvariant, VariablesAreRoots

\* Popping what was pushed.
LEMMA PushThenPop ==
  ASSUME NEW S, NEW s \in Seq(S), NEW t \in Seq(S)
  PROVE  SubSeq(s \o t, 1, Len(s \o t) - Len(t)) = s
<1>1. Len(s) \in Nat /\ Len(t) \in Nat /\ Len(s \o t) = Len(s) + Len(t)
  OBVIOUS
<1>2. Len(s \o t) - Len(t) = Len(s)
  BY <1>1
<1>3. SubSeq(s \o t, 1, Len(s)) = s
  OBVIOUS
<1> QED
  BY <1>2, <1>3

\* The fields are filled, the arguments popped and the program gets the object.
LEMMA ReturnObjectStep ==
  ASSUME GCInvariant, ReturnObject
  PROVE  GCInvariant'
<1>1. /\ phase = "construct" /\ phase' = "idle"
      /\ Outside /\ Outside' /\ Resting /\ Resting' /\ ~Collecting'
      /\ UNCHANGED <<heap, fwd, root, qHead, qTail, fld, need, old, scan, freePtr>>
      /\ call' = NoCall /\ cur' = 0
      /\ Unfinished = {cur} /\ Unfinished' = {}
      /\ ArgCount' = 0 /\ ArgsInUse' = {}
  BY DEF ReturnObject, Outside, Resting, Collecting, compactVars, Unfinished, ArgCount, ArgsInUse
<1>2. RestingHeap /\ HeapReady /\ CallInOrder /\ NowhereApart /\ GCTypeOK /\ VariablesAreRoots
  BY <1>1, HeapAtRest DEF GCInvariant
<1>3. /\ call # NoCall /\ call.dst \in ProgramLoc /\ ArgCount = call.nargs
      /\ call.nargs \in {0, num_fields(call.kind, call.len)}
  BY <1>1, <1>2 DEF CallInOrder, ArgCount
<1>4. PICK h, n, d :
        h = cur /\ n = Len(mem[h].flds) /\ d = call.dst
  OBVIOUS
<1>5. /\ h \in DOMAIN mem /\ h \in Nat /\ mem[h] \in Object
      /\ mem[h].flds \in Seq(Word) /\ n \in Nat /\ DOMAIN mem[h].flds = 1..n
      /\ n = num_fields(call.kind, call.len)
      /\ n = num_fields(mem[h].kind, mem[h].len)
  <2>1. h \in DOMAIN mem /\ mem[h].kind = call.kind /\ mem[h].len = call.len
    BY <1>1, <1>2, <1>4 DEF HeapReady
  <2>2. ObjectOK(mem[h]) /\ h \in Nat
    BY <1>2, <2>1 DEF RestingHeap, HeapTypeOK
  <2>3. mem[h].flds \in Seq(Word)
    BY <2>2 DEF ObjectOK, Object
  <2> QED
    BY <1>4, <2>1, <2>2, <2>3 DEF ObjectOK
<1>6. PICK f : f = constructed_fields
  OBVIOUS
<1>7. /\ f = [i \in 1..n |-> IF call.nargs = 0 THEN BoxedZero ELSE slots[ArgLoc[i]]]
      /\ \A i \in 1..n : f[i] = IF call.nargs = 0 THEN BoxedZero ELSE slots[ArgLoc[i]]
  BY <1>4, <1>5, <1>6 DEF constructed_fields
<1>8. \A i \in 1..n : f[i] \in Word /\ Held(f[i]) /\ SoundWord(f[i])
  <2>1. CASE call.nargs = 0
    <3>1. BoxedZero \in Word /\ Held(BoxedZero) /\ SoundWord(BoxedZero)
      BY GCAssumption DEF Word, Held, SoundWord, is_valid_heap_pointer, is_valid_pointer
    <3> QED
      BY <1>7, <2>1, <3>1
  <2>2. CASE call.nargs # 0
    <3>1. ArgCount = n
      BY <1>3, <1>5, <2>2
    <3>2. ASSUME NEW i \in 1..n PROVE ArgLoc[i] \in ArgsInUse /\ ArgLoc[i] \in Loc
      BY <1>2, <3>1, ArgumentsFit DEF ArgsInUse
    <3>3. \A l \in ArgsInUse : l \in Loc => slots[l] \in Word /\ Held(slots[l]) /\ SoundWord(slots[l])
      BY <1>2 DEF RestingHeap, HeapTypeOK, SlotsHeld
    <3> QED
      BY <1>7, <2>2, <3>2, <3>3
  <2> QED
    BY <2>1, <2>2
<1>9. f \in Seq(Word) /\ Len(f) = n
  <2>1. f \in [1..n -> Word]
    BY <1>7, <1>8
  <2> QED
    BY <1>5, <2>1
<1>10. /\ DOMAIN mem' = DOMAIN mem
       /\ \A g \in DOMAIN mem : g # h => mem'[g] = mem[g]
       /\ mem'[h] = [mem[h] EXCEPT !.flds = f]
  BY <1>4, <1>5, <1>6 DEF ReturnObject
<1>11. /\ mem'[h].kind = mem[h].kind /\ mem'[h].len = mem[h].len
       /\ mem'[h].flds = f /\ mem'[h] \in Object
  BY <1>5, <1>9, <1>10 DEF Object
<1>12. ASSUME NEW l \in Loc
       PROVE  slots'[l] = IF l = d THEN get_object_content_ptr(h)
                          ELSE IF l \in ArgsInUse THEN Nowhere
                          ELSE slots[l]
  BY <1>3, <1>4 DEF ReturnObject, ArgsInUse
<1>13. /\ HeapTypeOK /\ Tiled /\ slots \in [Loc -> Word]
       /\ ArgsInUse \subseteq Loc \ (ProgramLoc \cup {StackBottom})
       /\ d \in ProgramLoc /\ ProgramLoc \subseteq Loc
  BY <1>2, <1>3, <1>4, ArgumentsFit, GCAssumption DEF RestingHeap, HeapTypeOK
<1>14. /\ \A x : SoundWord(x)' <=> SoundWord(x)
       /\ \A x : Held(x)' <=> Held(x)
  BY <1>1, <1>10 DEF SoundWord, Held, is_valid_heap_pointer
<1>15. /\ get_object_content_ptr(h) \in Word
       /\ Held(get_object_content_ptr(h)) /\ SoundWord(get_object_content_ptr(h))
  <2>1. /\ heap.begin \in Nat /\ heap.current \in Nat /\ heap.begin <= h
        /\ heap_next_obj_iterator(h) <= heap.current
        /\ size_at(h) \in Nat /\ size_at(h) >= HeaderWords
    BY <1>5, <1>13, ObjectHasWords DEF Tiled, HeapTypeOK
  <2>2. h + HeaderWords \in Nat /\ heap.begin <= h + HeaderWords /\ h + HeaderWords <= heap.current
        /\ (h + HeaderWords) - HeaderWords = h
    BY <1>5, <2>1 DEF heap_next_obj_iterator, HeaderWords
  <2> QED
    BY <1>5, <2>2, HeapAssumption
       DEF Word, Held, SoundWord, is_valid_heap_pointer, is_valid_pointer,
           get_object_content_ptr, get_obj_header_ptr
<1>16. slots' \in [Loc -> Word]
  <2>1. Nowhere \in Word
    BY GCAssumption DEF Word
  <2>2. \A l \in Loc : slots'[l] \in Word
    BY <1>12, <1>13, <1>15, <2>1
  <2> QED
    BY <2>2 DEF ReturnObject
<1>17. extra' = PermanentRoots
  <2> DEFINE args == SubSeq(ArgLoc, 1, ArgCount)
  <2>1. /\ ArgCount \in Nat /\ ArgCount <= Len(ArgLoc)
        /\ \A i \in 1..ArgCount : ArgLoc[i] \in Loc
        /\ ArgLoc \in Seq(Loc)
    BY <1>2, ArgumentsFit, GCAssumption
  <2>2. args \in Seq(Loc) /\ Len(args) = ArgCount
    BY <2>1
  <2>3. extra = PermanentRoots \o args /\ extra' = SubSeq(extra, 1, Len(extra) - ArgCount)
    BY <1>2, <1>3 DEF CallInOrder, ReturnObject
  <2> HIDE DEF args
  <2>4. PermanentRoots \in Seq(Loc)
    BY GCAssumption
  <2>5. SubSeq(PermanentRoots \o args, 1, Len(PermanentRoots \o args) - Len(args)) = PermanentRoots
    BY <2>2, <2>4, PushThenPop
  <2> QED
    BY <2>2, <2>3, <2>5
<1>18. HeapTypeOK'
  <2>1. ASSUME NEW g \in DOMAIN mem PROVE ObjectOK(mem'[g])
    <3>1. ObjectOK(mem[g]) /\ ObjectOK(mem[h])
      BY <1>5, <1>13 DEF HeapTypeOK
    <3>2. CASE g = h
      BY <1>5, <1>9, <1>11, <3>1, <3>2 DEF ObjectOK
    <3>3. CASE g # h
      BY <1>10, <3>1, <3>3
    <3> QED
      BY <3>2, <3>3
  <2>2. \A g \in DOMAIN mem' : ObjectOK(mem[g])'
    BY <1>10, <2>1 DEF ObjectOK
  <2>3. extra' \in Seq(Loc)
    BY <1>17, GCAssumption
  <2> QED
    BY <1>1, <1>10, <1>13, <1>16, <2>2, <2>3 DEF HeapTypeOK
<1>19. Tiled' /\ AtRest'
  <2>1. \A g \in DOMAIN mem : heap_next_obj_iterator(g)' = heap_next_obj_iterator(g)
    BY <1>10, <1>11 DEF heap_next_obj_iterator, size_at
  <2> QED
    BY <1>1, <1>2, <1>10, <2>1 DEF RestingHeap, Tiled, AtRest, heap_end
<1>20. ASSUME NEW l \in Loc
       PROVE  SoundWord(slots[l])' /\ (l \in ProgramLoc => Held(slots[l])')
  <2>1. SoundWord(slots[l]) /\ (l \in ProgramLoc => Held(slots[l]))
    BY <1>2 DEF RestingHeap, SlotsHeld
  <2>2. SoundWord(Nowhere)
    BY <1>2, <1>13, GCAssumption
       DEF NowhereApart, SoundWord, is_valid_heap_pointer, heap_end, Tiled, HeapTypeOK
  <2>3. CASE l = d
    BY <1>12, <1>14, <1>15, <2>3
  <2>4. CASE l # d
    BY <1>12, <1>13, <1>14, <2>1, <2>2, <2>4
  <2> QED
    BY <2>3, <2>4
<1>21. \A g \in DOMAIN mem' \ Unfinished' : \A i \in 1..Len(mem'[g].flds) :
         SoundWord(mem[g].flds[i])' /\ Held(mem[g].flds[i])'
  <2>1. ASSUME NEW g \in DOMAIN mem, NEW i \in 1..Len(mem'[g].flds)
        PROVE  SoundWord(mem'[g].flds[i]) /\ Held(mem'[g].flds[i])
    <3>1. CASE g = h
      BY <1>8, <1>9, <1>11, <3>1
    <3>2. CASE g # h
      BY <1>1, <1>2, <1>4, <1>10, <3>2 DEF RestingHeap, FieldsHeld
    <3> QED
      BY <3>1, <3>2
  <2> QED
    BY <1>10, <1>14, <2>1
<1>22. CallInOrder'
  <2>1. SubSeq(ArgLoc, 1, 0) = << >> /\ PermanentRoots \o << >> = PermanentRoots
    BY GCAssumption
  <2> QED
    BY <1>1, <1>17, <2>1 DEF CallInOrder
<1>23. GCTypeOK'
  BY <1>1, <1>2, <1>18 DEF GCTypeOK
<1>24. NowhereApart'
  BY <1>1, <1>2, <1>12, <1>13 DEF NowhereApart, heap_end
<1>25. RootsSound'
  BY <1>18, <1>20, RootsFromSlotsAfterStep
<1>26. HeapReady'
  BY <1>1, <1>2, <1>19, <1>21, <1>25 DEF HeapReady
<1>27. SlotsHeld' /\ FieldsHeld'
  BY <1>1, <1>13, <1>20, <1>21 DEF SlotsHeld, FieldsHeld
<1>28. ValuesHeld'
  BY <1>1, <1>27, ValuesAtRestAfterStep
<1> QED
  BY <1>1, <1>2, <1>22, <1>23, <1>24, <1>26, <1>28 DEF GCInvariant, VariablesAreRoots

\* gc_alloc finds no room and begins to mark.
LEMMA StartCollectionStep ==
  ASSUME GCInvariant, StartCollection
  PROVE  GCInvariant'
<1>1. /\ phase = "alloc" /\ phase' = "roots"
      /\ Outside /\ ~Outside' /\ Resting /\ Whole /\ Whole' /\ ~Collecting'
      /\ UNCHANGED <<heap, mem, fwd, slots, extra, root, qHead, qTail, cur, fld, need, old,
                     scan, freePtr, call>>
      /\ Unfinished = {} /\ Unfinished' = {}
  BY DEF StartCollection, Outside, Resting, Whole, Collecting, heapVars, compactVars, Unfinished
<1>2. RestingHeap /\ HeapReady /\ CallInOrder /\ NowhereApart /\ GCTypeOK /\ VariablesAreRoots
  BY <1>1, HeapAtRest DEF GCInvariant
<1>3. /\ call # NoCall /\ need = obj_words(call.kind, call.len)
      /\ call.kind \in Kinds /\ call.len \in Nat
  BY <1>1, <1>2, GCAssumption DEF CallInOrder
<1>4. need \in Nat /\ need > 0
  <2>1. call.len \div 8 \in Nat
    BY <1>3
  <2> QED
    BY <1>3, <2>1 DEF obj_words, HeaderWords, Kinds
<1>5. HeapTypeOK' /\ GCTypeOK'
  BY <1>1, <1>2, <1>4 DEF RestingHeap, HeapTypeOK, ObjectOK, GCTypeOK
<1>6. /\ ArgCount' = ArgCount /\ ArgsInUse' = ArgsInUse
      /\ \A v : is_valid_heap_pointer(v)' <=> is_valid_heap_pointer(v)
      /\ \A v : SoundWord(v)' <=> SoundWord(v)
      /\ \A v : Held(v)' <=> Held(v)
      /\ Tiled' /\ AtRest'
  BY <1>1, <1>2
     DEF ArgCount, ArgsInUse, SoundWord, Held, is_valid_heap_pointer, RestingHeap,
         Tiled, AtRest, heap_end, heap_next_obj_iterator, size_at
<1>7. CallInOrder' /\ NowhereApart'
  BY <1>1, <1>2, <1>6 DEF CallInOrder, NowhereApart, heap_end
<1>8. HeapInOrder' /\ AtRest'
  <2>1. \A l \in Loc : SoundWord(slots[l])'
    BY <1>1, <1>2, <1>6 DEF RestingHeap
  <2>2. RootsSound'
    BY <1>5, <2>1, RootsFromSlotsAfterStep
  <2>3. FieldsSound'
    BY <1>1, <1>2, <1>6 DEF RestingHeap, FieldsSound
  <2> QED
    BY <1>5, <1>6, <2>2, <2>3 DEF HeapInOrder
<1>9. root' = 1 /\ fld' = 1 /\ qHead' = 0 /\ qTail' = 0 /\ cur' = 0 /\ scan' = 0
      /\ freePtr' = 0 /\ old' = NoChunk
  BY <1>1, <1>2 DEF HeapReady
<1>10. MarkInvariant'
  <2>1. MarkTypeOK'
    BY <1>1, <1>5, <1>9 DEF MarkTypeOK
  <2>2. (MarkTypeOK /\ HeapInOrder /\ AtRest /\ phase = "roots" /\ root = 1 => MarkInvariant)'
    BY MarkingBegins, PTL
  <2> QED
    BY <1>1, <1>8, <1>9, <2>1, <2>2
<1>11. CompactInvariant'
  <2>1. CompactTypeOK'
    BY <1>1, <1>4, <1>5, <1>9 DEF CompactTypeOK, NoChunk
  <2>2. BottomFollowed'
    <3>1. slots'[StackBottom] = Nowhere
      BY <1>7, HeapAssumption, GCAssumption, <1>2, <1>6, ArgumentsFit DEF NowhereApart
    <3>2. ~is_valid_heap_pointer(Nowhere)'
      BY <1>5, <1>6, <1>7, GCAssumption
         DEF NowhereApart, is_valid_heap_pointer, heap_end, Tiled, HeapTypeOK
    <3> QED
      BY <3>1, <3>2 DEF BottomFollowed, Target
  <2>3. EdgesHoldNoObject'
    BY <1>1, <1>2, NoRootAtEdge DEF EdgesHoldNoObject, EdgeRoots
  <2>4. (CompactTypeOK /\ MarkInvariant /\ BottomFollowed /\ EdgesHoldNoObject
           /\ phase = "roots" /\ need > 0 => CompactInvariant)'
    BY CollectionBegins, PTL
  <2> QED
    BY <1>1, <1>4, <1>10, <2>1, <2>2, <2>3, <2>4
<1>12. ValuesHeld'
  <2>1. SlotsHeld' /\ FieldsHeld'
    BY <1>1, <1>2, <1>6 DEF RestingHeap, SlotsHeld, FieldsHeld
  <2> QED
    BY <1>1, <2>1, ValuesWhileWholeAfterStep
<1> QED
  BY <1>1, <1>2, <1>5, <1>7, <1>11, <1>12 DEF GCInvariant, HeapReady, VariablesAreRoots

-----------------------------------------------------------------------------
(* A collection in the middle of an allocation.                            *)

\* What the kept objects hold, and the same of the graph that the program sees.
KeptHold  == \A h \in KeptHeaders : \A i \in 1..Len(mem[h].flds) :
               IsValue(ReadField(h, mem[h].flds[i]))
GraphHolds == \A o \in GraphObjects : \A i \in DOMAIN o.flds : IsValue(o.flds[i])

LEMMA KeptHoldWhatIsSeen == CompactInvariant => (KeptHold <=> GraphHolds)
<1> SUFFICES ASSUME CompactInvariant PROVE KeptHold <=> GraphHolds
  OBVIOUS
<1>1. \A h \in KeptHeaders : DOMAIN mem[h].flds = 1..Len(mem[h].flds)
  <2>1. CompactTypeOK /\ KeptHeaders \subseteq DOMAIN mem
    BY KeptAreObjects DEF CompactInvariant, CompactTypeOK
  <2>2. \A h \in DOMAIN mem : mem[h].flds \in Seq(Word)
    BY <2>1 DEF CompactTypeOK, HeapTypeOK, ObjectOK, Object
  <2> QED
    BY <2>1, <2>2
<1>2. GraphObjects = {ObjectSeen(h) : h \in KeptHeaders}
  BY DEF GraphObjects, ObjectSeen
<1>3. ASSUME NEW h \in KeptHeaders
      PROVE  /\ DOMAIN ObjectSeen(h).flds = 1..Len(mem[h].flds)
             /\ \A i \in 1..Len(mem[h].flds) :
                  ObjectSeen(h).flds[i] = ReadField(h, mem[h].flds[i])
  BY <1>1 DEF ObjectSeen
<1> QED
  BY <1>2, <1>3 DEF KeptHold, GraphHolds

LEMMA KeptHoldWhatIsSeenAfterStep == (CompactInvariant => (KeptHold <=> GraphHolds))'
BY KeptHoldWhatIsSeen, PTL

\* The collector works for the constructor that called it.
LEMMA CollectorLeaves ==
  ASSUME [CollectNext]_gcVars
  PROVE  UNCHANGED <<need, extra>>
<1>1. CASE MarkLoops /\ UNCHANGED compactVars
  BY <1>1 DEF MarkLoops, compactVars, heapVars, SkipRoot, MarkRoot, Dequeue, EnqueueField,
              SkipField, FieldsDone, MarkReturns
<1>2. CASE CompactNext
  BY <1>2 DEF CompactNext, compactVars, heapVars, StartLocate, MarkPhaseDone, ComputeLocation,
              MapChunk, UpdateObject, UpdateObjectsDone, FixRoot, FixRootsDone, RelocateObject,
              FinishCompaction
<1>3. CASE UNCHANGED gcVars
  BY <1>3 DEF gcVars, heapVars, compactVars
<1> QED
  BY <1>1, <1>2, <1>3 DEF CollectNext

\* A return address stays what it is and outside the chunks.
LEMMA NowhereStaysApart ==
  ASSUME GCInvariant, ~Outside, UNCHANGED call, [CollectNext]_gcVars
  PROVE  NowhereApart'
<1>1. /\ GCTypeOK /\ CallInOrder /\ NowhereApart /\ CompactInvariant
      /\ HeapTypeOK /\ Nowhere \in Nat
      /\ heap \in [begin : Nat, size : Nat, current : Nat]
      /\ old \in [begin : Nat, size : Nat, current : Nat]
      /\ slots \in [Loc -> Word]
  BY GCAssumption DEF GCInvariant, GCTypeOK, CompactInvariant, CompactTypeOK, HeapTypeOK
<1>2. ArgsInUse' = ArgsInUse
  BY DEF ArgsInUse, ArgCount
<1>3. ASSUME UNCHANGED <<slots, old>>, heap'.begin = heap.begin, heap'.size = heap.size,
             Collecting' => Collecting
      PROVE  NowhereApart'
  BY <1>1, <1>2, <1>3 DEF NowhereApart, heap_end
<1>4. CASE MarkLoops /\ UNCHANGED compactVars
  <2>1. UNCHANGED <<slots, old, heap>> /\ ~Collecting'
    BY <1>4 DEF MarkLoops, compactVars, heapVars, SkipRoot, MarkRoot, Dequeue, EnqueueField,
                SkipField, FieldsDone, MarkReturns, Collecting
  <2> QED
    BY <1>3, <2>1
<1>5. CASE StartLocate
  <2>1. UNCHANGED <<slots, heap>> /\ ~Collecting'
    BY <1>5 DEF StartLocate, MarkPhaseDone, Collecting, heapVars
  <2> QED
    BY <1>1, <1>2, <2>1 DEF NowhereApart, heap_end
<1>6. CASE ComputeLocation
  <2>1. UNCHANGED <<slots, old, heap, phase>>
    BY <1>6 DEF ComputeLocation, markVars
  <2> QED
    BY <1>3, <2>1 DEF Collecting
<1>7. CASE MapChunk
  <2>1. PICK b, n :
          /\ b \in Bases /\ n = next_heap_size
          /\ Unused(b, n)
          /\ heap' = [begin |-> b, size |-> n, current |-> b + (heap.current - heap.begin)]
    BY <1>7 DEF MapChunk
  <2>2. phase = "locate" /\ UNCHANGED <<slots, old>>
    BY <1>7 DEF MapChunk
  <2>3. old = heap /\ heap.begin <= heap.current /\ heap.current <= heap_end
    BY <1>1, <2>2 DEF CompactInvariant, ChunksApart, MarkInvariant, HeapInOrder, Tiled
  <2>4. slots[StackBottom] = Nowhere
    BY <1>1, HeapAssumption, GCAssumption, ArgumentsFit DEF NowhereApart
  <2>5. Nowhere \in ScannedWords
    BY <2>4 DEF ScannedWords
  <2>6. is_valid_pointer(Nowhere) /\ ~is_valid_heap_pointer(Nowhere)
    BY <1>1, <2>3, HeapAssumption, SMTT(20) DEF NowhereApart, is_valid_heap_pointer, is_valid_pointer, heap_end
  <2>7. Nowhere < b \/ b + n < Nowhere
    BY <2>1, <2>5, <2>6 DEF Unused
  <2>8. heap'.begin = b /\ heap_end' = b + n
    BY <2>1 DEF heap_end
  <2>9. Nowhere < old.begin \/ old.current < Nowhere
    BY <1>1, <2>3 DEF NowhereApart, heap_end
  <2> QED
    BY <1>1, <1>2, <2>2, <2>7, <2>8, <2>9 DEF NowhereApart
<1>8. CASE UpdateObject \/ UpdateObjectsDone \/ FixRootsDone \/ RelocateObject
  <2>1. UNCHANGED <<slots, old, heap>> /\ Collecting
    BY <1>8 DEF UpdateObject, UpdateObjectsDone, FixRootsDone, RelocateObject, heapVars,
                compactVars, Collecting
  <2> QED
    BY <1>3, <2>1
<1>9. CASE FixRoot
  <2>1. /\ phase = "fixroots" /\ UNCHANGED <<heap, old>> /\ Collecting
        /\ slots' = IF Skipped(root) THEN slots
                    ELSE [slots EXCEPT ![FixOrder[root]] = Fixed(@)]
    BY <1>9 DEF FixRoot, compactVars, Collecting
  <2>2. Fixed(Nowhere) = Nowhere
    BY <1>1, <2>1 DEF NowhereApart, Fixed, InOldHeap
  <2>3. \A l \in Loc : slots'[l] \in {slots[l], Fixed(slots[l])}
    BY <1>1, <2>1
  <2> QED
    BY <1>1, <1>2, <2>1, <2>2, <2>3 DEF NowhereApart, heap_end
<1>10. CASE FinishCompaction
  <2>1. UNCHANGED <<slots, old>> /\ ~Collecting'
    BY <1>10 DEF FinishCompaction, compactVars, Collecting
  <2>2. heap'.begin = heap.begin /\ heap'.size = heap.size
    BY <1>1, <1>10 DEF FinishCompaction
  <2> QED
    BY <1>3, <2>1, <2>2
<1>11. CASE UNCHANGED gcVars
  <2>1. UNCHANGED <<slots, old, heap, phase>>
    BY <1>11 DEF gcVars, heapVars, markVars, compactVars
  <2> QED
    BY <1>3, <2>1 DEF Collecting
<1> QED
  BY <1>4, <1>5, <1>6, <1>7, <1>8, <1>9, <1>10, <1>11 DEF CollectNext, CompactNext

\* The collector takes a step, or nothing happens while it works.
LEMMA CollectorStep ==
  ASSUME GCInvariant, ~Outside, UNCHANGED call, [CollectNext]_gcVars
  PROVE  GCInvariant'
<1>1. GCTypeOK /\ CallInOrder /\ CompactInvariant /\ ValuesHeld /\ VariablesAreRoots /\ HeapTypeOK
  BY DEF GCInvariant, GCTypeOK
<1>2. CompactInvariant' /\ Invisible
  BY <1>1, CollectStep, CollectStepInvisible
<1>3. NowhereApart' /\ UNCHANGED <<need, extra>>
  BY NowhereStaysApart, CollectorLeaves
<1>4. /\ HeapTypeOK' /\ ~Outside' /\ need \in Nat
      /\ phase \notin {"idle", "construct"} /\ phase' \notin {"idle", "construct"}
      /\ phase' \in {"roots", "drain", "fields", "locate", "update", "fixroots", "relocate",
                     "collected"}
  BY <1>1, <1>2 DEF CompactInvariant, CompactTypeOK, Outside
<1>5. Unfinished = {} /\ Unfinished' = {} /\ ArgCount' = ArgCount /\ ArgsInUse' = ArgsInUse
  BY <1>4 DEF Unfinished, ArgCount, ArgsInUse
<1>6. GCTypeOK' /\ CallInOrder'
  BY <1>1, <1>3, <1>4, <1>5 DEF GCTypeOK, CallInOrder
<1>7. ValuesHeld'
  <2>1. RootSet' = RootSet
    BY <1>3 DEF RootSet, RootOrder
  <2>2. ASSUME NEW l \in ProgramLoc \cup ArgsInUse
        PROVE  ReadSlot(l)' = ReadSlot(l)
    <3>1. l \in RootSet
      BY <1>1, HeldAreRoots
    <3>2. GraphRoots'[l] = GraphRoots[l]
      BY <1>2 DEF Invisible
    <3> QED
      BY <2>1, <3>1, <3>2 DEF GraphRoots
  <2>3. \A l \in ProgramLoc \cup ArgsInUse : IsValue(ReadSlot(l))
    BY <1>1 DEF ValuesHeld
  <2>4. \A l \in ProgramLoc \cup ArgsInUse' : IsValue(ReadSlot(l))'
    BY <1>5, <2>2, <2>3 DEF IsValue
  <2>5. KeptHold
    BY <1>1, <1>5 DEF ValuesHeld, KeptHold
  <2>6. GraphHolds /\ GraphObjects' \subseteq GraphObjects
    BY <1>1, <1>2, <2>5, KeptHoldWhatIsSeen DEF Invisible
  <2>7. GraphHolds'
    BY <2>6 DEF GraphHolds, IsValue
  <2>8. KeptHold'
    BY <1>2, <2>7, KeptHoldWhatIsSeenAfterStep
  <2> QED
    BY <1>5, <2>4, <2>8 DEF ValuesHeld, KeptHold
<1> QED
  BY <1>1, <1>2, <1>3, <1>4, <1>6, <1>7 DEF GCInvariant, HeapReady, VariablesAreRoots

\* Nothing happens.
LEMMA GCStutter ==
  ASSUME GCInvariant, UNCHANGED vars
  PROVE  GCInvariant'
<1>1. /\ UNCHANGED <<heap, mem, fwd, slots, extra, phase, root, qHead, qTail, cur, fld, need,
                     old, scan, freePtr, call>>
      /\ UNCHANGED gcVars
  BY DEF vars, gcVars, heapVars, markVars, compactVars
<1>2. CASE Outside
  <2>1. /\ Resting /\ Resting' /\ Outside' /\ ~Collecting'
    BY <1>1, <1>2 DEF Outside, Resting, Collecting
  <2>2. RestingHeap /\ HeapReady /\ CallInOrder /\ NowhereApart /\ GCTypeOK /\ VariablesAreRoots
    BY <2>1, <1>2, HeapAtRest DEF GCInvariant, Resting
  <2>3. /\ ArgCount' = ArgCount /\ ArgsInUse' = ArgsInUse /\ Unfinished' = Unfinished
        /\ \A v : SoundWord(v)' <=> SoundWord(v)
        /\ \A v : Held(v)' <=> Held(v)
        /\ Tiled' /\ AtRest'
    BY <1>1, <2>2
       DEF ArgCount, ArgsInUse, Unfinished, SoundWord, Held, is_valid_heap_pointer, RestingHeap,
           Tiled, AtRest, heap_end, heap_next_obj_iterator, size_at
  <2>4. HeapTypeOK' /\ GCTypeOK'
    BY <1>1, <2>2 DEF GCTypeOK, HeapTypeOK, ObjectOK
  <2>5. CallInOrder' /\ NowhereApart'
    BY <1>1, <2>1, <2>2, <2>3 DEF CallInOrder, NowhereApart, heap_end
  <2>6. RootsSound'
    BY <1>1, <2>2, <2>3, <2>4, RootsFromSlotsAfterStep DEF RestingHeap
  <2>7. HeapReady'
    BY <1>1, <1>2, <2>1, <2>2, <2>3, <2>6 DEF HeapReady
  <2>8. SlotsHeld' /\ FieldsHeld'
    BY <1>1, <2>2, <2>3 DEF RestingHeap, SlotsHeld, FieldsHeld
  <2>9. ValuesHeld'
    BY <2>1, <2>8, ValuesAtRestAfterStep
  <2> QED
    BY <2>1, <2>2, <2>4, <2>5, <2>7, <2>9 DEF GCInvariant, VariablesAreRoots
<1>3. CASE ~Outside
  BY <1>1, <1>3, CollectorStep
<1> QED
  BY <1>2, <1>3

\* The collector takes steps only in its own phases.
LEMMA CollectorRunsInside == Collector => ~Outside
BY DEF Collector, CollectNext, CompactNext, MarkLoops, Outside, SkipRoot, MarkRoot, Dequeue,
       EnqueueField, SkipField, FieldsDone, MarkReturns, StartLocate, MarkPhaseDone,
       ComputeLocation, MapChunk, UpdateObject, UpdateObjectsDone, FixRoot, FixRootsDone,
       RelocateObject, FinishCompaction

LEMMA GCStep == GCInvariant /\ [GCNext]_vars => GCInvariant'
<1> SUFFICES ASSUME GCInvariant, [GCNext]_vars PROVE GCInvariant'
  OBVIOUS
<1>1. CASE Assign
  BY <1>1, AssignStep
<1>2. CASE Belem
  BY <1>2, BelemStep
<1>3. CASE Bsta
  BY <1>3, BstaStep
<1>4. CASE CallConstructor
  BY <1>4, CallConstructorStep
<1>5. CASE AllocFromChunk \/ AllocAfterCollection
  BY <1>5, AllocStep DEF AllocFromChunk, AllocAfterCollection
<1>6. CASE StartCollection
  BY <1>6, StartCollectionStep
<1>7. CASE Collector
  BY <1>7, CollectorRunsInside, CollectorStep DEF Collector
<1>8. CASE ReturnObject
  BY <1>8, ReturnObjectStep
<1>9. CASE UNCHANGED vars
  BY <1>9, GCStutter
<1> QED
  BY <1>1, <1>2, <1>3, <1>4, <1>5, <1>6, <1>7, <1>8, <1>9 DEF GCNext, Program, Runtime

-----------------------------------------------------------------------------
(* The theorems, for every program whose variables are words that the      *)
(* collector scans.                                                        *)

\* The invariant holds throughout, from one collection to the next.
THEOREM GCInvariantHolds == VariablesAreRoots /\ GCSpec => []GCInvariant
BY GCInvariantInitially, GCStep, PTL DEF GCSpec

\* Every variable of the runtime keeps its type.
THEOREM GCTypeCorrect == VariablesAreRoots /\ GCSpec => []GCTypeOK
<1>1. GCInvariant => GCTypeOK
  BY DEF GCInvariant
<1> QED
  BY <1>1, GCInvariantHolds, PTL

\* What an allocation, a constructor and an earlier collection leave behind is what
\* mark_phase relies on.
THEOREM HeapIsReadyToCollect == VariablesAreRoots /\ GCSpec => []ReadyToCollect
<1>1. GCInvariant => ReadyToCollect
  BY DEF GCInvariant, HeapReady, ReadyToCollect, Outside, FieldsSound, Unfinished
<1> QED
  BY <1>1, GCInvariantHolds, PTL

\* After the collection that it has caused there is room for an object: gc_alloc
\* does not return NULL.
THEOREM NoAllocationFails == VariablesAreRoots /\ GCSpec => []OneCollectionSuffices
<1>1. GCInvariant => OneCollectionSuffices
  BY DEF GCInvariant, OneCollectionSuffices, Outside, CompactInvariant, CompactedInOrder, Fits
<1> QED
  BY <1>1, GCInvariantHolds, PTL

\* The program's variables hold values and objects, however often and wherever the
\* collector has moved the objects.
THEOREM VariablesKeepValues == VariablesAreRoots /\ GCSpec => []VariablesHoldValues
<1>1. GCInvariant => VariablesHoldValues
  BY HeldWords DEF VariablesHoldValues, Held, HoldsObject, ContentOf
<1> QED
  BY <1>1, GCInvariantHolds, PTL
=============================================================================
