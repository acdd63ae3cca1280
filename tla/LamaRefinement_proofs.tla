------------------------ MODULE LamaRefinement_proofs ------------------------
(***************************************************************************)
(* LamaGC implements ObjectStore: a program cannot tell the runtime with   *)
(* its collector from a memory without addresses and without limit, for    *)
(* every program whose variables are all roots.  The mapping reads objects *)
(* by their identity, so the proof rests on the identities of kept objects *)
(* being distinct, and on every reference leading to a kept object.  Then  *)
(* each step of the collector is a Forget, and the others are the steps of *)
(* the same name.                                                          *)
(***************************************************************************)
EXTENDS LamaGC_proofs

-----------------------------------------------------------------------------
(* Identities.                                                             *)

\* No two kept objects have the same identity.
ObjectsDistinct ==
  /\ \A h \in KeptHeaders : mem[h].id \in Ids
  /\ \A g, h \in KeptHeaders : mem[g].id = mem[h].id => g = h

FinalsApart == \A g, h \in KeptHeaders : FinalOf(g) = FinalOf(h) => g = h

LEMMA FinalsAreApart == CompactInvariant /\ Collecting => FinalsApart
BY FinalsDistinct DEF FinalsApart

LEMMA FinalsAreApartAfterStep == (CompactInvariant /\ Collecting => FinalsApart)'
BY FinalsAreApart, PTL

\* Objects that stay where they are and keep their identity.
LEMMA DistinctWhereTheyAre ==
  ASSUME ObjectsDistinct, KeptHeaders' \subseteq KeptHeaders,
         \A h \in KeptHeaders' : mem'[h].id = mem[h].id
  PROVE  ObjectsDistinct'
BY DEF ObjectsDistinct

\* While the chunk is compacted, an object is known by its final location.
LEMMA DistinctByLocation ==
  ASSUME ObjectsDistinct, CompactInvariant', GraphKept
  PROVE  ObjectsDistinct'
<1>1. FinalsApart'
  BY FinalsAreApartAfterStep DEF GraphKept
<1>2. \A k \in KeptHeaders' : \E h \in KeptHeaders :
        FinalOf(k)' = FinalOf(h) /\ mem'[k].id = mem[h].id
  BY DEF GraphKept, Counterpart
<1>3. ASSUME NEW j \in KeptHeaders', NEW k \in KeptHeaders', mem'[j].id = mem'[k].id
      PROVE  j = k
  <2>1. PICK g \in KeptHeaders : FinalOf(j)' = FinalOf(g) /\ mem'[j].id = mem[g].id
    BY <1>2
  <2>2. PICK h \in KeptHeaders : FinalOf(k)' = FinalOf(h) /\ mem'[k].id = mem[h].id
    BY <1>2
  <2>3. g = h
    BY <1>3, <2>1, <2>2 DEF ObjectsDistinct
  <2> QED
    BY <1>1, <2>1, <2>2, <2>3 DEF FinalsApart
<1>4. \A k \in KeptHeaders' : mem'[k].id \in Ids
  BY <1>2 DEF ObjectsDistinct
<1> QED
  BY <1>3, <1>4 DEF ObjectsDistinct

\* The copies of two objects are two objects.
LEMMA DistinctWhenCopied ==
  ASSUME ObjectsDistinct, CompactInvariant, MapChunk
  PROVE  ObjectsDistinct'
<1>1. PICK o : o = heap.begin
  OBVIOUS
<1>2. PICK b \in Bases :
         /\ heap' = [begin |-> b, size |-> next_heap_size,
                     current |-> b + (heap.current - heap.begin)]
         /\ mem' = CopiedTo(b, mem) /\ fwd' = CopiedTo(b, fwd)
  BY DEF MapChunk
<1> DEFINE At(g) == b + (g - o)
<1>3. Copied(b, o)
  BY <1>1, <1>2, MapChunkEffect
<1>4. KeptHeaders = Marked /\ KeptHeaders' = {At(g) : g \in Marked}
  BY <1>3 DEF MapChunk, KeptHeaders, Copied
<1>5. Marked \subseteq DOMAIN mem
  BY DEF CompactInvariant, CompactTypeOK, HeapTypeOK, Marked
<1>6. \A g \in Marked : mem'[At(g)] = mem[g]
  BY <1>3, <1>5 DEF Copied
<1>7. ASSUME NEW j \in KeptHeaders', NEW k \in KeptHeaders', mem'[j].id = mem'[k].id
      PROVE  j = k
  <2>1. PICK g \in Marked : j = At(g)
    BY <1>4
  <2>2. PICK h \in Marked : k = At(h)
    BY <1>4
  <2>3. g = h
    BY <1>4, <1>6, <1>7, <2>1, <2>2 DEF ObjectsDistinct
  <2> QED
    BY <2>1, <2>2, <2>3
<1>8. \A k \in KeptHeaders' : mem'[k].id \in Ids
  BY <1>4, <1>6 DEF ObjectsDistinct
<1> QED
  BY <1>7, <1>8 DEF ObjectsDistinct

\* No step of the collector makes two objects look the same.
LEMMA CollectorKeepsDistinct ==
  ASSUME CompactInvariant, CompactInvariant', ObjectsDistinct, [CollectNext]_gcVars
  PROVE  ObjectsDistinct'
<1>1. CompactTypeOK /\ Marked \subseteq DOMAIN mem
  BY DEF CompactInvariant, CompactTypeOK, HeapTypeOK, Marked
<1>2. CASE MarkLoops
  <2>1. /\ mem' = mem
        /\ phase \in {"roots", "drain", "fields"} /\ phase' \in {"roots", "drain", "fields"}
    BY <1>2 DEF MarkLoops, SkipRoot, MarkRoot, Dequeue, EnqueueField, SkipField, FieldsDone,
                MarkReturns, heapVars
  <2>2. KeptHeaders = DOMAIN mem /\ KeptHeaders' = DOMAIN mem
    BY <2>1 DEF KeptHeaders
  <2> QED
    BY <2>1, <2>2, DistinctWhereTheyAre
<1>3. CASE StartLocate
  <2>1. UNCHANGED <<mem, fwd>> /\ phase = "roots" /\ phase' = "locate"
    BY <1>3 DEF StartLocate, MarkPhaseDone, heapVars
  <2>2. KeptHeaders = DOMAIN mem /\ KeptHeaders' = Marked
    BY <2>1 DEF KeptHeaders, Marked
  <2> QED
    BY <1>1, <2>1, <2>2, DistinctWhereTheyAre
<1>4. CASE ComputeLocation
  <2>1. /\ mem' = mem /\ phase = "locate" /\ phase' = "locate"
        /\ \/ fwd' = fwd
           \/ fwd' = [fwd EXCEPT ![scan].addr = location]
    BY <1>4 DEF ComputeLocation, markVars
  <2>2. Marked' = Marked
    BY <1>1, <2>1, ZenonT(30) DEF Marked, CompactTypeOK, HeapTypeOK, ForwardWord
  <2>3. KeptHeaders = Marked /\ KeptHeaders' = Marked
    BY <2>1, <2>2 DEF KeptHeaders
  <2> QED
    BY <2>1, <2>3, DistinctWhereTheyAre
<1>5. CASE MapChunk
  BY <1>5, DistinctWhenCopied
<1>6. CASE UpdateObject \/ UpdateObjectsDone \/ FixRoot \/ FixRootsDone \/ RelocateObject
  <2>1. GraphKept
    BY <1>6, UpdateObjectStep, UpdateObjectsDoneStep, FixRootStep, FixRootsDoneStep,
       DeadObjectStep, LiveObjectStep
  <2> QED
    BY <2>1, DistinctByLocation
<1>7. CASE FinishCompaction
  <2>1. KeptAsTheyAre
    BY <1>7, FinishCompactionStep
  <2> QED
    BY <2>1, DistinctWhereTheyAre DEF KeptAsTheyAre
<1>8. CASE UNCHANGED gcVars
  <2>1. CASE Collecting
    BY <1>8, <2>1, CompactStutter, DistinctByLocation
  <2>2. CASE ~Collecting
    <3>1. UNCHANGED <<mem, fwd, phase>>
      BY <1>8 DEF gcVars, heapVars, markVars
    <3>2. KeptHeaders' = KeptHeaders
      BY <2>2, <3>1 DEF KeptHeaders, Collecting, Marked
    <3> QED
      BY <3>1, <3>2, DistinctWhereTheyAre
  <2> QED
    BY <2>1, <2>2
<1> QED
  BY <1>2, <1>3, <1>4, <1>5, <1>6, <1>7, <1>8 DEF CollectNext, CompactNext

-----------------------------------------------------------------------------
(* References.                                                             *)

\* Whatever refers to an object refers to one that is kept.
LeadToKept ==
  /\ \A l \in RootSet, i \in Ids :
       ReadSlot(l) = <<"object", i>> => \E h \in KeptHeaders : mem[h].id = i
  /\ \A g \in KeptHeaders : \A k \in 1..Len(mem[g].flds), i \in Ids :
       ReadField(g, mem[g].flds[k]) = <<"object", i>> => \E h \in KeptHeaders : mem[h].id = i

LEMMA ReferencesLeadToKept == CompactInvariant => LeadToKept
<1> SUFFICES ASSUME CompactInvariant PROVE LeadToKept
  OBVIOUS
<1>1. CASE Collecting
  <2>1. GraphReadable
    BY <1>1, GraphIsReadable
  <2>2. ASSUME NEW r, NEW T, NEW v, Shows(r, T, v), NEW i, r = <<"object", i>>
        PROVE  \E h \in KeptHeaders : mem[h].id = i
    <3>1. T # {}
      BY <2>2 DEF Shows
    <3>2. PICK h \in KeptHeaders : r = Denoted(h)
      BY <2>2, <3>1 DEF Shows
    <3> QED
      BY <2>2, <3>2 DEF Denoted
  <2> QED
    BY <2>1, <2>2 DEF GraphReadable, LeadToKept
<1>2. CASE ~Collecting
  <2>1. ASSUME NEW v, is_valid_heap_pointer(v) => get_obj_header_ptr(v) \in KeptHeaders,
               NEW i, ReadNow(v) = <<"object", i>>
        PROVE  \E h \in KeptHeaders : mem[h].id = i
    BY <2>1 DEF ReadNow, Denoted
  <2>2. /\ \A l : ReadSlot(l) = ReadNow(slots[l])
        /\ \A h, v : ReadField(h, v) = ReadNow(v)
    BY <1>2 DEF ReadSlot, ReadField, Collecting
  <2>3. /\ \A l \in RootSet :
             is_valid_heap_pointer(slots[l]) => get_obj_header_ptr(slots[l]) \in KeptHeaders
        /\ \A g \in KeptHeaders : \A k \in 1..Len(mem[g].flds) :
             is_valid_heap_pointer(mem[g].flds[k])
               => get_obj_header_ptr(mem[g].flds[k]) \in KeptHeaders
    <3>1. CASE phase = "locate"
      <4>1. KeptHeaders = Marked
        BY <3>1 DEF KeptHeaders
      <4>2. Closed(Marked)
        BY <3>1, ExactFromInvariant DEF CompactInvariant, MarkedExactlyLive
      <4>3. \A l \in RootSet : Target(slots[l]) \subseteq Marked
        BY <4>2 DEF Closed, RootTargets, RootSet
      <4>4. \A g \in Marked : \A k \in 1..Len(mem[g].flds) : Target(mem[g].flds[k]) \subseteq Marked
        BY <4>2 DEF Closed, Successors
      <4> QED
        BY <4>1, <4>3, <4>4 DEF Target
    <3>2. CASE phase # "locate"
      <4>1. KeptHeaders = DOMAIN mem
        BY <1>2, <3>2 DEF KeptHeaders, Collecting
      <4>2. RootsSound /\ FieldsSound
        BY <1>2, <3>2
           DEF CompactInvariant, CompactTypeOK, Marking, Collecting, MarkInvariant, HeapInOrder,
               CompactedInOrder
      <4> QED
        BY <4>1, <4>2 DEF RootsSound, FieldsSound, SoundWord, RootSet
    <3> QED
      BY <3>1, <3>2
  <2> QED
    BY <2>1, <2>2, <2>3 DEF LeadToKept
<1> QED
  BY <1>1, <1>2

LEMMA ReferencesLeadToKeptAfterStep == (CompactInvariant => LeadToKept)'
BY ReferencesLeadToKept, PTL

-----------------------------------------------------------------------------
(* The store that the words represent.                                     *)

\* The object at h, as ObjectStore has it.
AbsObject(h) ==
  [kind |-> mem[h].kind, len |-> mem[h].len,
   flds |-> [k \in DOMAIN mem[h].flds |-> ReadField(h, mem[h].flds[k])]]

LEMMA AbsObjectsAreKept == AbsObjects \subseteq KeptHeaders
BY DEF AbsObjects

\* The store holds each object under its identity.
LEMMA StoreAt ==
  ObjectsDistinct =>
    /\ DOMAIN AbsStore = {mem[h].id : h \in AbsObjects}
    /\ AbsStore = [i \in DOMAIN AbsStore |-> AbsStore[i]]
    /\ \A h \in AbsObjects : AbsStore[mem[h].id] = AbsObject(h)
<1> SUFFICES ASSUME ObjectsDistinct
             PROVE  /\ DOMAIN AbsStore = {mem[h].id : h \in AbsObjects}
                    /\ AbsStore = [i \in DOMAIN AbsStore |-> AbsStore[i]]
                    /\ \A h \in AbsObjects : AbsStore[mem[h].id] = AbsObject(h)
  OBVIOUS
<1> DEFINE At(i) == CHOOSE g \in AbsObjects : mem[g].id = i
<1>1. AbsStore = [i \in {mem[h].id : h \in AbsObjects} |-> AbsObject(At(i))]
  BY DEF AbsStore, AbsObject
<1>2. ASSUME NEW h \in AbsObjects PROVE At(mem[h].id) = h
  <2>1. \A g \in AbsObjects : mem[g].id = mem[h].id <=> g = h
    BY AbsObjectsAreKept DEF ObjectsDistinct
  <2> QED
    BY <2>1
<1> HIDE DEF At
<1> QED
  BY <1>1, <1>2

LEMMA StoreAtAfterStep ==
  (ObjectsDistinct =>
     /\ DOMAIN AbsStore = {mem[h].id : h \in AbsObjects}
     /\ AbsStore = [i \in DOMAIN AbsStore |-> AbsStore[i]]
     /\ \A h \in AbsObjects : AbsStore[mem[h].id] = AbsObject(h))'
BY StoreAt, PTL

\* j is, after the step, the object that h was.
SameObject(h, j) == mem'[j].id = mem[h].id /\ AbsObject(j)' = AbsObject(h)

\* Objects that are what objects were make up a part of the store, and all of it when
\* none is missing.
LEMMA PartOfStore ==
  ASSUME ObjectsDistinct, ObjectsDistinct',
         \A j \in AbsObjects' : \E h \in AbsObjects : SameObject(h, j)
  PROVE  /\ DOMAIN AbsStore' \subseteq DOMAIN AbsStore
         /\ AbsStore' = [i \in DOMAIN AbsStore' |-> AbsStore[i]]
<1>1. /\ DOMAIN AbsStore = {mem[h].id : h \in AbsObjects}
      /\ \A h \in AbsObjects : AbsStore[mem[h].id] = AbsObject(h)
  BY StoreAt
<1>2. /\ DOMAIN AbsStore' = {mem'[j].id : j \in AbsObjects'}
      /\ AbsStore' = [i \in DOMAIN AbsStore' |-> AbsStore'[i]]
      /\ \A j \in AbsObjects' : AbsStore'[mem'[j].id] = AbsObject(j)'
  BY StoreAtAfterStep
<1>3. ASSUME NEW i \in DOMAIN AbsStore'
      PROVE  i \in DOMAIN AbsStore /\ AbsStore'[i] = AbsStore[i]
  <2>1. PICK j \in AbsObjects' : mem'[j].id = i
    BY <1>2
  <2>2. PICK h \in AbsObjects : SameObject(h, j)
    OBVIOUS
  <2> QED
    BY <1>1, <1>2, <2>1, <2>2 DEF SameObject
<1> QED
  BY <1>2, <1>3

LEMMA SameStore ==
  ASSUME ObjectsDistinct, ObjectsDistinct',
         \A j \in AbsObjects' : \E h \in AbsObjects : SameObject(h, j),
         \A h \in AbsObjects : \E j \in AbsObjects' : SameObject(h, j)
  PROVE  AbsStore' = AbsStore
<1>1. /\ DOMAIN AbsStore' \subseteq DOMAIN AbsStore
      /\ AbsStore' = [i \in DOMAIN AbsStore' |-> AbsStore[i]]
  BY PartOfStore
<1>2. DOMAIN AbsStore \subseteq DOMAIN AbsStore'
  BY StoreAt, StoreAtAfterStep DEF SameObject
<1>3. DOMAIN AbsStore' = DOMAIN AbsStore
  BY <1>1, <1>2
<1> QED
  BY <1>1, <1>3, StoreAt

-----------------------------------------------------------------------------
(* Fields and arguments, as sequences.                                     *)

LEMMA LenOfFunction ==
  ASSUME NEW n \in Nat, NEW f, f = [i \in 1..n |-> f[i]]
  PROVE  Len(f) = n
<1> DEFINE S == {f[i] : i \in 1..n}
<1>1. f \in [1..n -> S]
  OBVIOUS
<1> HIDE DEF S
<1>2. f \in Seq(S)
  BY <1>1
<1> QED
  BY <1>1, <1>2

\* What an object of the store says of the words of the object at h.
FieldsRead(h) ==
  /\ Len(mem[h].flds) \in Nat
  /\ DOMAIN mem[h].flds = 1..Len(mem[h].flds)
  /\ Len(AbsObject(h).flds) = Len(mem[h].flds)
  /\ AbsObject(h).flds = [k \in 1..Len(mem[h].flds) |-> ReadField(h, mem[h].flds[k])]
  /\ \A k \in 1..Len(mem[h].flds) : AbsObject(h).flds[k] = ReadField(h, mem[h].flds[k])

LEMMA FieldsAreRead == HeapTypeOK => \A h \in DOMAIN mem : FieldsRead(h)
<1> SUFFICES ASSUME HeapTypeOK, NEW h \in DOMAIN mem PROVE FieldsRead(h)
  OBVIOUS
<1>1. mem[h].flds \in Seq(Word)
  BY DEF HeapTypeOK, ObjectOK, Object
<1>2. PICK n : n = Len(mem[h].flds)
  OBVIOUS
<1>3. n \in Nat /\ DOMAIN mem[h].flds = 1..n
  BY <1>1, <1>2
<1>4. AbsObject(h).flds = [k \in 1..n |-> ReadField(h, mem[h].flds[k])]
  BY <1>3 DEF AbsObject
<1>5. \A k \in 1..n : AbsObject(h).flds[k] = ReadField(h, mem[h].flds[k])
  BY <1>4
<1>6. AbsObject(h).flds = [k \in 1..n |-> AbsObject(h).flds[k]]
  BY <1>4
<1>7. Len(AbsObject(h).flds) = n
  BY <1>3, <1>6, LenOfFunction
<1> QED
  BY <1>2, <1>3, <1>4, <1>5, <1>7 DEF FieldsRead

LEMMA FieldsAreReadAfterStep == (HeapTypeOK => \A h \in DOMAIN mem : FieldsRead(h))'
BY FieldsAreRead, PTL

\* The object that the constructor is to make.
CallRead(n) ==
  /\ n = num_fields(call.kind, call.len) /\ n \in Nat
  /\ AbsCall # NoCall
  /\ AbsCall.kind = call.kind /\ AbsCall.len = call.len /\ AbsCall.var = call.dst
  /\ AbsCall = [kind |-> call.kind, len |-> call.len, var |-> call.dst, flds |-> AbsCall.flds]
  /\ AbsCall.flds = [k \in 1..n |-> AbsCall.flds[k]]
  /\ Len(AbsCall.flds) = n
  /\ \A k \in 1..n :
       \/ call.nargs = 0 /\ AbsCall.flds[k] = <<"word", BoxedZero>>
       \/ /\ call.nargs = n
          /\ ArgLoc[k] \in ArgsInUse /\ AbsCall.flds[k] = ReadSlot(ArgLoc[k])

LEMMA CallIsRead == CallInOrder /\ call # NoCall => \E n \in Nat : CallRead(n)
<1> SUFFICES ASSUME CallInOrder, call # NoCall PROVE \E n \in Nat : CallRead(n)
  OBVIOUS
<1>1. PICK n : n = num_fields(call.kind, call.len)
  OBVIOUS
<1>2. /\ call.kind \in Kinds /\ n \in Nat
      /\ call.nargs \in {0, n}
  BY <1>1, GCAssumption DEF CallInOrder, num_fields
<1>3. PICK f : f = [k \in 1..n |-> IF call.nargs = 0 THEN <<"word", BoxedZero>>
                                   ELSE ReadSlot(ArgLoc[k])]
  OBVIOUS
<1>4. AbsCall = [kind |-> call.kind, len |-> call.len, var |-> call.dst, flds |-> f]
  BY <1>1, <1>3 DEF AbsCall
<1>5. f = [k \in 1..n |-> f[k]] /\ Len(f) = n
  <2>1. f = [k \in 1..n |-> f[k]]
    BY <1>3
  <2> QED
    BY <1>2, <2>1, LenOfFunction
<1>6. AbsCall # NoCall
  <2>1. AbsCall.kind # NoCall.kind
    BY <1>2, <1>4 DEF NoCall, Kinds
  <2> QED
    BY <2>1
<1>7. ASSUME NEW k \in 1..n
      PROVE  \/ call.nargs = 0 /\ f[k] = <<"word", BoxedZero>>
             \/ /\ call.nargs = n
                /\ ArgLoc[k] \in ArgsInUse /\ f[k] = ReadSlot(ArgLoc[k])
  BY <1>2, <1>3 DEF ArgsInUse, ArgCount
<1> QED
  BY <1>1, <1>2, <1>4, <1>5, <1>6, <1>7 DEF CallRead

LEMMA CallIsReadAfterStep == (CallInOrder /\ call # NoCall => \E n \in Nat : CallRead(n))'
BY CallIsRead, PTL

\* A constructor that still runs, with arguments that read as they did.
LEMMA SameCall ==
  ASSUME call' = call, CallInOrder, \A l \in ArgsInUse : ReadSlot(l)' = ReadSlot(l)
  PROVE  AbsCall' = AbsCall
<1>1. CASE call = NoCall
  BY <1>1 DEF AbsCall
<1>2. CASE call # NoCall
  <2>1. PICK n : n = num_fields(call.kind, call.len)
    OBVIOUS
  <2>2. call.nargs = 0 \/ \A k \in 1..n : ArgLoc[k] \in ArgsInUse
    BY <1>2, <2>1 DEF CallInOrder, ArgsInUse, ArgCount
  <2>3. \A k \in 1..n : (IF call.nargs = 0 THEN <<"word", BoxedZero>> ELSE ReadSlot(ArgLoc[k])')
                      = (IF call.nargs = 0 THEN <<"word", BoxedZero>> ELSE ReadSlot(ArgLoc[k]))
    BY <2>2
  <2>4. AbsCall = [kind |-> call.kind, len |-> call.len, var |-> call.dst,
                   flds |-> [k \in 1..n |-> IF call.nargs = 0 THEN <<"word", BoxedZero>>
                                            ELSE ReadSlot(ArgLoc[k])]]
    BY <1>2, <2>1 DEF AbsCall
  <2>5. AbsCall' = [kind |-> call.kind, len |-> call.len, var |-> call.dst,
                    flds |-> [k \in 1..n |-> IF call.nargs = 0 THEN <<"word", BoxedZero>>
                                             ELSE ReadSlot(ArgLoc[k])']]
    BY <1>2, <2>1 DEF AbsCall
  <2> QED
    BY <2>3, <2>4, <2>5
<1> QED
  BY <1>1, <1>2

-----------------------------------------------------------------------------
(* The collector.                                                          *)

Env == [l \in ProgramLoc |-> ReadSlot(l)]

\* A step of the collector forgets some objects, or none.
LEMMA CollectorForgets ==
  ASSUME GCInvariant, GCInvariant', ObjectsDistinct, ObjectsDistinct', ~Outside,
         UNCHANGED call, [CollectNext]_gcVars
  PROVE  Abstract!Forget
<1>1. /\ CompactInvariant /\ CallInOrder /\ VariablesAreRoots /\ HeapTypeOK
      /\ phase # "idle" /\ phase # "construct" /\ call # NoCall
  BY DEF GCInvariant, GCTypeOK, Outside, CallInOrder
<1>2. CompactInvariant' /\ Invisible
  BY <1>1, CollectStep, CollectStepInvisible
<1>3. UNCHANGED <<need, extra>> /\ RootSet' = RootSet
  BY CollectorLeaves DEF RootSet, RootOrder
<1>4. phase' # "construct" /\ HeapTypeOK'
  BY <1>2 DEF CompactInvariant, CompactTypeOK
<1>5. AbsObjects = KeptHeaders /\ AbsObjects' = KeptHeaders'
  BY <1>1, <1>4 DEF AbsObjects
<1>6. ProgramLoc \cup ArgsInUse \subseteq RootSet
  BY <1>1, HeldAreRoots
<1>7. \A l \in RootSet : ReadSlot(l)' = ReadSlot(l)
  BY <1>2, <1>3 DEF Invisible, GraphRoots
<1>8. Env' = Env /\ AbsCall' = AbsCall
  BY <1>1, <1>6, <1>7, SameCall DEF Env
<1>9. \A j \in AbsObjects' : \E h \in AbsObjects : SameObject(h, j)
  <2>1. ASSUME NEW j \in KeptHeaders' PROVE \E h \in KeptHeaders : SameObject(h, j)
    <3>1. PICK h \in KeptHeaders : ObjectSeen(j)' = ObjectSeen(h)
      BY <1>2, GraphOfKept DEF Invisible
    <3>2. /\ ObjectSeen(j)'.id = mem'[j].id /\ ObjectSeen(h).id = mem[h].id
          /\ AbsObject(j)' = [kind |-> ObjectSeen(j)'.kind, len |-> ObjectSeen(j)'.len,
                              flds |-> ObjectSeen(j)'.flds]
          /\ AbsObject(h) = [kind |-> ObjectSeen(h).kind, len |-> ObjectSeen(h).len,
                             flds |-> ObjectSeen(h).flds]
      BY DEF ObjectSeen, AbsObject
    <3> QED
      BY <3>1, <3>2 DEF SameObject
  <2> QED
    BY <1>5, <2>1
<1>10. PICK K : K = DOMAIN AbsStore'
  OBVIOUS
<1>11. K \subseteq DOMAIN AbsStore /\ AbsStore' = [i \in K |-> AbsStore[i]]
  BY <1>9, <1>10, PartOfStore
<1>12. /\ \A h \in KeptHeaders' : mem'[h].id \in K
       /\ \A i \in K : \E h \in KeptHeaders' : mem'[h].id = i /\ AbsStore[i] = AbsObject(h)'
  <2>1. /\ K = {mem'[h].id : h \in KeptHeaders'}
        /\ \A h \in KeptHeaders' : AbsStore'[mem'[h].id] = AbsObject(h)'
    BY <1>5, <1>10, StoreAtAfterStep
  <2>2. \A i \in K : AbsStore'[i] = AbsStore[i]
    BY <1>11
  <2> QED
    BY <2>1, <2>2
<1>13. LeadToKept'
  BY <1>2, ReferencesLeadToKeptAfterStep
<1>14. \A l \in RootSet, i \in Ids : ReadSlot(l) = <<"object", i>> => i \in K
  BY <1>3, <1>7, <1>12, <1>13 DEF LeadToKept
<1>15. Abstract!Sufficient(K)
  <2>1. \A v \in ProgramLoc : \A i \in Ids : Env[v] = <<"object", i>> => i \in K
    BY <1>6, <1>14 DEF Env
  <2>2. Abstract!ReferencesOf(AbsCall.flds) \subseteq K
    <3>1. PICK n \in Nat : CallRead(n)
      BY <1>1, CallIsRead
    <3>2. ASSUME NEW i \in Ids, NEW k \in 1..n, AbsCall.flds[k] = <<"object", i>>
          PROVE  i \in K
      <4>1. AbsCall.flds[k] # <<"word", BoxedZero>>
        BY <3>2
      <4>2. ArgLoc[k] \in ArgsInUse /\ AbsCall.flds[k] = ReadSlot(ArgLoc[k])
        BY <3>1, <4>1 DEF CallRead
      <4> QED
        BY <1>6, <1>14, <3>2, <4>2
    <3> QED
      BY <3>1, <3>2 DEF CallRead, Abstract!ReferencesOf, Abstract!Ref
  <2>3. ASSUME NEW j \in K PROVE Abstract!ReferencesOf(AbsStore[j].flds) \subseteq K
    <3>1. PICK h \in KeptHeaders' : AbsStore[j] = AbsObject(h)'
      BY <1>12
    <3>2. FieldsRead(h)'
      BY <1>2, <1>4, KeptAreObjectsAfterStep, FieldsAreReadAfterStep
    <3>3. ASSUME NEW i \in Ids, NEW k \in 1..Len(AbsStore[j].flds),
                 AbsStore[j].flds[k] = <<"object", i>>
          PROVE  i \in K
      <4>1. k \in 1..Len(mem'[h].flds) /\ AbsStore[j].flds[k] = ReadField(h, mem[h].flds[k])'
        BY <3>1, <3>2 DEF FieldsRead
      <4>2. ReadField(h, mem[h].flds[k])' = <<"object", i>>
        BY <3>3, <4>1
      <4>3. \E g \in KeptHeaders' : mem'[g].id = i
        BY <1>13, <4>1, <4>2 DEF LeadToKept
      <4> QED
        BY <1>12, <4>3
    <3> QED
      BY <3>3 DEF Abstract!ReferencesOf, Abstract!Ref
  <2> QED
    BY <2>1, <2>2, <2>3 DEF Abstract!Sufficient, Abstract!Ref, Env
<1> QED
  BY <1>8, <1>11, <1>15 DEF Abstract!Forget, Env

-----------------------------------------------------------------------------
(* The program.                                                            *)

\* Words are read as they are, and all objects are there.
ReadsNow ==
  /\ KeptHeaders = DOMAIN mem
  /\ \A l : ReadSlot(l) = ReadNow(slots[l])
  /\ \A h, v : ReadField(h, v) = ReadNow(v)

LEMMA WholeReadsNow == Whole => ReadsNow
BY DEF Whole, ReadsNow, KeptHeaders, ReadSlot, ReadField, Collecting

LEMMA WholeReadsNowAfterStep == (Whole => ReadsNow)'
BY WholeReadsNow, PTL

\* When mem, the chunk and what is finished stay, so do the store and its objects.
LEMMA StoreStays ==
  ASSUME ObjectsDistinct, ReadsNow, ReadsNow', UNCHANGED <<heap, mem>>,
         phase # "construct", phase' # "construct"
  PROVE  /\ ObjectsDistinct' /\ AbsStore' = AbsStore
         /\ \A v : ReadNow(v)' = ReadNow(v)
<1>1. \A v : ReadNow(v)' = ReadNow(v)
  BY DEF ReadNow, is_valid_heap_pointer, Denoted
<1>2. KeptHeaders' = KeptHeaders /\ AbsObjects' = AbsObjects
  BY DEF ReadsNow, AbsObjects
<1>3. ObjectsDistinct'
  BY <1>2, DistinctWhereTheyAre
<1>4. \A h, v : ReadField(h, v)' = ReadField(h, v)
  BY <1>1 DEF ReadsNow
<1>5. ASSUME NEW h PROVE SameObject(h, h)
  BY <1>4 DEF SameObject, AbsObject
<1>6. AbsStore' = AbsStore
  BY <1>2, <1>3, <1>5, SameStore
<1> QED
  BY <1>1, <1>3, <1>6

\* Words are read by identities: other fields in an object do not matter to them.
LEMMA ReadingByIds ==
  ASSUME UNCHANGED heap, NEW h \in DOMAIN mem, NEW o, mem' = [mem EXCEPT ![h] = o],
         o.id = mem[h].id
  PROVE  \A x : ReadNow(x)' = ReadNow(x)
<1>1. ASSUME NEW a PROVE mem'[a].id = mem[a].id
  <2>1. CASE a \in DOMAIN mem
    BY <2>1
  <2>2. CASE a \notin DOMAIN mem
    BY <2>2
  <2> QED
    BY <2>1, <2>2
<1> QED
  BY <1>1 DEF ReadNow, Denoted, is_valid_heap_pointer

\* What a variable gets, the abstract variable gets.
LEMMA SlotAssigned ==
  ASSUME GCInvariant, ObjectsDistinct, Idle, NEW d \in ProgramLoc, NEW v,
         slots' = [slots EXCEPT ![d] = v],
         UNCHANGED <<heap, mem, fwd, extra, controlVars>>
  PROVE  /\ ObjectsDistinct' /\ ReadsNow
         /\ Env' = [Env EXCEPT ![d] = ReadNow(v)]
         /\ AbsCall' = AbsCall /\ AbsStore' = AbsStore
<1>1. /\ phase = "idle" /\ phase' = "idle" /\ Whole /\ Whole' /\ call = NoCall /\ call' = NoCall
      /\ UNCHANGED <<heap, mem>>
  BY DEF Idle, Whole, controlVars, markVars, GCInvariant, CallInOrder
<1>2. ReadsNow /\ ReadsNow'
  BY <1>1, WholeReadsNow, WholeReadsNowAfterStep
<1>3. ObjectsDistinct' /\ AbsStore' = AbsStore /\ \A w : ReadNow(w)' = ReadNow(w)
  BY <1>1, <1>2, StoreStays
<1>4. AbsCall' = AbsCall
  BY <1>1 DEF AbsCall
<1>5. ProgramLoc \subseteq Loc /\ slots \in [Loc -> Word]
  BY GCAssumption DEF GCInvariant, GCTypeOK, HeapTypeOK
<1>6. \A l \in ProgramLoc : ReadSlot(l)' = IF l = d THEN ReadNow(v) ELSE ReadSlot(l)
  <2>1. \A l \in ProgramLoc : slots'[l] = IF l = d THEN v ELSE slots[l]
    BY <1>5
  <2>2. ReadNow(v)' = ReadNow(v) /\ \A l : ReadNow(slots[l])' = ReadNow(slots'[l])
    BY <1>1, <1>3 DEF ReadNow, is_valid_heap_pointer, Denoted
  <2> QED
    BY <1>2, <2>1, <2>2 DEF ReadsNow
<1>7. Env' = [Env EXCEPT ![d] = ReadNow(v)]
  BY <1>6 DEF Env
<1> QED
  BY <1>2, <1>3, <1>4, <1>7

LEMMA AssignImplements ==
  ASSUME GCInvariant, ObjectsDistinct, Assign
  PROVE  ObjectsDistinct' /\ Abstract!Assign
<1>1. PICK d \in ProgramLoc, v \in {BoxedZero} \cup {slots[l] : l \in ProgramLoc} :
        slots' = [slots EXCEPT ![d] = v]
  BY DEF Assign
<1>2. Idle /\ UNCHANGED <<heap, mem, fwd, extra, controlVars>>
  BY DEF Assign
<1>3. /\ ObjectsDistinct' /\ ReadsNow
      /\ Env' = [Env EXCEPT ![d] = ReadNow(v)]
      /\ AbsCall' = AbsCall /\ AbsStore' = AbsStore
  BY <1>1, <1>2, SlotAssigned
<1>4. ReadNow(v) \in Abstract!Loadable
  <2>1. CASE v = BoxedZero
    <3>1. ReadNow(v) = <<"word", BoxedZero>> /\ BoxedZero \in Unboxed
      BY <2>1, GCAssumption DEF ReadNow, is_valid_heap_pointer, is_valid_pointer
    <3> QED
      BY <3>1 DEF Abstract!Loadable
  <2>2. CASE v # BoxedZero
    <3>1. PICK l \in ProgramLoc : v = slots[l]
      BY <1>1, <2>2
    <3>2. ReadNow(v) = Env[l]
      BY <1>3, <3>1 DEF ReadsNow, Env
    <3> QED
      BY <3>1, <3>2 DEF Abstract!Loadable, Env
  <2> QED
    BY <2>1, <2>2
<1> QED
  BY <1>1, <1>3, <1>4 DEF Abstract!Assign, Env

\* The object that a variable holds.
LEMMA ObjectHeld ==
  ASSUME GCInvariant, ObjectsDistinct, Idle, NEW o \in ProgramLoc, HoldsObject(o)
  PROVE  LET h == ContentOf(o)
             i == mem[h].id
         IN  /\ h \in DOMAIN mem /\ h \in AbsObjects
             /\ Env[o] = <<"object", i>>
             /\ i \in DOMAIN AbsStore /\ AbsStore[i] = AbsObject(h)
             /\ FieldsRead(h)
<1> DEFINE h == ContentOf(o)
           i == mem[h].id
<1>1. h \in DOMAIN mem
  BY HeldWords
<1>2. ReadsNow
  BY WholeReadsNow DEF Idle, Whole
<1>3. h \in AbsObjects
  BY <1>1, <1>2 DEF AbsObjects, Idle, ReadsNow
<1>4. Env[o] = <<"object", i>>
  BY <1>2 DEF Env, ReadsNow, ReadNow, HoldsObject, ContentOf, Denoted
<1>5. i \in DOMAIN AbsStore /\ AbsStore[i] = AbsObject(h)
  BY <1>3, StoreAt
<1>6. FieldsRead(h)
  BY <1>1, FieldsAreRead DEF GCInvariant, GCTypeOK
<1> QED
  BY <1>1, <1>3, <1>4, <1>5, <1>6

LEMMA BelemImplements ==
  ASSUME GCInvariant, ObjectsDistinct, Belem
  PROVE  ObjectsDistinct' /\ Abstract!Assign
<1>1. PICK d \in ProgramLoc, o \in ProgramLoc :
         /\ HoldsObject(o)
         /\ \E k \in 1..Len(mem[ContentOf(o)].flds) :
              slots' = [slots EXCEPT ![d] = mem[ContentOf(o)].flds[k]]
  BY DEF Belem
<1>2. PICK h, v, k, i :
         /\ h = ContentOf(o) /\ k \in 1..Len(mem[h].flds)
         /\ v = mem[h].flds[k] /\ i = mem[h].id
         /\ slots' = [slots EXCEPT ![d] = v]
  BY <1>1
<1>3. Idle /\ UNCHANGED <<heap, mem, fwd, extra, controlVars>>
  BY DEF Belem
<1>4. /\ ObjectsDistinct' /\ ReadsNow
      /\ Env' = [Env EXCEPT ![d] = ReadNow(v)]
      /\ AbsCall' = AbsCall /\ AbsStore' = AbsStore
  BY <1>2, <1>3, SlotAssigned
<1>5. /\ Env[o] = <<"object", i>>
      /\ i \in DOMAIN AbsStore /\ AbsStore[i] = AbsObject(h) /\ FieldsRead(h)
  BY <1>1, <1>2, <1>3, ObjectHeld
<1>6. k \in 1..Len(AbsStore[i].flds) /\ AbsStore[i].flds[k] = ReadNow(v)
  BY <1>2, <1>4, <1>5 DEF FieldsRead, ReadsNow
<1>7. ReadNow(v) \in Abstract!Loadable
  <2>1. i \in {j \in DOMAIN AbsStore : \E x \in ProgramLoc : Env[x] = <<"object", j>>}
    BY <1>5
  <2>2. ReadNow(v) \in {AbsStore[i].flds[m] : m \in 1..Len(AbsStore[i].flds)}
    BY <1>6
  <2> QED
    BY <2>1, <2>2 DEF Abstract!Loadable, Abstract!Ref, Env
<1> QED
  BY <1>2, <1>4, <1>7 DEF Abstract!Assign, Env

LEMMA BstaImplements ==
  ASSUME GCInvariant, GCInvariant', ObjectsDistinct, Bsta
  PROVE  ObjectsDistinct' /\ Abstract!SetField
<1>1. PICK o \in ProgramLoc, v \in ProgramLoc :
         /\ HoldsObject(o)
         /\ \E k \in 1..Len(mem[ContentOf(o)].flds) :
              mem' = [mem EXCEPT ![ContentOf(o)].flds[k] = slots[v]]
  BY DEF Bsta
<1>2. PICK h, w, k, i :
         /\ h = ContentOf(o) /\ w = slots[v] /\ k \in 1..Len(mem[h].flds) /\ i = mem[h].id
         /\ mem' = [mem EXCEPT ![h].flds[k] = w]
  BY <1>1
<1>3. /\ Idle /\ phase = "idle" /\ phase' = "idle" /\ Whole /\ Whole'
      /\ UNCHANGED <<heap, slots, call>> /\ call = NoCall
  BY DEF Bsta, Idle, Whole, controlVars, markVars, GCInvariant, CallInOrder
<1>4. ReadsNow /\ ReadsNow'
  BY <1>3, WholeReadsNow, WholeReadsNowAfterStep
<1>5. /\ h \in DOMAIN mem /\ Env[o] = <<"object", i>>
      /\ i \in DOMAIN AbsStore /\ AbsStore[i] = AbsObject(h) /\ FieldsRead(h)
  BY <1>1, <1>2, <1>3, ObjectHeld
<1>6. HeapTypeOK /\ HeapTypeOK' /\ mem[h] \in Object /\ mem[h].flds \in Seq(Word)
  BY <1>5 DEF GCInvariant, GCTypeOK, HeapTypeOK, ObjectOK, Object
<1>7. PICK f : f = [mem[h].flds EXCEPT ![k] = w]
  OBVIOUS
<1>8. /\ DOMAIN mem' = DOMAIN mem
      /\ \A g \in DOMAIN mem : g # h => mem'[g] = mem[g]
      /\ mem'[h] = [mem[h] EXCEPT !.flds = f]
  BY <1>2, <1>5, <1>7
<1>9. /\ mem'[h].kind = mem[h].kind /\ mem'[h].len = mem[h].len /\ mem'[h].id = mem[h].id
      /\ mem'[h].flds = f
      /\ \A g \in DOMAIN mem : mem'[g].id = mem[g].id
  BY <1>6, <1>8 DEF Object
<1>10. KeptHeaders' = KeptHeaders /\ AbsObjects' = DOMAIN mem /\ AbsObjects = DOMAIN mem
  BY <1>3, <1>4, <1>8 DEF ReadsNow, AbsObjects
<1>11. ObjectsDistinct'
  BY <1>4, <1>9, <1>10, DistinctWhereTheyAre DEF ReadsNow
<1>12. \A x : ReadNow(x)' = ReadNow(x)
  <2>1. PICK q : q = [mem[h] EXCEPT !.flds = f]
    OBVIOUS
  <2>2. mem' = [mem EXCEPT ![h] = q] /\ q.id = mem[h].id
    BY <1>2, <1>5, <1>7, <1>8, <1>9, <2>1
  <2> QED
    BY <1>3, <1>5, <2>2, ReadingByIds
<1>13. Env' = Env /\ AbsCall' = AbsCall
  BY <1>3, <1>4, <1>12 DEF Env, AbsCall, ReadsNow
<1>14. Env[v] = ReadNow(w)
  BY <1>2, <1>4 DEF Env, ReadsNow
<1>15. \A g \in DOMAIN mem : g # h => AbsObject(g)' = AbsObject(g)
  BY <1>4, <1>8, <1>12 DEF AbsObject, ReadsNow
<1>16. AbsObject(h)' = [AbsObject(h) EXCEPT !.flds[k] = Env[v]]
  <2>1. PICK n : n = Len(mem[h].flds)
    OBVIOUS
  <2>2. /\ n \in Nat /\ DOMAIN f = 1..n /\ Len(f) = n
        /\ \A m \in 1..n : f[m] = IF m = k THEN w ELSE mem[h].flds[m]
    BY <1>2, <1>5, <1>6, <1>7, <2>1 DEF FieldsRead
  <2>3. AbsObject(h).flds = [m \in 1..n |-> ReadNow(mem[h].flds[m])]
    BY <1>4, <1>5, <2>1 DEF FieldsRead, ReadsNow
  <2>4. AbsObject(h)'.flds = [m \in 1..n |-> ReadNow(f[m])]
    <3>1. FieldsRead(h)'
      BY <1>5, <1>6, <1>8, FieldsAreReadAfterStep
    <3>2. \A m \in 1..n : ReadField(h, mem[h].flds[m])' = ReadNow(f[m])
      BY <1>4, <1>9, <1>12 DEF ReadsNow
    <3> QED
      BY <1>9, <2>2, <3>1, <3>2 DEF FieldsRead
  <2>5. AbsObject(h)'.flds = [AbsObject(h).flds EXCEPT ![k] = Env[v]]
    BY <1>14, <2>2, <2>3, <2>4
  <2>6. PICK q : q = AbsObject(h)'.flds
    OBVIOUS
  <2>7. AbsObject(h)' = [kind |-> mem[h].kind, len |-> mem[h].len, flds |-> q]
    BY <1>9, <2>6 DEF AbsObject
  <2>8. [AbsObject(h) EXCEPT !.flds = q] = [kind |-> mem[h].kind, len |-> mem[h].len, flds |-> q]
    <3>1. PICK p : AbsObject(h) = [kind |-> mem[h].kind, len |-> mem[h].len, flds |-> p]
      BY DEF AbsObject
    <3> QED
      BY <3>1
  <2> QED
    BY <2>5, <2>6, <2>7, <2>8
<1>17. AbsStore' = [AbsStore EXCEPT ![i].flds[k] = Env[v]]
  <2> DEFINE new == [AbsObject(h) EXCEPT !.flds[k] = Env[v]]
  <2>1. [AbsStore EXCEPT ![i].flds[k] = Env[v]] = [AbsStore EXCEPT ![i] = new]
    BY <1>5
  <2> HIDE DEF new
  <2>2. /\ DOMAIN AbsStore' = {mem[g].id : g \in DOMAIN mem}
        /\ AbsStore' = [j \in DOMAIN AbsStore' |-> AbsStore'[j]]
        /\ \A g \in DOMAIN mem : AbsStore'[mem[g].id] = AbsObject(g)'
    BY <1>8, <1>9, <1>10, <1>11, StoreAtAfterStep
  <2>3. /\ DOMAIN AbsStore = {mem[g].id : g \in DOMAIN mem}
        /\ AbsStore = [j \in DOMAIN AbsStore |-> AbsStore[j]]
        /\ \A g \in DOMAIN mem : AbsStore[mem[g].id] = AbsObject(g)
    BY <1>10, StoreAt
  <2>4. AbsObject(h)' = new
    BY <1>16 DEF new
  <2>5. \A j \in DOMAIN AbsStore : AbsStore'[j] = IF j = i THEN new ELSE AbsStore[j]
    BY <1>2, <1>5, <1>15, <2>2, <2>3, <2>4
  <2>6. AbsStore' = [AbsStore EXCEPT ![i] = new]
    BY <2>2, <2>3, <2>5
  <2> QED
    BY <2>1, <2>6
<1>18. k \in 1..Len(AbsStore[i].flds)
  BY <1>2, <1>5 DEF FieldsRead
<1> QED
  BY <1>5, <1>11, <1>13, <1>17, <1>18 DEF Abstract!SetField, Abstract!Ref, Env

-----------------------------------------------------------------------------
(* The constructors.                                                       *)

LEMMA CallConstructorImplements ==
  ASSUME GCInvariant, GCInvariant', ObjectsDistinct, CallConstructor
  PROVE  ObjectsDistinct' /\ Abstract!Call
<1>1. /\ phase = "idle" /\ phase' = "alloc" /\ Whole /\ Whole' /\ call = NoCall
      /\ UNCHANGED <<heap, mem>>
  BY DEF CallConstructor, Idle, Whole, GCInvariant, CallInOrder
<1>2. PICK sh, d, n, from :
         /\ sh \in Shapes /\ d \in ProgramLoc
         /\ n = num_fields(sh.kind, sh.len)
         /\ from \in {<< >>} \cup [1..n -> ProgramLoc]
         /\ slots' = [l \in Loc |->
                        IF \E i \in 1..Len(from) : ArgLoc[i] = l
                        THEN slots[from[CHOOSE i \in 1..Len(from) : ArgLoc[i] = l]]
                        ELSE slots[l]]
         /\ call' = [kind |-> sh.kind, len |-> sh.len, nargs |-> Len(from), dst |-> d]
  BY DEF CallConstructor
<1>3. PICK m : m = Len(from)
  OBVIOUS
<1>4. ReadsNow /\ ReadsNow'
  BY <1>1, WholeReadsNow, WholeReadsNowAfterStep
<1>5. ObjectsDistinct' /\ AbsStore' = AbsStore /\ \A w : ReadNow(w)' = ReadNow(w)
  BY <1>1, <1>4, StoreStays
<1>6. /\ n \in Nat /\ n <= Len(ArgLoc) /\ Len(ArgLoc) \in Nat
      /\ \A i \in 1..Len(ArgLoc) : ArgLoc[i] \in Loc \ ProgramLoc
      /\ \A i, j \in 1..Len(ArgLoc) : ArgLoc[i] = ArgLoc[j] => i = j
      /\ ProgramLoc \subseteq Loc
  BY <1>2, GCAssumption DEF num_fields
<1>7. m \in {0, n} /\ \A i \in 1..m : from[i] \in ProgramLoc
  BY <1>2, <1>3, <1>6, ArgumentsPassed
<1>8. \A l \in ProgramLoc : slots'[l] = slots[l]
  BY <1>2, <1>3, <1>6, <1>7
<1>9. Env' = Env
  <2>1. ASSUME NEW l \in ProgramLoc PROVE ReadSlot(l)' = ReadSlot(l)
    <3>1. PICK w : w = slots[l]
      OBVIOUS
    <3>2. ReadSlot(l)' = ReadNow(w)'
      BY <1>1, <1>4, <1>8, <3>1 DEF ReadsNow, ReadNow, is_valid_heap_pointer, Denoted
    <3> QED
      BY <1>4, <1>5, <3>1, <3>2 DEF ReadsNow
  <2> QED
    BY <2>1 DEF Env
<1>10. ASSUME NEW k \in 1..m PROVE ReadSlot(ArgLoc[k])' = Env[from[k]]
  <2>1. k \in 1..Len(ArgLoc) /\ ArgLoc[k] \in Loc
    BY <1>6, <1>7
  <2>2. \A i \in 1..m : ArgLoc[i] = ArgLoc[k] <=> i = k
    BY <1>6, <1>7, <2>1
  <2>3. (CHOOSE i \in 1..m : ArgLoc[i] = ArgLoc[k]) = k
    BY <2>2
  <2>4. PICK l, w : l = ArgLoc[k] /\ w = slots[from[k]]
    OBVIOUS
  <2>5. slots'[l] = w
    BY <1>2, <1>3, <2>1, <2>3, <2>4
  <2>6. ReadSlot(l)' = ReadNow(w)'
    BY <1>4, <2>5 DEF ReadsNow, ReadNow, is_valid_heap_pointer, Denoted
  <2>7. Env[from[k]] = ReadNow(w)
    BY <1>4, <1>7, <2>4 DEF Env, ReadsNow
  <2>8. ReadSlot(ArgLoc[k])' = ReadSlot(l)'
    BY <2>4
  <2> QED
    BY <1>5, <2>6, <2>7, <2>8
<1>11. AbsCall = NoCall
  BY <1>1 DEF AbsCall
<1>12. /\ call'.kind = sh.kind /\ call'.len = sh.len /\ call'.nargs = m /\ call'.dst = d
       /\ CallInOrder' /\ call' # NoCall
  BY <1>1, <1>2, <1>3 DEF GCInvariant, CallInOrder
<1>13. CallRead(n)'
  <2>1. PICK q \in Nat : CallRead(q)'
    BY <1>12, CallIsReadAfterStep
  <2>2. q = n
    BY <1>2, <1>12, <2>1 DEF CallRead
  <2> QED
    BY <2>1, <2>2
<1>14. PICK ls : ls = IF m = 0 THEN [k \in 1..n |-> d] ELSE from
  OBVIOUS
<1>15. ls \in [1..n -> ProgramLoc]
  <2>1. CASE m = 0
    BY <1>2, <1>14, <2>1
  <2>2. CASE m # 0
    <3>1. from # << >>
      BY <1>3, <2>2
    <3> QED
      BY <1>2, <1>14, <2>2, <3>1
  <2> QED
    BY <2>1, <2>2
<1>16. PICK z \in BOOLEAN : z <=> m = 0
  OBVIOUS
<1>17. AbsCall'.flds = [k \in 1..n |-> IF z THEN <<"word", BoxedZero>> ELSE Env[ls[k]]]
  <2>1. ASSUME NEW k \in 1..n
        PROVE  AbsCall'.flds[k] = IF z THEN <<"word", BoxedZero>> ELSE Env[ls[k]]
    <3>1. CASE m = 0
      BY <1>6, <1>12, <1>13, <1>16, <3>1 DEF CallRead
    <3>2. CASE m # 0
      <4>1. m = n /\ ls = from
        BY <1>7, <1>14, <3>2
      <4>2. AbsCall'.flds[k] = ReadSlot(ArgLoc[k])'
        BY <1>12, <1>13, <3>2 DEF CallRead
      <4> QED
        BY <1>10, <1>16, <3>2, <4>1, <4>2
    <3> QED
      BY <3>1, <3>2
  <2> QED
    BY <1>13, <2>1 DEF CallRead
<1>18. PICK s : s = [kind |-> sh.kind, len |-> sh.len, fields |-> n]
  OBVIOUS
<1>19. s \in AbsShapes /\ s.kind = sh.kind /\ s.len = sh.len /\ s.fields = n
  BY <1>2, <1>18 DEF AbsShapes
<1>20. AbsCall' = [kind |-> s.kind, len |-> s.len, var |-> d,
                   flds |-> [k \in 1..s.fields |->
                               IF z THEN <<"word", BoxedZero>> ELSE Env[ls[k]]]]
  <2>1. AbsCall' = [kind |-> s.kind, len |-> s.len, var |-> d, flds |-> AbsCall'.flds]
    BY <1>12, <1>13, <1>19 DEF CallRead
  <2> QED
    BY <1>17, <1>19, <2>1
<1>21. ls \in [1..s.fields -> ProgramLoc]
  BY <1>15, <1>19
<1> QED
  BY <1>2, <1>5, <1>9, <1>11, <1>19, <1>20, <1>21 DEF Abstract!Call, Env

\* The program sees nothing of a step.
Unseen == Env' = Env /\ AbsCall' = AbsCall /\ AbsStore' = AbsStore

LEMMA StartCollectionUnseen ==
  ASSUME GCInvariant, ObjectsDistinct, StartCollection
  PROVE  ObjectsDistinct' /\ Unseen
<1>1. /\ phase = "alloc" /\ phase' = "roots" /\ Whole /\ Whole' /\ CallInOrder
      /\ UNCHANGED <<heap, mem, slots, call>>
  BY DEF StartCollection, Whole, heapVars, GCInvariant
<1>2. ReadsNow /\ ReadsNow'
  BY <1>1, WholeReadsNow, WholeReadsNowAfterStep
<1>3. ObjectsDistinct' /\ AbsStore' = AbsStore /\ \A w : ReadNow(w)' = ReadNow(w)
  BY <1>1, <1>2, StoreStays
<1>4. \A l : ReadSlot(l)' = ReadSlot(l)
  BY <1>1, <1>2, <1>3 DEF ReadsNow
<1> QED
  BY <1>1, <1>3, <1>4, SameCall DEF Unseen, Env

LEMMA AllocUnseen ==
  ASSUME GCInvariant, GCInvariant', ObjectsDistinct, phase \in {"alloc", "collected"},
         gc_alloc_on_existing_heap, LocalsGone
  PROVE  ObjectsDistinct' /\ Unseen
<1>1. /\ phase' = "construct" /\ phase # "construct" /\ Whole /\ Whole' /\ Resting
      /\ UNCHANGED <<slots, extra, call>>
      /\ Unfinished = {} /\ CallInOrder
  BY DEF gc_alloc_on_existing_heap, Whole, Outside, Resting, Unfinished, GCInvariant
<1>2. RestingHeap /\ HeapTypeOK /\ Tiled
  BY <1>1, HeapAtRest DEF RestingHeap
<1>3. ReadsNow /\ ReadsNow'
  BY <1>1, WholeReadsNow, WholeReadsNowAfterStep
<1>4. PICK p : p = heap.current
  OBVIOUS
<1>5. /\ heap \in [begin : Nat, size : Nat, current : Nat] /\ p \in Nat
      /\ p \notin DOMAIN mem /\ DOMAIN mem \subseteq Nat /\ need \in Nat
  <2>1. \A h \in DOMAIN mem : h < heap.current /\ h \in Nat
    BY <1>2, ObjectHasWords, NextCell
  <2> QED
    BY <1>2, <1>4, <2>1 DEF HeapTypeOK, GCInvariant, GCTypeOK
<1>6. /\ heap' = [begin |-> heap.begin, size |-> heap.size, current |-> p + need]
      /\ cur' = p
      /\ DOMAIN mem' = DOMAIN mem \cup {p}
      /\ \A h \in DOMAIN mem : mem'[h] = mem[h]
      /\ mem'[p].id = NewId
  BY <1>4, <1>5 DEF gc_alloc_on_existing_heap
<1>7. NewId \in Ids /\ \A h \in DOMAIN mem : mem[h].id # NewId
  BY DEF gc_alloc_on_existing_heap, NewId, FreshIds
<1>8. /\ KeptHeaders = DOMAIN mem /\ KeptHeaders' = DOMAIN mem \cup {p}
      /\ AbsObjects = DOMAIN mem /\ AbsObjects' = DOMAIN mem
  BY <1>1, <1>3, <1>5, <1>6 DEF ReadsNow, AbsObjects
<1>9. ObjectsDistinct'
  BY <1>6, <1>7, <1>8 DEF ObjectsDistinct
<1>10. ASSUME NEW v \in Word, Held(v), SoundWord(v) PROVE ReadNow(v)' = ReadNow(v)
  <2>1. CASE v \in Unboxed
    BY <2>1 DEF ReadNow, is_valid_heap_pointer, is_valid_pointer
  <2>2. CASE v \notin Unboxed
    <3>1. /\ is_valid_heap_pointer(v) /\ get_obj_header_ptr(v) \in DOMAIN mem
          /\ v \in Nat
      BY <1>10, <2>2 DEF Held, SoundWord, Word
    <3>2. is_valid_heap_pointer(v)'
      BY <1>4, <1>5, <1>6, <3>1 DEF is_valid_heap_pointer
    <3>3. mem'[get_obj_header_ptr(v)] = mem[get_obj_header_ptr(v)]
      BY <1>6, <3>1
    <3> QED
      BY <3>1, <3>2, <3>3 DEF ReadNow, Denoted
  <2> QED
    BY <2>1, <2>2
<1>11. ASSUME NEW l \in ProgramLoc \cup ArgsInUse PROVE ReadSlot(l)' = ReadSlot(l)
  <2>1. l \in Loc
    BY <1>1, ArgumentsFit, GCAssumption
  <2>2. PICK w : w = slots[l]
    OBVIOUS
  <2>3. w \in Word /\ Held(w) /\ SoundWord(w)
    BY <1>2, <2>1, <2>2 DEF RestingHeap, SlotsHeld, HeapTypeOK
  <2>4. ReadSlot(l)' = ReadNow(w)'
    BY <1>1, <1>3, <2>2 DEF ReadsNow, ReadNow, is_valid_heap_pointer, Denoted
  <2> QED
    BY <1>3, <1>10, <2>2, <2>3, <2>4 DEF ReadsNow
<1>12. ASSUME NEW h \in DOMAIN mem PROVE SameObject(h, h)
  <2>1. mem'[h] = mem[h] /\ mem[h].flds \in Seq(Word)
    BY <1>2, <1>6 DEF HeapTypeOK, ObjectOK, Object
  <2>2. ASSUME NEW k \in DOMAIN mem[h].flds
        PROVE  ReadField(h, mem[h].flds[k])' = ReadField(h, mem[h].flds[k])
    <3>1. PICK w : w = mem[h].flds[k]
      OBVIOUS
    <3>2. w \in Word /\ Held(w) /\ SoundWord(w)
      BY <1>1, <1>2, <2>1, <3>1 DEF RestingHeap, FieldsHeld
    <3>3. ReadField(h, mem[h].flds[k])' = ReadNow(w)'
      BY <1>3, <2>1, <3>1 DEF ReadsNow, ReadNow, is_valid_heap_pointer, Denoted
    <3> QED
      BY <1>3, <1>10, <3>1, <3>2, <3>3 DEF ReadsNow
  <2> QED
    BY <2>1, <2>2 DEF SameObject, AbsObject
<1>13. AbsStore' = AbsStore
  BY <1>8, <1>9, <1>12, SameStore
<1>14. Env' = Env /\ AbsCall' = AbsCall
  BY <1>1, <1>11, SameCall DEF Env
<1> QED
  BY <1>9, <1>13, <1>14 DEF Unseen

LEMMA ReturnObjectImplements ==
  ASSUME GCInvariant, GCInvariant', ObjectsDistinct, ReturnObject
  PROVE  ObjectsDistinct' /\ Abstract!Return
<1>1. /\ phase = "construct" /\ phase' = "idle" /\ Whole /\ Whole'
      /\ call' = NoCall /\ UNCHANGED heap
      /\ CallInOrder /\ HeapReady /\ HeapTypeOK /\ HeapTypeOK' /\ Tiled /\ Outside
  BY DEF ReturnObject, Whole, GCInvariant, GCTypeOK, HeapReady, Outside
<1>2. ReadsNow /\ ReadsNow'
  BY <1>1, WholeReadsNow, WholeReadsNowAfterStep
<1>3. call # NoCall
  BY <1>1 DEF CallInOrder
<1>4. PICK n \in Nat : CallRead(n)
  BY <1>1, <1>3, CallIsRead
<1>5. PICK h, i : h = cur /\ i = mem[h].id
  OBVIOUS
<1>6. /\ h \in DOMAIN mem /\ h \in Nat /\ mem[h] \in Object
      /\ mem[h].kind = call.kind /\ mem[h].len = call.len
      /\ DOMAIN mem[h].flds = 1..n
  <2>1. h \in DOMAIN mem /\ mem[h].kind = call.kind /\ mem[h].len = call.len
    BY <1>1, <1>5 DEF HeapReady
  <2>2. ObjectOK(mem[h]) /\ h \in Nat
    BY <1>1, <2>1 DEF HeapTypeOK
  <2>3. mem[h].flds \in Seq(Word) /\ Len(mem[h].flds) = n
    BY <1>4, <2>1, <2>2 DEF ObjectOK, Object, CallRead
  <2> QED
    BY <2>1, <2>2, <2>3 DEF ObjectOK
<1>7. PICK f : f = constructed_fields
  OBVIOUS
<1>8. /\ DOMAIN f = 1..n
      /\ \A k \in 1..n : f[k] = IF call.nargs = 0 THEN BoxedZero ELSE slots[ArgLoc[k]]
  BY <1>5, <1>6, <1>7 DEF constructed_fields
<1>9. PICK q : q = [mem[h] EXCEPT !.flds = f]
  OBVIOUS
<1>10. /\ mem' = [mem EXCEPT ![h] = q]
       /\ q.id = i /\ q.kind = call.kind /\ q.len = call.len /\ q.flds = f
  BY <1>5, <1>6, <1>7, <1>9 DEF ReturnObject, Object
<1>11. /\ DOMAIN mem' = DOMAIN mem /\ mem'[h] = q
       /\ \A g \in DOMAIN mem : g # h => mem'[g] = mem[g]
       /\ \A g \in DOMAIN mem : mem'[g].id = mem[g].id
  BY <1>5, <1>6, <1>10
<1>12. \A x : ReadNow(x)' = ReadNow(x)
  BY <1>1, <1>5, <1>6, <1>10, ReadingByIds
<1>13. /\ KeptHeaders = DOMAIN mem /\ KeptHeaders' = DOMAIN mem
       /\ AbsObjects = DOMAIN mem \ {h} /\ AbsObjects' = DOMAIN mem
  BY <1>1, <1>2, <1>5, <1>11 DEF ReadsNow, AbsObjects
<1>14. ObjectsDistinct'
  BY <1>11, <1>13, DistinctWhereTheyAre
<1>15. /\ DOMAIN AbsStore = {mem[g].id : g \in DOMAIN mem \ {h}}
       /\ \A g \in DOMAIN mem : g # h => AbsStore[mem[g].id] = AbsObject(g)
  BY <1>13, StoreAt
<1>16. i \in Ids \ DOMAIN AbsStore
  <2>1. \A g \in DOMAIN mem : g # h => mem[g].id # i
    BY <1>5, <1>6, <1>13 DEF ObjectsDistinct
  <2>2. i \in Ids
    BY <1>5, <1>6, <1>13 DEF ObjectsDistinct
  <2> QED
    BY <1>15, <2>1, <2>2
<1>17. \A g \in DOMAIN mem : g # h => AbsObject(g)' = AbsObject(g)
  BY <1>2, <1>11, <1>12 DEF AbsObject, ReadsNow
<1>18. AbsObject(h)' = [kind |-> AbsCall.kind, len |-> AbsCall.len, flds |-> AbsCall.flds]
  <2>1. ASSUME NEW k \in 1..n PROVE ReadNow(f[k]) = AbsCall.flds[k]
    <3>1. CASE call.nargs = 0
      <4>1. f[k] = BoxedZero /\ AbsCall.flds[k] = <<"word", BoxedZero>>
        BY <1>4, <1>8, <3>1 DEF CallRead
      <4> QED
        BY <4>1, GCAssumption DEF ReadNow, is_valid_heap_pointer, is_valid_pointer
    <3>2. CASE call.nargs # 0
      BY <1>2, <1>4, <1>8, <3>2 DEF CallRead, ReadsNow
    <3> QED
      BY <3>1, <3>2
  <2>2. \A k \in 1..n : ReadField(h, mem[h].flds[k])' = AbsCall.flds[k]
    BY <1>2, <1>10, <1>11, <1>12, <2>1 DEF ReadsNow
  <2>3. DOMAIN mem'[h].flds = 1..n
    BY <1>8, <1>10, <1>11
  <2>4. AbsCall.flds = [k \in 1..n |-> AbsCall.flds[k]]
    BY <1>4 DEF CallRead
  <2>5. [k \in DOMAIN mem'[h].flds |-> ReadField(h, mem[h].flds[k])'] = AbsCall.flds
    BY <2>2, <2>3, <2>4
  <2>6. AbsObject(h)' = [kind |-> mem'[h].kind, len |-> mem'[h].len,
                         flds |-> [k \in DOMAIN mem'[h].flds |-> ReadField(h, mem[h].flds[k])']]
    BY DEF AbsObject
  <2> QED
    BY <1>4, <1>10, <1>11, <2>5, <2>6 DEF CallRead
<1>19. AbsStore' = [j \in DOMAIN AbsStore \cup {i} |->
                      IF j = i
                      THEN [kind |-> AbsCall.kind, len |-> AbsCall.len, flds |-> AbsCall.flds]
                      ELSE AbsStore[j]]
  <2>1. /\ DOMAIN AbsStore' = {mem'[g].id : g \in DOMAIN mem}
        /\ AbsStore' = [j \in DOMAIN AbsStore' |-> AbsStore'[j]]
        /\ \A g \in DOMAIN mem : AbsStore'[mem'[g].id] = AbsObject(g)'
    BY <1>13, <1>14, StoreAtAfterStep
  <2>2. DOMAIN AbsStore' = DOMAIN AbsStore \cup {i}
    BY <1>5, <1>6, <1>11, <1>15, <2>1
  <2>3. AbsStore'[i] = AbsObject(h)'
    BY <1>5, <1>6, <1>11, <2>1
  <2>4. \A j \in DOMAIN AbsStore : AbsStore'[j] = AbsStore[j]
    BY <1>11, <1>15, <1>17, <2>1
  <2>5. PICK r : r = AbsObject(h)'
    OBVIOUS
  <2>6. AbsStore' = [j \in DOMAIN AbsStore \cup {i} |-> IF j = i THEN r ELSE AbsStore[j]]
    BY <1>16, <2>1, <2>2, <2>3, <2>4, <2>5
  <2> QED
    BY <1>18, <2>5, <2>6
<1>20. Env' = [Env EXCEPT ![AbsCall.var] = <<"object", i>>]
  <2>1. /\ AbsCall.var = call.dst /\ call.dst \in ProgramLoc
        /\ ProgramLoc \subseteq Loc /\ ProgramLoc \cap ArgsInUse = {}
    BY <1>1, <1>3, <1>4, ArgumentsFit, GCAssumption DEF CallRead, CallInOrder
  <2>2. PICK c : c = get_object_content_ptr(h)
    OBVIOUS
  <2>3. \A l \in ProgramLoc : slots'[l] = IF l = call.dst THEN c ELSE slots[l]
    BY <1>3, <1>5, <2>1, <2>2 DEF ReturnObject, ArgsInUse, ArgCount
  <2>4. ReadNow(c) = <<"object", i>>
    <3>1. /\ heap.begin \in Nat /\ heap.current \in Nat /\ heap.begin <= h
          /\ heap_next_obj_iterator(h) <= heap.current
          /\ size_at(h) \in Nat /\ size_at(h) >= HeaderWords
      BY <1>1, <1>6, ObjectHasWords DEF Tiled, HeapTypeOK
    <3>2. /\ c \in Nat /\ heap.begin <= c /\ c <= heap.current
          /\ get_obj_header_ptr(c) = h
      BY <1>6, <2>2, <3>1
         DEF heap_next_obj_iterator, HeaderWords, get_object_content_ptr, get_obj_header_ptr
    <3>3. is_valid_heap_pointer(c)
      BY <3>2, HeapAssumption DEF is_valid_heap_pointer, is_valid_pointer
    <3> QED
      BY <1>5, <3>2, <3>3 DEF ReadNow, Denoted
  <2>5. ASSUME NEW l \in ProgramLoc
        PROVE  ReadSlot(l)' = IF l = call.dst THEN <<"object", i>> ELSE ReadSlot(l)
    <3>1. PICK w : w = IF l = call.dst THEN c ELSE slots[l]
      OBVIOUS
    <3>2. slots'[l] = w
      BY <2>3, <3>1
    <3>3. ReadSlot(l)' = ReadNow(w)'
      BY <1>2, <3>2 DEF ReadsNow, ReadNow, is_valid_heap_pointer, Denoted
    <3> QED
      BY <1>2, <1>12, <2>4, <3>1, <3>3 DEF ReadsNow
  <2> QED
    BY <2>1, <2>5 DEF Env
<1>21. AbsCall # NoCall /\ AbsCall' = NoCall
  BY <1>1, <1>4 DEF CallRead, AbsCall
<1> QED
  BY <1>14, <1>16, <1>19, <1>20, <1>21 DEF Abstract!Return, Abstract!Ref, Env

-----------------------------------------------------------------------------
(* The runtime as a whole.                                                 *)

LEMMA StutterUnseen ==
  ASSUME GCInvariant, ObjectsDistinct, UNCHANGED vars, Outside
  PROVE  ObjectsDistinct' /\ Unseen
<1>1. UNCHANGED <<heap, mem, slots, phase, call, cur>> /\ CallInOrder
  BY DEF vars, gcVars, heapVars, markVars, GCInvariant
<1>2. Whole /\ Whole'
  BY <1>1 DEF Whole, Outside
<1>3. ReadsNow /\ ReadsNow'
  BY <1>2, WholeReadsNow, WholeReadsNowAfterStep
<1>4. \A v : ReadNow(v)' = ReadNow(v)
  BY <1>1 DEF ReadNow, is_valid_heap_pointer, Denoted
<1>5. KeptHeaders' = KeptHeaders /\ AbsObjects' = AbsObjects
  BY <1>1, <1>3 DEF ReadsNow, AbsObjects
<1>6. ObjectsDistinct'
  BY <1>1, <1>5, DistinctWhereTheyAre
<1>7. /\ \A h, v : ReadField(h, v)' = ReadField(h, v)
      /\ \A l : ReadSlot(l)' = ReadSlot(l)
  BY <1>1, <1>3, <1>4 DEF ReadsNow
<1>8. ASSUME NEW h PROVE SameObject(h, h)
  BY <1>1, <1>7 DEF SameObject, AbsObject
<1>9. AbsStore' = AbsStore
  BY <1>5, <1>6, <1>8, SameStore
<1> QED
  BY <1>1, <1>6, <1>7, <1>9, SameCall DEF Unseen, Env

\* A program starts without objects.
LEMMA StartsAsStore == GCInit => ObjectsDistinct /\ Abstract!Init
<1> SUFFICES ASSUME GCInit PROVE ObjectsDistinct /\ Abstract!Init
  OBVIOUS
<1>1. phase = "idle" /\ mem = << >> /\ DOMAIN mem = {} /\ call = NoCall
      /\ slots = [l \in Loc |-> IF l \in ProgramLoc THEN BoxedZero ELSE Nowhere]
  BY DEF GCInit
<1>2. ReadsNow
  BY <1>1, WholeReadsNow DEF Whole
<1>3. ObjectsDistinct /\ AbsObjects = {}
  BY <1>1, <1>2 DEF ObjectsDistinct, ReadsNow, AbsObjects
<1>4. AbsStore = << >>
  <2>1. DOMAIN AbsStore = {} /\ AbsStore = [i \in DOMAIN AbsStore |-> AbsStore[i]]
    BY <1>3, StoreAt
  <2> QED
    BY <2>1
<1>5. Env \in [ProgramLoc -> {<<"word", w>> : w \in Unboxed}]
  <2>1. \A l \in ProgramLoc : slots[l] = BoxedZero
    BY <1>1, GCAssumption
  <2>2. ReadNow(BoxedZero) = <<"word", BoxedZero>> /\ BoxedZero \in Unboxed
    BY GCAssumption DEF ReadNow, is_valid_heap_pointer, is_valid_pointer
  <2> QED
    BY <1>2, <2>1, <2>2 DEF Env, ReadsNow
<1>6. AbsCall = NoCall
  BY <1>1 DEF AbsCall
<1> QED
  BY <1>3, <1>4, <1>5, <1>6 DEF Abstract!Init, Env

\* Every step of the runtime is a step of the store, or none.
LEMMA StepImplements ==
  GCInvariant /\ GCInvariant' /\ ObjectsDistinct /\ [GCNext]_vars
    => ObjectsDistinct' /\ [Abstract!Next]_(Abstract!vars)
<1> SUFFICES ASSUME GCInvariant, GCInvariant', ObjectsDistinct, [GCNext]_vars
             PROVE  ObjectsDistinct' /\ [Abstract!Next]_(Abstract!vars)
  OBVIOUS
<1>1. Unseen => [Abstract!Next]_(Abstract!vars)
  BY DEF Unseen, Env, Abstract!vars
<1>2. CASE Assign
  BY <1>2, AssignImplements DEF Abstract!Next
<1>3. CASE Belem
  BY <1>3, BelemImplements DEF Abstract!Next
<1>4. CASE Bsta
  BY <1>4, BstaImplements DEF Abstract!Next
<1>5. CASE CallConstructor
  BY <1>5, CallConstructorImplements DEF Abstract!Next
<1>6. CASE AllocFromChunk \/ AllocAfterCollection
  BY <1>1, <1>6, AllocUnseen DEF AllocFromChunk, AllocAfterCollection
<1>7. CASE StartCollection
  BY <1>1, <1>7, StartCollectionUnseen
<1>8. CASE ReturnObject
  BY <1>8, ReturnObjectImplements DEF Abstract!Next
<1>9. ASSUME ~Outside, UNCHANGED call, [CollectNext]_gcVars
      PROVE  ObjectsDistinct' /\ [Abstract!Next]_(Abstract!vars)
  <2>1. CompactInvariant
    BY <1>9 DEF GCInvariant
  <2>2. CompactInvariant'
    BY <1>9, <2>1, CollectStep
  <2>3. ObjectsDistinct'
    BY <1>9, <2>1, <2>2, CollectorKeepsDistinct
  <2>4. Abstract!Forget
    BY <1>9, <2>3, CollectorForgets
  <2> QED
    BY <2>3, <2>4 DEF Abstract!Next
<1>10. CASE Collector
  BY <1>9, <1>10, CollectorRunsInside DEF Collector
<1>11. CASE UNCHANGED vars
  <2>1. UNCHANGED call /\ UNCHANGED gcVars
    BY <1>11 DEF vars
  <2> QED
    BY <1>1, <1>9, <1>11, <2>1, StutterUnseen
<1> QED
  BY <1>2, <1>3, <1>4, <1>5, <1>6, <1>7, <1>8, <1>10, <1>11 DEF GCNext, Program, Runtime

\* The program cannot tell the collector from unlimited memory: the runtime, with its
\* addresses, its chunks and its collections, behaves as ObjectStore says.
THEOREM RuntimeIsObjectStore == VariablesAreRoots /\ GCSpec => ImplementsObjectStore
BY GCInvariantHolds, StartsAsStore, StepImplements, PTL
   DEF GCSpec, ImplementsObjectStore, Abstract!Spec
=============================================================================
