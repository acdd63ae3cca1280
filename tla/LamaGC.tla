------------------------------- MODULE LamaGC -------------------------------
(***************************************************************************)
(* The runtime's memory as a whole: alloc and the constructors of          *)
(* runtime/runtime.c that call it, the Lama program that keeps the objects *)
(* in its variables and fields, and the collector that runs in the middle  *)
(* of an allocation when the chunk is full.                                *)
(***************************************************************************)
EXTENDS LamaCompact

CONSTANTS
  ProgramLoc,     \* the words that hold the program's variables
  ArgLoc,         \* the args array of a constructor: one location per argument
  PermanentRoots, \* roots that the program never pops: global_sysargs
  Shapes,         \* kind and length of the objects that the program makes
  BoxedZero,      \* BOX(0)
  Nowhere,        \* a word that is no value: a return address
  MAX_EXTRA_ROOTS_NUMBER,
  FirstBase,      \* what the first mmap returned
  INIT_HEAP_SIZE,
  Ids,            \* bound: identities of objects, more than fit into a chunk
  MaxObjects      \* bound: calls are made with fewer objects than this alive

\* The variables, the args arrays and the word at __gc_stack_bottom are different
\* words; malloc returned the args arrays and global_sysargs is a variable of the
\* runtime: neither is at __gc_stack_top or __stop_custom_data.  A return address
\* lies outside the first chunk.
ASSUME GCAssumption ==
  /\ ProgramLoc \subseteq Loc \ {StackBottom}
  /\ ArgLoc \in Seq(Loc \ (ProgramLoc \cup {StackBottom}))
  /\ \A i, j \in 1..Len(ArgLoc) : ArgLoc[i] = ArgLoc[j] => i = j
  /\ PermanentRoots \in Seq(Loc)
  /\ \A i \in 1..Len(ArgLoc) : ArgLoc[i] \notin {StackTop, GlobalStop}
  /\ \A i \in 1..Len(PermanentRoots) : PermanentRoots[i] \notin {StackTop, GlobalStop}
  /\ \A sh \in Shapes :
       /\ sh.kind \in Kinds /\ sh.len \in Nat
       /\ sh.kind = "CLOSURE" => sh.len >= 1
       /\ num_fields(sh.kind, sh.len) <= Len(ArgLoc)
  /\ BoxedZero \in Unboxed
  /\ FirstBase \in Nat /\ INIT_HEAP_SIZE \in Nat
  /\ Nowhere \in Nat
  /\ Nowhere < FirstBase \/ FirstBase + INIT_HEAP_SIZE < Nowhere
  /\ Ids \subseteq Nat

VARIABLE call    \* the constructor that is running

NoCall  == [kind |-> "none"]
NoChunk == [begin |-> 0, size |-> 0, current |-> 0]

vars == <<gcVars, call>>

Idle == phase = "idle"

-----------------------------------------------------------------------------
\* __init, after set_args has registered its root.
GCInit ==
  /\ heap = [begin |-> FirstBase, size |-> INIT_HEAP_SIZE, current |-> FirstBase]
  /\ mem = << >>
  /\ fwd = << >>
  /\ slots = [l \in Loc |-> IF l \in ProgramLoc THEN BoxedZero ELSE Nowhere]
  /\ extra = PermanentRoots
  /\ phase = "idle"
  /\ root = 1
  /\ fld = 1
  /\ qHead = 0 /\ qTail = 0 /\ cur = 0
  /\ need = 0 /\ scan = 0 /\ freePtr = 0
  /\ old = NoChunk
  /\ call = NoCall

-----------------------------------------------------------------------------
(* The program between two calls.                                          *)

ContentOf(l) == get_obj_header_ptr(slots[l])
HoldsObject(l) == is_valid_heap_pointer(slots[l])

controlVars == <<markVars, compactVars, call>>

\* A variable is assigned another one, or an unboxed value.
Assign ==
  /\ Idle
  /\ \E d \in ProgramLoc, v \in {BoxedZero} \cup {slots[l] : l \in ProgramLoc} :
       /\ v # slots[d]
       /\ slots' = [slots EXCEPT ![d] = v]
  /\ UNCHANGED <<heap, mem, fwd, extra, controlVars>>

\* Belem: a field is read.
Belem ==
  /\ Idle
  /\ \E d \in ProgramLoc, o \in ProgramLoc :
       /\ HoldsObject(o)
       /\ \E i \in 1..Len(mem[ContentOf(o)].flds) :
            slots' = [slots EXCEPT ![d] = mem[ContentOf(o)].flds[i]]
  /\ UNCHANGED <<heap, mem, fwd, extra, controlVars>>

\* Bsta: a field is assigned.
Bsta ==
  /\ Idle
  /\ \E o \in ProgramLoc, v \in ProgramLoc :
       /\ HoldsObject(o)
       /\ \E i \in 1..Len(mem[ContentOf(o)].flds) :
            mem' = [mem EXCEPT ![ContentOf(o)].flds[i] = slots[v]]
  /\ UNCHANGED <<heap, fwd, slots, extra, controlVars>>

-----------------------------------------------------------------------------
(* Barray, Bsexp, Bclosure, LmakeArray, LmakeString.                       *)

\* The objects reachable from the program's variables, counted for the bound.
LiveCount == Cardinality(CHOOSE S \in SUBSET DOMAIN mem :
                Closed(S) /\ \A T \in SUBSET DOMAIN mem : Closed(T) => S \subseteq T)

\* The arguments are copied to args, and each copy is made an extra root.
CallConstructor ==
  /\ Idle
  /\ LiveCount < MaxObjects
  /\ \E sh \in Shapes, d \in ProgramLoc :
       LET n == num_fields(sh.kind, sh.len)
       IN  \E from \in {<< >>} \cup [1..n -> ProgramLoc] :
             /\ Len(extra) + Len(from) <= MAX_EXTRA_ROOTS_NUMBER
             /\ slots' = [l \in Loc |->
                            IF \E i \in 1..Len(from) : ArgLoc[i] = l
                            THEN slots[from[CHOOSE i \in 1..Len(from) : ArgLoc[i] = l]]
                            ELSE slots[l]]
             /\ extra' = extra \o SubSeq(ArgLoc, 1, Len(from))
             /\ call' = [kind |-> sh.kind, len |-> sh.len, nargs |-> Len(from), dst |-> d]
             /\ need' = obj_words(sh.kind, sh.len)
  /\ phase' = "alloc"
  /\ UNCHANGED <<heap, mem, fwd, root, qHead, qTail, cur, fld, old, scan, freePtr>>

\* The identity of a new object (cur_id), reused when the object is gone.
FreshIds == {i \in Ids : \A h \in DOMAIN mem : mem[h].id # i}
NewId    == CHOOSE i \in FreshIds : TRUE

Fits == heap.current + need <= heap_end

\* gc_alloc_on_existing_heap, and the header that alloc_array and its kin
\* write.  The words of the object are cleared: they are null pointers.
gc_alloc_on_existing_heap ==
  /\ Fits
  /\ FreshIds # {}
  /\ mem' = [h \in DOMAIN mem \cup {heap.current} |->
               IF h = heap.current
               THEN [kind |-> call.kind, len |-> call.len, id |-> NewId,
                     flds |-> [i \in 1..num_fields(call.kind, call.len) |-> 0]]
               ELSE mem[h]]
  /\ fwd' = [h \in DOMAIN fwd \cup {heap.current} |->
               IF h = heap.current THEN [addr |-> 0, mark |-> FALSE, enq |-> FALSE] ELSE fwd[h]]
  /\ heap' = [heap EXCEPT !.current = @ + need]
  /\ cur' = heap.current
  /\ phase' = "construct"
  /\ UNCHANGED <<slots, extra, call>>

\* The local variables of the collector do not outlive it.
LocalsGone ==
  /\ root' = 1
  /\ fld' = 1
  /\ qHead' = 0 /\ qTail' = 0
  /\ need' = 0 /\ scan' = 0 /\ freePtr' = 0
  /\ old' = NoChunk

AllocFromChunk == phase = "alloc" /\ gc_alloc_on_existing_heap /\ LocalsGone

\* No room: gc_alloc starts with mark_phase.
StartCollection ==
  /\ phase = "alloc"
  /\ ~Fits
  /\ phase' = "roots"
  /\ UNCHANGED <<heapVars, root, qHead, qTail, cur, fld, compactVars, call>>

\* The collection is over: gc_alloc tries once more and nobody tests the result
\* for NULL, so there is no other step (see OneCollectionSuffices).
AllocAfterCollection == phase = "collected" /\ gc_alloc_on_existing_heap /\ LocalsGone

\* Mistaken variant: the loop that fills the fields in LmakeArray is left out.
FieldsFromArgsOnly == [i \in 1..call.nargs |-> slots[ArgLoc[i]]]

constructed_fields ==
  [i \in DOMAIN mem[cur].flds |-> IF call.nargs = 0 THEN BoxedZero ELSE slots[ArgLoc[i]]]

\* The fields are copied from args, the extra roots are popped and the program
\* gets the address of the content.
ReturnObject ==
  /\ phase = "construct"
  /\ mem' = [mem EXCEPT ![cur].flds = constructed_fields]
  /\ slots' = [l \in Loc |->
                 IF l = call.dst THEN get_object_content_ptr(cur)
                 ELSE IF \E i \in 1..call.nargs : ArgLoc[i] = l THEN Nowhere
                 ELSE slots[l]]
  /\ extra' = SubSeq(extra, 1, Len(extra) - call.nargs)
  /\ call' = NoCall
  /\ phase' = "idle"
  /\ cur' = 0
  /\ UNCHANGED <<heap, fwd, root, qHead, qTail, fld, compactVars>>

-----------------------------------------------------------------------------
Collector == CollectNext /\ UNCHANGED call

Runtime ==
  \/ AllocFromChunk
  \/ StartCollection
  \/ Collector
  \/ AllocAfterCollection
  \/ ReturnObject

Program == Assign \/ Belem \/ Bsta \/ CallConstructor

GCNext == Program \/ Runtime

\* The runtime runs whenever it has been called; the program may stop.
GCSpec == GCInit /\ [][GCNext]_vars /\ WF_vars(Runtime)

-----------------------------------------------------------------------------
GCTypeOK ==
  /\ HeapTypeOK
  /\ phase \in {"idle", "alloc", "construct", "roots", "drain", "fields", "locate", "update",
               "fixroots", "relocate", "collected"}
  /\ need \in Nat
  /\ call = NoCall \/ call.dst \in ProgramLoc

\* Between collections the heap is as mark_phase needs to find it.
ReadyToCollect ==
  phase \in {"idle", "alloc"} =>
    /\ Tiled
    /\ RootsSound
    /\ FieldsSound
    /\ AtRest

\* gc_alloc and its callers do not test for NULL: one collection must make
\* room for the object that it was started for.
OneCollectionSuffices == phase = "collected" => Fits

\* Every variable of the program holds an unboxed value or the address of an
\* object, also when an object it referred to has moved to another chunk.
VariablesHoldValues ==
  Idle => \A l \in ProgramLoc :
            \/ slots[l] \in Unboxed
            \/ is_valid_heap_pointer(slots[l]) /\ ContentOf(l) \in DOMAIN mem

\* A constructor that has been called returns.
ConstructorsReturn == (phase = "alloc") ~> Idle

-----------------------------------------------------------------------------
(* The refinement: the object graph that the words represent.              *)

AbsObjects == {h \in KeptHeaders : phase = "construct" => h # cur}

AbsStore ==
  [i \in {mem[h].id : h \in AbsObjects} |->
     LET h == CHOOSE g \in AbsObjects : mem[g].id = i
     IN  [kind |-> mem[h].kind, len |-> mem[h].len,
          flds |-> [k \in DOMAIN mem[h].flds |-> ReadField(h, mem[h].flds[k])]]]

AbsCall ==
  IF call = NoCall THEN NoCall
  ELSE [kind |-> call.kind, len |-> call.len, var |-> call.dst,
        flds |-> [i \in 1..num_fields(call.kind, call.len) |->
                    IF call.nargs = 0 THEN <<"word", BoxedZero>> ELSE ReadSlot(ArgLoc[i])]]

AbsShapes == {[kind |-> s.kind, len |-> s.len, fields |-> num_fields(s.kind, s.len)] : s \in Shapes}

Abstract ==
  INSTANCE ObjectStore WITH
    Var <- ProgramLoc,
    Shape <- AbsShapes,
    Plain <- {<<"word", w>> : w \in Unboxed},
    Zero <- <<"word", BoxedZero>>,
    NoCall <- NoCall,
    env <- [l \in ProgramLoc |-> ReadSlot(l)],
    call <- AbsCall,
    store <- AbsStore

\* The program cannot tell the collector from unlimited memory.
ImplementsObjectStore == Abstract!Spec

-----------------------------------------------------------------------------
(* The inductive invariant that the theorems of LamaGC_proofs rest on.     *)

\* What the program must see to: every variable is a word that the collector
\* scans.  MCLamaGlobals is a program that does not.
VariablesAreRoots ==
  \A l \in ProgramLoc :
    \/ \E i \in 1..Len(StackArea) : StackArea[i] = l
    \/ \E i \in 1..Len(PermanentRoots) : PermanentRoots[i] = l
    \/ \E i \in 1..Len(GlobalArea) : GlobalArea[i] = l

Outside == phase \in {"idle", "alloc", "construct"}

\* The object that has been allocated and not filled.
Unfinished == IF phase = "construct" THEN {cur} ELSE {}

ArgCount  == IF call = NoCall THEN 0 ELSE call.nargs
ArgsInUse == {ArgLoc[i] : i \in 1..ArgCount}

\* The constructor that runs, its request and the roots that it has pushed.
CallInOrder ==
  /\ call = NoCall <=> phase = "idle"
  /\ call # NoCall =>
       /\ \E sh \in Shapes :
            /\ call.kind = sh.kind /\ call.len = sh.len
            /\ call.nargs \in {0, num_fields(sh.kind, sh.len)}
       /\ call.dst \in ProgramLoc
  /\ extra = PermanentRoots \o SubSeq(ArgLoc, 1, ArgCount)
  /\ phase # "idle" /\ phase # "construct" => need = obj_words(call.kind, call.len)

\* Outside the collector the heap is in order, but for the object that is being
\* constructed, and the collector's variables are at rest.
HeapReady ==
  Outside =>
    /\ Tiled /\ RootsSound /\ AtRest
    /\ \A h \in DOMAIN mem \ Unfinished : \A i \in 1..Len(mem[h].flds) :
         SoundWord(mem[h].flds[i])
    /\ phase = "construct" =>
         /\ cur \in DOMAIN mem
         /\ mem[cur].kind = call.kind /\ mem[cur].len = call.len
    /\ phase # "construct" => cur = 0
    /\ root = 1 /\ fld = 1 /\ qHead = 0 /\ qTail = 0
    /\ scan = 0 /\ freePtr = 0 /\ old = NoChunk

\* A return address is never taken for an object.
NowhereApart ==
  /\ Nowhere < heap.begin \/ heap_end < Nowhere
  /\ Collecting => Nowhere < old.begin \/ old.current < Nowhere
  /\ \A l \in Loc \ (ProgramLoc \cup ArgsInUse) : slots[l] = Nowhere

\* What the program holds are unboxed values and objects, however the collector
\* represents them at the moment.
IsValue(x) == x[1] = "object" \/ x[2] \in Unboxed

ValuesHeld ==
  /\ \A l \in ProgramLoc \cup ArgsInUse : IsValue(ReadSlot(l))
  /\ \A h \in KeptHeaders \ Unfinished : \A i \in 1..Len(mem[h].flds) :
       IsValue(ReadField(h, mem[h].flds[i]))

GCInvariant ==
  /\ GCTypeOK
  /\ VariablesAreRoots
  /\ CallInOrder
  /\ HeapReady
  /\ ~Outside => CompactInvariant
  /\ NowhereApart
  /\ ValuesHeld
=============================================================================
