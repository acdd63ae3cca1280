---------------------------- MODULE MCLamaCompact ----------------------------
(***************************************************************************)
(* Whole collections of the heaps below: the new chunk is at the address   *)
(* of the old one or above it.                                             *)
(***************************************************************************)
EXTENDS LamaCompact, SequencesExt

CONSTANTS u, s1, s2, sb, st, g1, gs, x1

MCUnboxed    == {u}
MCLoc        == {s1, s2, sb, st, g1, gs, x1}
MCStackArea  == <<s1, s2>>
MCGlobalArea == <<g1>>
MCBases      == {10, 60}

Base == 10
Foreign == 199    \* an even word outside the chunks: a return address, say

Shapes == {[kind |-> "ARRAY", len |-> 0], [kind |-> "ARRAY", len |-> 2],
           [kind |-> "SEXP", len |-> 1], [kind |-> "STRING", len |-> 8]}

ShapeWords(sh)  == obj_words(sh.kind, sh.len)
ShapeFields(sh) == num_fields(sh.kind, sh.len)
TotalFields(l)  == FoldLeft(LAMBDA a, sh : a + ShapeFields(sh), 0, l)

CONSTANTS MaxObjects, MaxFields

Layouts ==
  {l \in UNION {[1..n -> Shapes] : n \in 1..MaxObjects} : TotalFields(l) <= MaxFields}

HeaderAt(l, i)  == FoldLeft(LAMBDA a, sh : a + ShapeWords(sh), Base, SubSeq(l, 1, i - 1))
Headers(l)      == {HeaderAt(l, i) : i \in DOMAIN l}
Contents(l)     == {h + HeaderWords : h \in Headers(l)}

\* The field words of all objects of a layout, as one function.
FieldNames(l) == {<<i, j>> \in (DOMAIN l) \X (1..2) : j <= ShapeFields(l[i])}

MemOf(l, w) ==
  [h \in Headers(l) |->
     LET i == CHOOSE k \in DOMAIN l : HeaderAt(l, k) = h
     IN  [kind |-> l[i].kind, len |-> l[i].len, id |-> i,
          flds |-> [j \in 1..ShapeFields(l[i]) |-> w[<<i, j>>]]]]

\* The extra roots are a local of a runtime function and, when the runtime has
\* registered them, a word of the Lama stack (s2), which is a root twice, or the
\* words at __gc_stack_top and __stop_custom_data, which hold no object.
SmallHeap ==
  \E l \in Layouts :
    /\ heap = [begin |-> Base, size |-> 20, current |-> HeaderAt(l, Len(l) + 1)]
    /\ \E w \in [FieldNames(l) -> Contents(l) \cup {u}] : mem = MemOf(l, w)
    /\ fwd = [h \in Headers(l) |-> [addr |-> Foreign, mark |-> FALSE, enq |-> FALSE]]
    /\ \E a \in Contents(l) \cup {Foreign}, c \in Contents(l) \cup {u} :
         slots = (s1 :> Foreign) @@ (s2 :> a) @@ (g1 :> c) @@ (sb :> Foreign) @@ (x1 :> c)
                 @@ (st :> Foreign) @@ (gs :> u)
    /\ extra \in {<<x1>>, <<x1, s2, st, gs>>}
    /\ need = 12

MCCollectInit == SmallHeap /\ CollectInit

MCCollectSpec == MCCollectInit /\ [][CollectNext]_gcVars /\ WF_gcVars(CollectNext)
=============================================================================
