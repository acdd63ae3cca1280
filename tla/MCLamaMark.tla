----------------------------- MODULE MCLamaMark -----------------------------
(***************************************************************************)
(* Small heaps for LamaMark: every heap of at most MaxObjects objects of   *)
(* the shapes below with at most MaxFields fields in all, every assignment *)
(* of words to the fields, to a stack word, an extra root and a word *)
(* of the global area.                                                     *)
(***************************************************************************)
EXTENDS LamaMark, SequencesExt

CONSTANTS MaxObjects, MaxFields, u, s1, sb, g1, x1

MCUnboxed    == {u}
MCLoc        == {s1, sb, g1, x1}
MCStackArea  == <<s1>>
MCGlobalArea == <<g1>>

Base == 10
Foreign == 99     \* an even word outside the heap: a return address, say

\* An empty array, an array, a closure that captures one value and a string.
\* An empty array at the end of the heap has its content address equal to
\* heap.current.
Shapes == {[kind |-> "ARRAY", len |-> 0], [kind |-> "ARRAY", len |-> 2],
           [kind |-> "CLOSURE", len |-> 2], [kind |-> "STRING", len |-> 3]}

ShapeWords(sh)  == obj_words(sh.kind, sh.len)
ShapeFields(sh) == num_fields(sh.kind, sh.len)
TotalFields(l)  == FoldLeft(LAMBDA a, sh : a + ShapeFields(sh), 0, l)

Layouts ==
  {l \in UNION {[1..n -> Shapes] : n \in 1..MaxObjects} : TotalFields(l) <= MaxFields}

HeaderAt(l, i)  == FoldLeft(LAMBDA a, sh : a + ShapeWords(sh), Base, SubSeq(l, 1, i - 1))
Headers(l)      == {HeaderAt(l, i) : i \in DOMAIN l}
Contents(l)     == {h + HeaderWords : h \in Headers(l)}

\* The field words of all objects of a layout, as one function.
FieldNames(l) == {<<i, j>> \in (DOMAIN l) \X (1..2) : j <= ShapeFields(l[i])}

MemOf(l, w) ==
  [h \in Headers(l) |->
     LET i == CHOOSE k \in DOMAIN l : HeaderAt(l, k) = h
     IN  [kind |-> l[i].kind, len |-> l[i].len, id |-> i,
          flds |-> [j \in 1..ShapeFields(l[i]) |-> w[<<i, j>>]]]]

\* The stack word and the extra root take every pointer, the stack word also an
\* address outside the heap.  The address part of forward_address is stale: an
\* old collection left it pointing anywhere.
SmallHeap ==
  \E l \in Layouts :
    /\ heap = [begin |-> Base, size |-> 20, current |-> HeaderAt(l, Len(l) + 1)]
    /\ \E w \in [FieldNames(l) -> Contents(l) \cup {u}] : mem = MemOf(l, w)
    /\ fwd = [h \in Headers(l) |-> [addr |-> Foreign, mark |-> FALSE, enq |-> FALSE]]
    /\ \E a \in Contents(l) \cup {Foreign}, c \in Contents(l), g \in {u, Base + HeaderWords} :
         slots = (s1 :> a) @@ (g1 :> g) @@ (sb :> Foreign) @@ (x1 :> c)
    /\ extra = <<x1>>

MCMarkInit == SmallHeap /\ MarkInit

MCMarkSpec ==
  MCMarkInit /\ [][MarkNext]_<<heapVars, markVars>> /\ WF_<<heapVars, markVars>>(MarkNext)
=============================================================================
