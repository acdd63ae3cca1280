----------------------------- MODULE MCLamaReader -----------------------------
(***************************************************************************)
(* Instances of LamaReader for TLC: a function, two instructions of any    *)
(* kind and the end, with every list of public functions, whole or cut off *)
(* at the end, with few globals or too many.                               *)
(***************************************************************************)
EXTENDS LamaReader

I(n) == <<n, 0, 0, 0>>

Operators == {<<x>> : x \in 1..13}
Patterns  == {<<x>> : x \in 96..102}
Plain     == {<<x>> : x \in {19, 20, 22, 23, 24, 25, 26, 27, 28, 112, 113, 114, 115}}
WithInt   == {<<x>> \o I(2) : x \in {21, 32, 33, 34, 35, 48, 64, 65, 66, 67, 80, 81, 85, 88, 90, 116}}
Consts    == {<<16>> \o I(n) : n \in {-3, 5, 9}}
WithTwo   == {<<x>> \o I(1) \o I(0) : x \in {83, 86, 89}}
WithString == {<<17>> \o I(s) : s \in 0..2} \cup {<<x>> \o I(s) \o I(2) : x \in {18, 87}, s \in {1, 2}}
Closures ==
  {<<84>> \o I(0) \o I(n) \o FlattenSeq([k \in 1..n |-> <<k>> \o I(k)]) : n \in 0..2}
Begins == {<<82>> \o I(1) \o I(2)}

InstructionsValue ==
  Operators \cup Patterns \cup Plain \cup WithInt \cup Consts \cup WithTwo \cup WithString \cup Closures \cup Begins

PublicListsValue ==
  {ps \in UNION {[1..n -> [name : 0..1, offset : {0, 9}]] : n \in 0..2} :
     \A j, k \in DOMAIN ps : j # k => ps[j].offset # ps[k].offset /\ ps[j].name # ps[k].name}
=============================================================================
