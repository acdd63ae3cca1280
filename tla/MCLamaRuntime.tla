---------------------------- MODULE MCLamaRuntime ----------------------------
(***************************************************************************)
(* Instances of LamaRuntime for TLC: two variables, a literal, a text from *)
(* the outside and a file with a NUL in it, characters of two bits, names  *)
(* of up to four characters of which three are hashed, immediates of six   *)
(* bits in which only the names of one or two characters fit.  The program *)
(* calls what the compiler emits calls of, and from integers 0; the values *)
(* in Started are for comparison, hash and patterns.                       *)
(***************************************************************************)
EXTENDS LamaRuntime

OutsideValue == <<<<BOX(1)>>, << >>, <<BOX(1), NUL>>>>
ArgvValue == <<1, 2>>
ExternalValue == {2, 3}
IntsValue == {0}
TagsValue == {compiled_tag(<<1>>)}
\* Two leaves and two objects above them, for comparisons that go down.
Leaves == {Obj("STRING", 0, << >>), Obj("STRING", 0, <<BOX(1)>>), Obj("ARRAY", 0, << >>)}
Above(below) ==
  {Obj("ARRAY", 0, <<v>>) : v \in below}
  \cup {Obj("SEXP", t, <<v, w>>) : t \in {compiled_tag(<<1>>)}, v \in below, w \in below}
  \cup {Obj("CLOSURE", 1, <<v>>) : v \in below}
Stores ==
  {5 :> a @@ 6 :> b @@ 7 :> c @@ 8 :> d :
     a \in Leaves, b \in Leaves, c \in Above({Ref(5), Ref(6), BOX(-2)}), d \in Above({Ref(5), Ref(6), Ref(7), BOX(3)})}
StartedValue ==
  {[vars |-> [v \in Var |-> BOX(0)], objs |-> << >>]}
  \cup {h \in [vars : [Var -> {Ref(7), Ref(8)}], objs : Stores] :
           DOMAIN h.objs = Reach(h.objs, {h.vars[v] : v \in Var})}
\* Barray, Bsexp, Bstring and Lstring run inside the others.
FunctionsValue ==
  {"LmakeString", "LmakeArray", "RVBstring", "LgetEnv", "LreadLine", "Lfread", "Bsprintf", "Lclone",
   "Lsubstring", "Li__Infix_4343", "RVLstring", "Lstringcat", "RVBarray", "RVBsexp", "Bclosure",
   "Ls__Infix_58"}
VarSymmetry == Permutations(Var)
=============================================================================
