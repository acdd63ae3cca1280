------------------------------ MODULE MCLamaGC ------------------------------
(***************************************************************************)
(* A program with two variables, one on the stack and one that is only a   *)
(* permanent extra root, and chunks in which a few objects fit.            *)
(***************************************************************************)
EXTENDS LamaGC

CONSTANTS u, s1, sb, st, gs, x0, a1

MCUnboxed    == {u}
MCLoc        == {s1, sb, x0, a1}
MCStackArea  == <<s1>>
MCGlobalArea == << >>
MCBases      == {10, 50}
MCNowhere    == 199
MCProgramLoc == {s1, x0}
MCArgLoc     == <<a1>>
MCPermanent  == <<x0>>
MCShapes     == {[kind |-> "ARRAY", len |-> 1], [kind |-> "ARRAY", len |-> 0]}
MCIds        == 1..9
=============================================================================
