---------------------------- MODULE MCLamaGlobals ----------------------------
(***************************************************************************)
(* The program that the RISC-V compiler emits: one of its variables lives   *)
(* at the label globals in .data (Compiler::header), and the area between  *)
(* __start_custom_data and __stop_custom_data holds fill words only.       *)
(***************************************************************************)
EXTENDS LamaGC

CONSTANTS u, s1, fill, globals, sb, st, gs, a1

MCUnboxed    == {u}
MCLoc        == {s1, fill, globals, sb, a1}
MCStackArea  == <<s1>>
MCGlobalArea == <<fill>>
MCBases      == {10, 50}
MCNowhere    == 199
MCProgramLoc == {s1, globals}
MCArgLoc     == <<a1>>
MCPermanent  == << >>
MCShapes     == {[kind |-> "ARRAY", len |-> 1]}
MCIds        == 1..9
=============================================================================
