----------------------------- MODULE MCLamaCode -----------------------------
(***************************************************************************)
(* A machine with few registers; main, a function with two arguments and a *)
(* local, and one with two locals only.                                    *)
(***************************************************************************)
EXTENDS LamaCode

MCSReg == <<"s1", "s2", "s3">>
MCTReg == <<"t1">>
MCAReg == <<"a0", "a1", "a2">>
MCVal  == {1, 3}

Function(a, l) == [argc |-> a, locc |-> l]
Runtime(n, a)  == [operands |-> n, add |-> a]

MCShapes == {Function(2, 1), Function(0, 2)}
\* For the calling convention alone: one value, an argument on the stack.
MCFrameVal    == {1}
MCFrameShapes == {Function(2, 2), Function(4, 1)}

MCRuntimes == {Runtime(1, 0), Runtime(2, 1)}
=============================================================================
