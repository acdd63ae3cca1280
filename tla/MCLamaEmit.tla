----------------------------- MODULE MCLamaEmit -----------------------------
(***************************************************************************)
(* Every well-formed program of the shape below: main, public, and f, with *)
(* jumps forwards and backwards, calls in both directions, recursion and   *)
(* code that cannot be reached.                                            *)
(***************************************************************************)
EXTENDS LamaEmit

CONSTANTS MainLocals, FLocals

MCOffset == 1..7
InMain == 1..4
InF    == 5..7

Ins(op, target, pops, pushes, locals) ==
  [op |-> op, target |-> target, pops |-> pops, pushes |-> pushes, locals |-> locals]

Begin(n, main) == Ins("begin", 1, 0, IF main THEN 1 ELSE 0, n)
End            == Ins("end", 1, 1, 0, 0)
Fail           == Ins("fail", 1, 1, 1, 0)
Const          == Ins("plain", 1, 0, 1, 0)
Drop           == Ins("plain", 1, 1, 0, 0)
Local(i)       == Ins("local", 1, 0, 1, i)
Jump(t)        == Ins("jump", t, 0, 0, 0)
CJump(t)       == Ins("cjump", t, 1, 0, 0)
Call(t)        == Ins("call", t, 0, 1, 0)

Bodies(own, n) ==
  {Const, Drop, Fail} \cup {Local(i) : i \in 0..n - 1}
    \cup {Jump(t) : t \in own} \cup {CJump(t) : t \in own} \cup {Call(1), Call(5)}

Lasts(own) == {End} \cup {Jump(t) : t \in own}

SmallProgram ==
  /\ \E i2, i3 \in Bodies({2, 3, 4}, MainLocals), i4 \in Lasts({2, 3}),
        i6 \in Bodies({6, 7}, FLocals), i7 \in Lasts({6}) :
       code = <<Begin(MainLocals, TRUE), i2, i3, i4, Begin(FLocals, FALSE), i6, i7>>
  /\ publics \in {{1}, {1, 5}}
  /\ \E d2, d3, d4, d6, d7 \in 0..2 : depth = <<0, d2, d3, d4, 0, d6, d7>>

MCEmitInit == SmallProgram /\ EmitInit

MCEmitSpec ==
  MCEmitInit /\ [][EmitNext]_<<program, emitVars>> /\ WF_<<program, emitVars>>(EmitNext)
=============================================================================
