------------------------------ MODULE LamaEmit ------------------------------
(***************************************************************************)
(* The traversal that drives the RISC-V compiler (emit in lama_rv.cpp with *)
(* add_jump_target, inst_begin and should_emit of compiler.h): the code is *)
(* emitted in traces, each of which starts at an offset taken from todo    *)
(* and runs to the next terminator.  Along a trace the compiler carries    *)
(* the height of the symbolic stack and the frame of the function whose    *)
(* Begin it met last.  todo is an unordered_map: which of its elements     *)
(* comes first is not determined.                                          *)
(*                                                                         *)
(* An instruction is reduced to what the traversal looks at.  An offset is *)
(* the position of an instruction in the file.                             *)
(***************************************************************************)
EXTENDS Integers, Sequences, FiniteSets

CONSTANTS Offset   \* positions in the bytecode

Ops == {"begin", "end", "fail", "jump", "cjump", "call", "local", "plain"}

Instruction ==
  [op     : Ops,
   target : Offset,   \* of a jump or call
   pops   : Nat,      \* what emit_code takes from the symbolic stack
   pushes : Nat,      \* and what it puts there afterwards
   locals : Nat]      \* locals_count of a Begin, index of a local otherwise

ASSUME OffsetAssumption == Offset \subseteq Nat \ {0} /\ IsFiniteSet(Offset)

VARIABLES
  code,      \* instructions: the map from offsets to instructions
  publics,   \* offsets of the public symbols
  depth,     \* height of the stack that the bytecode intends at each offset
  todo,      \* offset -> height of the stack at a jump target
  done,      \* offset -> height of the stack where it was emitted first
  at,        \* offset of the next instruction of the trace, or NoTrace
  top,       \* st.top
  frame,     \* current_frame->locals_count, or NoFrame
  referenced \* labels that the assembler has to resolve

program == <<code, publics, depth>>
emitVars == <<todo, done, at, top, frame, referenced>>

NoTrace == 0
NoFrame == [locals |-> -1]

-----------------------------------------------------------------------------
(* The bytecode that the Lama compiler delivers.                           *)

Is(o, op) == code[o].op = op

\* Jump, Fail and End.
is_terminator(o) == code[o].op \in {"jump", "fail", "end"}

after(o, h) == (h - code[o].pops) + code[o].pushes

\* What follows an instruction: each successor with the height it starts at.
Successors(o, h) ==
  (IF is_terminator(o) THEN {} ELSE {<<o + 1, after(o, h)>>})
  \cup (CASE code[o].op \in {"jump", "cjump"} -> {<<code[o].target, after(o, h)>>}
          [] code[o].op = "call" -> {<<code[o].target, 0>>}
          [] OTHER -> {})

\* A height for every instruction such that all ways to it agree.  That there
\* is one, and that no way leaves the code, is what the bytecode promises.
WellFormed ==
  /\ DOMAIN code \subseteq Offset
  /\ code \in [DOMAIN code -> Instruction]
  /\ publics \subseteq DOMAIN code
  /\ depth \in [DOMAIN code -> Nat]
  /\ \A o \in publics : depth[o] = 0
  /\ \A o \in DOMAIN code :
       /\ code[o].pops <= depth[o]
       /\ \A s \in Successors(o, depth[o]) : s[1] \in DOMAIN code /\ depth[s[1]] = s[2]

-----------------------------------------------------------------------------
\* header, and add_jump_target for every public symbol.
EmitInit ==
  /\ WellFormed
  /\ todo = [o \in publics |-> 0]
  /\ done = << >>
  /\ at = NoTrace
  /\ top = 0
  /\ frame = NoFrame
  /\ referenced = {}

Put(f, o, h) == [x \in DOMAIN f \cup {o} |-> IF x = o THEN h ELSE f[x]]
Remove(f, o) == [x \in DOMAIN f \ {o} |-> f[x]]

\* Mistaken variant: a target further up is taken to be emitted.
ForwardTargetsOnly(emitted, o, h) ==
  IF o <= at \/ o \in DOMAIN emitted \/ o \in DOMAIN todo THEN todo ELSE Put(todo, o, h)

\* add_jump_target; todo.emplace keeps the entry that is there.
add_jump_target(emitted, o, h) ==
  IF o \in DOMAIN emitted \/ o \in DOMAIN todo THEN todo ELSE Put(todo, o, h)

\* inst_begin: the label is emitted where the offset is inserted into done.
inst_begin == IF at \in DOMAIN done THEN done ELSE Put(done, at, top)

\* ++it of the loop over the map of instructions.
next_instruction == IF at + 1 \in DOMAIN code THEN at + 1 ELSE NoTrace

-----------------------------------------------------------------------------
\* Mistaken variant: the entry is erased only when its code is to be emitted.
SkipDoneKeepsEntry ==
  /\ at = NoTrace
  /\ \E o \in DOMAIN todo \cap DOMAIN done : top' = todo[o]
  /\ UNCHANGED <<program, todo, done, at, frame, referenced>>

\* An element of todo whose code has been emitted meanwhile.
SkipDone ==
  /\ at = NoTrace
  /\ \E o \in DOMAIN todo \cap DOMAIN done :
       /\ top' = todo[o]
       /\ todo' = Remove(todo, o)
  /\ UNCHANGED <<program, done, at, frame, referenced>>

StartTrace ==
  /\ at = NoTrace
  /\ \E o \in DOMAIN todo \ DOMAIN done :
       /\ top' = todo[o]
       /\ todo' = Remove(todo, o)
       /\ at' = IF o \in DOMAIN code THEN o ELSE NoTrace
  /\ UNCHANGED <<program, done, frame, referenced>>

Emitting(op) == at # NoTrace /\ Is(at, op)

\* In main, Begin also calls __init, whose result stays on the symbolic stack.
EmitBegin ==
  /\ Emitting("begin")
  /\ frame' = [locals |-> code[at].locals]
  /\ done' = inst_begin
  /\ top' = after(at, top)
  /\ at' = next_instruction
  /\ UNCHANGED <<program, todo, referenced>>

\* Instructions that only change the symbolic stack, with or without a local.
EmitPlain ==
  /\ Emitting("plain") \/ Emitting("local")
  /\ done' = inst_begin
  /\ top' = after(at, top)
  /\ at' = next_instruction
  /\ UNCHANGED <<program, todo, frame, referenced>>

EmitJump ==
  /\ Emitting("jump")
  /\ done' = inst_begin
  /\ top' = after(at, top)
  /\ todo' = add_jump_target(done', code[at].target, top')
  /\ referenced' = referenced \cup {code[at].target}
  /\ at' = NoTrace
  /\ UNCHANGED <<program, frame>>

\* Mistaken variant: the target is registered before the condition is popped.
HeightBeforePop == top

jump_height == after(at, top)

EmitConditionalJump ==
  /\ Emitting("cjump")
  /\ done' = inst_begin
  /\ top' = after(at, top)
  /\ todo' = add_jump_target(done', code[at].target, jump_height)
  /\ referenced' = referenced \cup {code[at].target}
  /\ at' = next_instruction
  /\ UNCHANGED <<program, frame>>

\* compile_call with a bytecode offset: the callee starts on an empty stack.
EmitCall ==
  /\ Emitting("call")
  /\ done' = inst_begin
  /\ todo' = add_jump_target(done', code[at].target, 0)
  /\ referenced' = referenced \cup {code[at].target}
  /\ top' = after(at, top)
  /\ at' = next_instruction
  /\ UNCHANGED <<program, frame>>

\* Mistaken variant: Fail does not end the trace.
FailFallsThrough ==
  /\ Emitting("end") \/ Emitting("fail")
  /\ done' = inst_begin
  /\ top' = after(at, top)
  /\ at' = IF Is(at, "fail") THEN next_instruction ELSE NoTrace
  /\ UNCHANGED <<program, todo, frame, referenced>>

EmitTerminator ==
  /\ Emitting("end") \/ Emitting("fail")
  /\ done' = inst_begin
  /\ top' = after(at, top)
  /\ at' = NoTrace
  /\ UNCHANGED <<program, todo, frame, referenced>>

EmitNext ==
  \/ SkipDone
  \/ StartTrace
  \/ EmitBegin
  \/ EmitPlain
  \/ EmitJump
  \/ EmitConditionalJump
  \/ EmitCall
  \/ EmitTerminator

\* The compiler is sequential; nothing else keeps it from going on.
EmitSpec ==
  EmitInit /\ [][EmitNext]_<<program, emitVars>> /\ WF_<<program, emitVars>>(EmitNext)

\* No trace runs and no target is left.
Finished == at = NoTrace /\ DOMAIN todo = {}

-----------------------------------------------------------------------------
\* A set of offsets that contains the public symbols and everything that can
\* be reached from its members.
Closed(S) ==
  /\ publics \subseteq S
  /\ \A o \in S : \A s \in Successors(o, depth[o]) : s[1] \in S

EmitTypeOK ==
  /\ WellFormed
  /\ DOMAIN todo \subseteq DOMAIN code /\ todo \in [DOMAIN todo -> Nat]
  /\ DOMAIN done \subseteq DOMAIN code /\ done \in [DOMAIN done -> Nat]
  /\ at \in DOMAIN code \cup {NoTrace}
  /\ top \in Nat
  /\ frame = NoFrame \/ frame.locals \in Nat
  /\ referenced \subseteq DOMAIN code

\* The DCHECKs of add_jump_target, inst_begin, should_emit and SymbolicStack:
\* whatever order the targets are taken in, an offset that is met again is met
\* with the height of the first time, and no instruction pops an empty stack.
HeightsAgree ==
  /\ \A o \in DOMAIN todo \cap DOMAIN done : todo[o] = done[o]
  /\ at # NoTrace =>
       /\ code[at].pops <= top
       /\ at \in DOMAIN done => done[at] = top
       /\ \A s \in Successors(at, top) :
            /\ s[1] \in DOMAIN todo => todo[s[1]] = s[2]
            /\ s[1] \in DOMAIN done => done[s[1]] = s[2]

\* Every label that a jump or a call names is defined: the loop over todo does
\* not end before the code at it is emitted.
LabelsResolved == Finished => referenced \subseteq DOMAIN done

\* The code that is emitted is the code that can be reached from the public
\* symbols.
EmittedExactlyReachable ==
  Finished =>
    /\ Closed(DOMAIN done)
    /\ \A S \in SUBSET DOMAIN code : Closed(S) => DOMAIN done \subseteq S

\* emit ends, although traces run through code that has been emitted before.
EmitTerminates == <>Finished

\* Load::emit_code: DCHECK_LT(_loc.index, c->current_frame->locals_count).
LocalIndexInBounds ==
  at # NoTrace /\ Is(at, "local") => code[at].locals < frame.locals

-----------------------------------------------------------------------------
(* The inductive invariant that the theorems of LamaEmit_proofs rest on.   *)

\* Offsets that are emitted or going to be.
Known == DOMAIN done \cup DOMAIN todo \cup ({at} \ {NoTrace})

\* Every height the compiler has noted is the one that the bytecode intends.
HeightsIntended ==
  /\ \A o \in DOMAIN todo : todo[o] = depth[o]
  /\ \A o \in DOMAIN done : done[o] = depth[o]
  /\ at # NoTrace => top = depth[at]

\* Nothing that follows emitted code is forgotten.
FollowersKnown ==
  /\ publics \subseteq Known
  /\ referenced \subseteq Known
  /\ \A o \in DOMAIN done : \A s \in Successors(o, depth[o]) : s[1] \in Known

OnlyReachableKnown == \A S \in SUBSET DOMAIN code : Closed(S) => Known \subseteq S

EmitInvariant ==
  /\ EmitTypeOK
  /\ HeightsIntended
  /\ FollowersKnown
  /\ OnlyReachableKnown
=============================================================================
