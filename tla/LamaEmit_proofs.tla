--------------------------- MODULE LamaEmit_proofs ---------------------------
(***************************************************************************)
(* Proofs about the traversal of LamaEmit, for every well-formed program   *)
(* and every order in which the elements of todo come out of the map.      *)
(***************************************************************************)
EXTENDS LamaEmit, TLAPS

-----------------------------------------------------------------------------
(* Lemmas about the steps.                                                 *)

\* The program is the same before and after a step, and so is what can be
\* said about it.
LEMMA ProgramUnchanged ==
  ASSUME UNCHANGED program
  PROVE  /\ WellFormed => WellFormed'
         /\ \A S : Closed(S)' <=> Closed(S)
         /\ \A o, h : Successors(o, h)' = Successors(o, h)
BY DEF program, WellFormed, Closed, Successors, is_terminator, after, Is

\* Emitting an instruction of a well-formed program: it has the height that
\* is intended, and what follows it is code and has the intended height.
LEMMA Follows ==
  ASSUME EmitInvariant, at # NoTrace
  PROVE  /\ at \in DOMAIN code
         /\ top = depth[at]
         /\ code[at].pops <= top
         /\ after(at, top) \in Nat
         /\ \A s \in Successors(at, top) : s[1] \in DOMAIN code /\ depth[s[1]] = s[2]
<1>1. at \in DOMAIN code /\ WellFormed /\ top = depth[at] /\ top \in Nat
  BY DEF EmitInvariant, EmitTypeOK, HeightsIntended
<1>2. code[at] \in Instruction
  BY <1>1 DEF WellFormed
<1>3. code[at].pops <= top
  BY <1>1 DEF WellFormed
<1>4. after(at, top) \in Nat
  BY <1>1, <1>2, <1>3 DEF after, Instruction
<1> QED
  BY <1>1, <1>3, <1>4 DEF WellFormed

\* inst_begin adds the current offset to done, with the intended height.
LEMMA BeginEffect ==
  ASSUME EmitInvariant, at # NoTrace, done' = inst_begin
  PROVE  /\ DOMAIN done' = DOMAIN done \cup {at}
         /\ DOMAIN done' \subseteq DOMAIN code
         /\ done' \in [DOMAIN done' -> Nat]
         /\ \A o \in DOMAIN done' : done'[o] = depth[o]
<1>1. at \in DOMAIN code /\ top = depth[at] /\ top \in Nat
  BY Follows DEF EmitInvariant, EmitTypeOK
<1>2. /\ DOMAIN done \subseteq DOMAIN code /\ done \in [DOMAIN done -> Nat]
      /\ \A o \in DOMAIN done : done[o] = depth[o]
  BY DEF EmitInvariant, EmitTypeOK, HeightsIntended
<1>3. CASE at \in DOMAIN done
  BY <1>1, <1>2, <1>3 DEF inst_begin
<1>4. CASE at \notin DOMAIN done
  <2>1. done' = [x \in DOMAIN done \cup {at} |-> IF x = at THEN top ELSE done[x]]
    BY <1>4 DEF inst_begin, Put
  <2> QED
    BY <1>1, <1>2, <2>1
<1> QED
  BY <1>3, <1>4

\* add_jump_target makes sure that its target is known, with its height.
LEMMA TargetEffect ==
  ASSUME EmitInvariant, NEW d, NEW o \in DOMAIN code, todo' = add_jump_target(d, o, depth[o])
  PROVE  /\ DOMAIN todo' \subseteq DOMAIN todo \cup {o}
         /\ DOMAIN todo \subseteq DOMAIN todo'
         /\ o \in DOMAIN d \cup DOMAIN todo'
         /\ DOMAIN todo' \subseteq DOMAIN code
         /\ todo' \in [DOMAIN todo' -> Nat]
         /\ \A x \in DOMAIN todo' : todo'[x] = depth[x]
<1>1. /\ DOMAIN todo \subseteq DOMAIN code /\ todo \in [DOMAIN todo -> Nat]
      /\ \A x \in DOMAIN todo : todo[x] = depth[x]
      /\ depth[o] \in Nat
  BY DEF EmitInvariant, EmitTypeOK, HeightsIntended, WellFormed
<1>2. CASE o \in DOMAIN d \/ o \in DOMAIN todo
  BY <1>1, <1>2 DEF add_jump_target
<1>3. CASE ~(o \in DOMAIN d \/ o \in DOMAIN todo)
  <2>1. todo' = [x \in DOMAIN todo \cup {o} |-> IF x = o THEN depth[o] ELSE todo[x]]
    BY <1>3 DEF add_jump_target, Put
  <2> QED
    BY <1>1, <2>1
<1> QED
  BY <1>2, <1>3

\* A step that emits the instruction at at: done gets its offset, todo gets at
\* most the target T, and the trace goes on at a successor or ends.
LEMMA EmittingStep ==
  ASSUME EmitInvariant, at # NoTrace, UNCHANGED program,
         done' = inst_begin,
         top' = after(at, top),
         frame' = frame \/ frame'.locals \in Nat,
         NEW T \in SUBSET {s[1] : s \in Successors(at, top)},
         DOMAIN todo \subseteq DOMAIN todo',
         DOMAIN todo' \subseteq DOMAIN todo \cup T,
         todo' \in [DOMAIN todo' -> Nat],
         \A x \in DOMAIN todo' : todo'[x] = depth[x],
         referenced' = referenced \cup T,
         T \subseteq DOMAIN done' \cup DOMAIN todo',
         \/ at' = NoTrace /\ Successors(at, top) \subseteq {s \in Successors(at, top) : s[1] \in T}
         \/ /\ at' = at + 1
            /\ at' # NoTrace
            /\ <<at + 1, after(at, top)>> \in Successors(at, top)
            /\ \A s \in Successors(at, top) : s[1] \in T \cup {at + 1}
  PROVE  EmitInvariant'
<1>1. /\ at \in DOMAIN code /\ top = depth[at] /\ after(at, top) \in Nat
      /\ \A s \in Successors(at, top) : s[1] \in DOMAIN code /\ depth[s[1]] = s[2]
  BY Follows
<1>2. /\ DOMAIN done' = DOMAIN done \cup {at}
      /\ DOMAIN done' \subseteq DOMAIN code
      /\ done' \in [DOMAIN done' -> Nat]
      /\ \A o \in DOMAIN done' : done'[o] = depth[o]
  BY BeginEffect
<1>3. /\ code' = code /\ publics' = publics /\ depth' = depth /\ WellFormed'
      /\ \A S : Closed(S)' <=> Closed(S)
      /\ \A o, h : Successors(o, h)' = Successors(o, h)
  BY ProgramUnchanged DEF program, EmitInvariant, EmitTypeOK
<1>4. T \subseteq DOMAIN code
  BY <1>1
<1>5. at' # NoTrace => at' \in DOMAIN code /\ top' = depth[at']
  BY <1>1
<1>6. EmitTypeOK'
  <2>1. DOMAIN todo' \subseteq DOMAIN code /\ referenced' \subseteq DOMAIN code
    BY <1>4 DEF EmitInvariant, EmitTypeOK
  <2>2. top' \in Nat /\ at' \in DOMAIN code \cup {NoTrace}
    BY <1>1, <1>5
  <2>3. (frame = NoFrame \/ frame.locals \in Nat)'
    BY DEF EmitInvariant, EmitTypeOK, NoFrame
  <2> QED
    BY <1>2, <1>3, <2>1, <2>2, <2>3 DEF EmitTypeOK
<1>7. HeightsIntended'
  BY <1>2, <1>3, <1>5 DEF HeightsIntended
<1>8. Known \subseteq Known' /\ {s[1] : s \in Successors(at, top)} \subseteq Known'
  BY <1>2 DEF Known
<1>9. FollowersKnown'
  <2>1. publics' \subseteq Known' /\ referenced' \subseteq Known'
    BY <1>3, <1>8 DEF EmitInvariant, FollowersKnown
  <2>2. ASSUME NEW o \in DOMAIN done', NEW s \in Successors(o, depth[o])
        PROVE  s[1] \in Known'
    <3>1. CASE o = at
      BY <1>1, <1>8, <2>2, <3>1
    <3>2. CASE o \in DOMAIN done
      BY <1>8, <2>2, <3>2 DEF EmitInvariant, FollowersKnown
    <3> QED
      BY <1>2, <3>1, <3>2
  <2> QED
    BY <1>3, <2>1, <2>2 DEF FollowersKnown
<1>10. OnlyReachableKnown'
  <2> SUFFICES ASSUME NEW S \in SUBSET DOMAIN code, Closed(S)
               PROVE  Known' \subseteq S
    BY <1>3 DEF OnlyReachableKnown
  <2>1. Known \subseteq S
    BY DEF EmitInvariant, OnlyReachableKnown
  <2>2. at \in S
    BY <2>1 DEF Known
  <2>3. \A s \in Successors(at, top) : s[1] \in S
    BY <1>1, <2>2 DEF Closed
  <2>4. T \subseteq S
    BY <2>3
  <2>5. at' # NoTrace => at' \in S
    BY <2>3
  <2> QED
    BY <1>2, <2>1, <2>2, <2>4, <2>5 DEF Known
<1> QED
  BY <1>6, <1>7, <1>9, <1>10 DEF EmitInvariant

\* The instruction that follows in the file is code, unless a trace ends here.
LEMMA NextInstruction ==
  ASSUME EmitInvariant, at # NoTrace, ~is_terminator(at)
  PROVE  /\ next_instruction = at + 1
         /\ at + 1 # NoTrace
         /\ <<at + 1, after(at, top)>> \in Successors(at, top)
<1>1. <<at + 1, after(at, top)>> \in Successors(at, top)
  BY DEF Successors
<1>2. at + 1 \in DOMAIN code
  BY <1>1, Follows
<1>3. at + 1 \in Offset
  BY <1>2 DEF EmitInvariant, EmitTypeOK, WellFormed
<1> QED
  BY <1>1, <1>2, <1>3, OffsetAssumption DEF next_instruction, NoTrace

-----------------------------------------------------------------------------
(* EmitInvariant is inductive: the initial states and one lemma per action.*)

\* The public symbols are known and nothing else is.
LEMMA InvariantHoldsInitially == EmitInit => EmitInvariant
<1> SUFFICES ASSUME EmitInit
             PROVE  EmitInvariant
  OBVIOUS
<1>1. /\ DOMAIN todo = publics /\ todo \in [publics -> Nat]
      /\ \A o \in publics : todo[o] = 0
      /\ DOMAIN done = {}
  BY DEF EmitInit
<1>2. EmitTypeOK
  BY <1>1 DEF EmitInit, EmitTypeOK, WellFormed
<1>3. HeightsIntended
  BY <1>1 DEF EmitInit, HeightsIntended, WellFormed
<1>4. Known = publics
  BY <1>1 DEF EmitInit, Known
<1>5. FollowersKnown /\ OnlyReachableKnown
  BY <1>1, <1>4 DEF EmitInit, FollowersKnown, OnlyReachableKnown, Closed
<1> QED
  BY <1>2, <1>3, <1>5 DEF EmitInvariant

\* An element of todo moves to the front of a trace, or is in done already.
LEMMA TakeStep ==
  ASSUME EmitInvariant, UNCHANGED <<program, done, frame, referenced>>, at = NoTrace,
         NEW o \in DOMAIN todo,
         top' = todo[o], todo' = Remove(todo, o),
         at' = o \/ (at' = NoTrace /\ o \in DOMAIN done)
  PROVE  EmitInvariant'
<1>1. /\ code' = code /\ publics' = publics /\ depth' = depth /\ WellFormed'
      /\ \A S : Closed(S)' <=> Closed(S)
      /\ \A x, h : Successors(x, h)' = Successors(x, h)
  BY ProgramUnchanged DEF program, EmitInvariant, EmitTypeOK
<1>2. /\ DOMAIN todo' = DOMAIN todo \ {o}
      /\ \A x \in DOMAIN todo' : todo'[x] = todo[x]
      /\ todo' \in [DOMAIN todo' -> Nat]
  BY DEF Remove, EmitInvariant, EmitTypeOK
<1>3. o \in DOMAIN code /\ todo[o] \in Nat /\ todo[o] = depth[o]
  BY DEF EmitInvariant, EmitTypeOK, HeightsIntended
<1>4. o # NoTrace
  BY <1>3, OffsetAssumption DEF EmitInvariant, EmitTypeOK, WellFormed, NoTrace
<1>5. EmitTypeOK'
  BY <1>1, <1>2, <1>3 DEF EmitInvariant, EmitTypeOK
<1>6. HeightsIntended'
  BY <1>1, <1>2, <1>3 DEF EmitInvariant, HeightsIntended
<1>7. Known' = Known
  BY <1>2, <1>4 DEF Known
<1>8. FollowersKnown' /\ OnlyReachableKnown'
  BY <1>1, <1>7 DEF EmitInvariant, FollowersKnown, OnlyReachableKnown
<1> QED
  BY <1>5, <1>6, <1>8 DEF EmitInvariant

\* Begin and the instructions that only change the symbolic stack.
LEMMA StraightStep ==
  ASSUME EmitInvariant, at # NoTrace, UNCHANGED <<program, todo, referenced>>,
         done' = inst_begin, top' = after(at, top), at' = next_instruction,
         code[at].op \in {"begin", "plain", "local"},
         frame' = frame \/ frame'.locals \in Nat
  PROVE  EmitInvariant'
<1>1. \A s \in Successors(at, top) : s[1] = at + 1
  BY DEF Successors, is_terminator
<1>2. /\ at' = at + 1 /\ at' # NoTrace
      /\ <<at + 1, after(at, top)>> \in Successors(at, top)
  BY NextInstruction DEF is_terminator
<1>3. todo' \in [DOMAIN todo' -> Nat] /\ \A x \in DOMAIN todo' : todo'[x] = depth[x]
  BY DEF EmitInvariant, EmitTypeOK, HeightsIntended
<1> DEFINE T == {}
<1>4. /\ T \in SUBSET {s[1] : s \in Successors(at, top)}
      /\ DOMAIN todo' \subseteq DOMAIN todo \cup T
      /\ referenced' = referenced \cup T
      /\ T \subseteq DOMAIN done' \cup DOMAIN todo'
      /\ \A s \in Successors(at, top) : s[1] \in T \cup {at + 1}
  BY <1>1
<1> HIDE DEF T
<1> QED
  BY <1>2, <1>3, <1>4, EmittingStep

\* Jumps and calls: the target is registered with its height h.
LEMMA TargetStep ==
  ASSUME EmitInvariant, at # NoTrace, UNCHANGED <<program, frame>>,
         code[at].op \in {"jump", "cjump", "call"},
         NEW h, h = IF code[at].op = "call" THEN 0 ELSE after(at, top),
         done' = inst_begin, top' = after(at, top),
         todo' = add_jump_target(done', code[at].target, h),
         referenced' = referenced \cup {code[at].target},
         at' = IF code[at].op = "jump" THEN NoTrace ELSE next_instruction
  PROVE  EmitInvariant'
<1> DEFINE t == code[at].target
           T == {t}
<1>1. <<t, h>> \in Successors(at, top)
  BY DEF Successors
<1>2. t \in DOMAIN code /\ depth[t] = h
  BY <1>1, Follows
<1>3. \A s \in Successors(at, top) : s[1] = t \/ (s[1] = at + 1 /\ code[at].op # "jump")
  BY DEF Successors, is_terminator
<1>4. /\ DOMAIN todo' \subseteq DOMAIN todo \cup {t}
      /\ DOMAIN todo \subseteq DOMAIN todo'
      /\ t \in DOMAIN done' \cup DOMAIN todo'
      /\ todo' \in [DOMAIN todo' -> Nat]
      /\ \A x \in DOMAIN todo' : todo'[x] = depth[x]
  BY <1>2, TargetEffect
<1>5. T \in SUBSET {s[1] : s \in Successors(at, top)}
  BY <1>1
<1>6. /\ DOMAIN todo' \subseteq DOMAIN todo \cup T
      /\ referenced' = referenced \cup T
      /\ T \subseteq DOMAIN done' \cup DOMAIN todo'
  BY <1>4
<1>7. CASE code[at].op = "jump"
  <2>1. at' = NoTrace
    BY <1>7
  <2>2. Successors(at, top) \subseteq {s \in Successors(at, top) : s[1] \in T}
    BY <1>3, <1>7
  <2> HIDE DEF T
  <2> QED
    BY <1>4, <1>5, <1>6, <2>1, <2>2, EmittingStep
<1>8. CASE code[at].op # "jump"
  <2>1. /\ at' = at + 1 /\ at' # NoTrace
        /\ <<at + 1, after(at, top)>> \in Successors(at, top)
    BY <1>8, NextInstruction DEF is_terminator
  <2>2. \A s \in Successors(at, top) : s[1] \in T \cup {at + 1}
    BY <1>3
  <2> HIDE DEF T
  <2> QED
    BY <1>4, <1>5, <1>6, <2>1, <2>2, EmittingStep
<1> QED
  BY <1>7, <1>8

\* End and Fail have no successors.
LEMMA TerminatorStep ==
  ASSUME EmitInvariant, EmitTerminator
  PROVE  EmitInvariant'
<1>1. /\ at # NoTrace /\ code[at].op \in {"end", "fail"}
      /\ done' = inst_begin /\ top' = after(at, top) /\ at' = NoTrace
      /\ UNCHANGED <<program, todo, frame, referenced>>
  BY DEF EmitTerminator, Emitting, Is
<1>2. Successors(at, top) = {}
  BY <1>1 DEF Successors, is_terminator
<1>3. todo' \in [DOMAIN todo' -> Nat] /\ \A x \in DOMAIN todo' : todo'[x] = depth[x]
  BY <1>1 DEF EmitInvariant, EmitTypeOK, HeightsIntended
<1> DEFINE T == {}
<1>4. /\ T \in SUBSET {s[1] : s \in Successors(at, top)}
      /\ DOMAIN todo' \subseteq DOMAIN todo \cup T
      /\ referenced' = referenced \cup T
      /\ T \subseteq DOMAIN done' \cup DOMAIN todo'
      /\ Successors(at, top) \subseteq {s \in Successors(at, top) : s[1] \in T}
  BY <1>1, <1>2
<1> HIDE DEF T
<1> QED
  BY <1>1, <1>3, <1>4, EmittingStep

-----------------------------------------------------------------------------
(* The theorems.                                                           *)

\* EmitInvariant holds throughout emit, for every well-formed program.
THEOREM EmitInvariantHolds == EmitSpec => []EmitInvariant
<1>1. EmitInvariant /\ [EmitNext]_<<program, emitVars>> => EmitInvariant'
  <2> SUFFICES ASSUME EmitInvariant, [EmitNext]_<<program, emitVars>>
               PROVE  EmitInvariant'
    OBVIOUS
  <2>1. CASE SkipDone
    <3>1. PICK o \in DOMAIN todo \cap DOMAIN done :
             top' = todo[o] /\ todo' = Remove(todo, o)
      BY <2>1 DEF SkipDone
    <3> QED
      BY <2>1, <3>1, TakeStep DEF SkipDone
  <2>2. CASE StartTrace
    <3>1. PICK o \in DOMAIN todo \ DOMAIN done :
             /\ top' = todo[o] /\ todo' = Remove(todo, o)
             /\ at' = IF o \in DOMAIN code THEN o ELSE NoTrace
      BY <2>2 DEF StartTrace
    <3>2. at' = o
      BY <3>1 DEF EmitInvariant, EmitTypeOK
    <3> QED
      BY <2>2, <3>1, <3>2, TakeStep DEF StartTrace
  <2>3. CASE EmitBegin
    <3>1. at \in DOMAIN code /\ code[at] \in Instruction
      BY <2>3 DEF EmitBegin, Emitting, EmitInvariant, EmitTypeOK, WellFormed
    <3>2. frame'.locals \in Nat
      BY <2>3, <3>1 DEF EmitBegin, Instruction
    <3> QED
      BY <2>3, <3>2, StraightStep DEF EmitBegin, Emitting, Is
  <2>4. CASE EmitPlain
    BY <2>4, StraightStep DEF EmitPlain, Emitting, Is
  <2>5. CASE EmitJump
    BY <2>5, TargetStep DEF EmitJump, Emitting, Is
  <2>6. CASE EmitConditionalJump
    BY <2>6, TargetStep DEF EmitConditionalJump, jump_height, Emitting, Is
  <2>7. CASE EmitCall
    BY <2>7, TargetStep DEF EmitCall, Emitting, Is
  <2>8. CASE EmitTerminator
    BY <2>8, TerminatorStep
  <2>9. CASE UNCHANGED <<program, emitVars>>
    <3>1. UNCHANGED <<code, publics, depth, todo, done, at, top, frame, referenced>>
      BY <2>9 DEF program, emitVars
    <3> QED
      BY <3>1 DEF EmitInvariant, EmitTypeOK, HeightsIntended, FollowersKnown,
                  OnlyReachableKnown, Known, Closed, WellFormed, Successors,
                  is_terminator, after, Is
  <2> QED
    BY <2>1, <2>2, <2>3, <2>4, <2>5, <2>6, <2>7, <2>8, <2>9 DEF EmitNext
<1> QED
  BY <1>1, InvariantHoldsInitially, PTL DEF EmitSpec

\* The variables of the compiler keep their types.
THEOREM EmitTypeCorrect == EmitSpec => []EmitTypeOK
<1>1. EmitInvariant => EmitTypeOK
  BY DEF EmitInvariant
<1> QED
  BY <1>1, EmitInvariantHolds, PTL

\* No DCHECK on the height of the symbolic stack fails, in any order.
THEOREM HeightsAlwaysAgree == EmitSpec => []HeightsAgree
<1>1. EmitInvariant => HeightsAgree
  <2> SUFFICES ASSUME EmitInvariant
               PROVE  HeightsAgree
    OBVIOUS
  <2>1. \A o \in DOMAIN todo \cap DOMAIN done : todo[o] = done[o]
    BY DEF EmitInvariant, HeightsIntended
  <2>2. ASSUME at # NoTrace
        PROVE  /\ code[at].pops <= top
               /\ at \in DOMAIN done => done[at] = top
               /\ \A s \in Successors(at, top) :
                    /\ s[1] \in DOMAIN todo => todo[s[1]] = s[2]
                    /\ s[1] \in DOMAIN done => done[s[1]] = s[2]
    BY <2>2, Follows DEF EmitInvariant, HeightsIntended
  <2> QED
    BY <2>1, <2>2 DEF HeightsAgree
<1> QED
  BY <1>1, EmitInvariantHolds, PTL

\* When emit ends, every label that the code names is defined.
THEOREM LabelsAlwaysResolved == EmitSpec => []LabelsResolved
<1>1. EmitInvariant => LabelsResolved
  BY DEF EmitInvariant, FollowersKnown, Known, LabelsResolved, Finished, NoTrace
<1> QED
  BY <1>1, EmitInvariantHolds, PTL

\* When emit ends, it has emitted what the public symbols reach, and only that.
THEOREM EmissionIsExact == EmitSpec => []EmittedExactlyReachable
<1>1. EmitInvariant => EmittedExactlyReachable
  <2> SUFFICES ASSUME EmitInvariant, Finished
               PROVE  /\ Closed(DOMAIN done)
                      /\ \A S \in SUBSET DOMAIN code : Closed(S) => DOMAIN done \subseteq S
    BY DEF EmittedExactlyReachable
  <2>1. Known = DOMAIN done
    BY DEF Finished, Known
  <2> QED
    BY <2>1 DEF EmitInvariant, FollowersKnown, OnlyReachableKnown, Closed
<1> QED
  BY <1>1, EmitInvariantHolds, PTL
=============================================================================
