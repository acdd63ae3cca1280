-------------------------- MODULE LamaRuntime_proofs --------------------------
(***************************************************************************)
(* The discipline of the extra roots: for every program, every pool and    *)
(* every sequence of collections the pool is a stack of cells that exist,  *)
(* and no function touches an object where it no longer is.                *)
(***************************************************************************)
EXTENDS LamaFrames_proofs

-----------------------------------------------------------------------------
(* The words that the functions still need.                                *)

\* A cell that a frame may read is a word of the program or of a frame below.
LEMMA CellValue ==
  ASSUME actual \in Seq(Word), NEW d \in Nat, NEW c \in Reachable(d)
  PROVE  \/ \E k \in DOMAIN actual : c = <<0, k>> /\ At(c) = actual[k]
         \/ \E e \in 1..d : \E k \in DOMAIN frames[e].mem : c = <<e, k>> /\ At(c) = frames[e].mem[k]
<1>1. CASE c \in {<<0, k>> : k \in DOMAIN actual}
  <2>1. PICK k \in DOMAIN actual : c = <<0, k>>
    BY <1>1
  <2>2. k # 0
    <3>1. DOMAIN actual = 1..Len(actual) /\ Len(actual) \in Nat
      OBVIOUS
    <3> QED
      BY <3>1
  <2>3. c # SysargsCell /\ c[1] = 0 /\ c[2] = k
    BY <2>1, <2>2 DEF SysargsCell
  <2> QED
    BY <2>1, <2>3 DEF At
<1>2. CASE c \notin {<<0, k>> : k \in DOMAIN actual}
  <2>1. PICK e \in 1..d : c \in {<<e, k>> : k \in DOMAIN frames[e].mem}
    BY <1>2 DEF Reachable
  <2>2. PICK k \in DOMAIN frames[e].mem : c = <<e, k>>
    BY <2>1
  <2>3. e # 0
    OBVIOUS
  <2>4. c # SysargsCell /\ c[1] # 0 /\ c[1] = e /\ c[2] = k
    BY <2>2, <2>3 DEF SysargsCell
  <2> QED
    BY <2>2, <2>4 DEF At
<1> QED
  BY <1>1, <1>2

\* What frame d will read is as before.
ReadsKept(d) ==
  /\ Later(frames'[d], "fill") \/ Later(frames'[d], "same") =>
       \A c \in Range(frames[d].args) : At(c)' = At(c)
  /\ \A k \in frames'[d].pc..Len(Body(frames[d])) :
       Body(frames[d])[k].op = "call" =>
         \A i \in Range(Body(frames[d])[k].is) : i \in DOMAIN frames[d].mem => frames'[d].mem[i] = frames[d].mem[i]

\* A record that goes on, or stays where it is.
LEMMA FrameKept ==
  ASSUME NEW d \in Nat, FrameInOrder(d), AtStep(frames[d]), AtStep(frames'[d]), SameCall(frames[d], frames'[d]),
         frames'[d].pc = frames[d].pc \/ frames'[d].pc = frames[d].pc + 1,
         d < depth' => frames'[d].pc > 1 /\ Body(frames[d])[frames'[d].pc - 1].op = "call",
         Reachable(d)' = Reachable(d), ReadsKept(d)
  PROVE  FrameInOrder(d)'
<1>1. PICK f, g, B : f = frames[d] /\ g = frames'[d] /\ B = Body(f)
  OBVIOUS
<1>2. B = Body(g)
  BY <1>1, SameBody DEF SameCall
<1>3. /\ g.fn = f.fn /\ g.args = f.args /\ DOMAIN g.mem = DOMAIN f.mem
      /\ g.pc = f.pc \/ g.pc = f.pc + 1
      /\ f.pc \in 1..Len(B) /\ g.pc \in 1..Len(B) /\ Len(B) \in Nat
  BY <1>1, <1>2 DEF SameCall, AtStep, InOrder, Ends
<1>4. g = [fn |-> g.fn, pc |-> g.pc, args |-> g.args, mem |-> g.mem, obj |-> g.obj,
           addr |-> g.addr, n |-> g.n, t |-> g.t, flag |-> g.flag]
  BY <1>1 DEF SameCall
<1>5. g.fn \in Functions \cup Callees \cup {"set_args"} /\ (d > 1 => g.fn \in Callees)
  BY <1>1, <1>3 DEF FrameInOrder
<1>6. d < depth' => g.pc > 1 /\ B[g.pc - 1].op = "call"
  BY <1>1
<1>7. g.args \in Seq(Reachable(d)')
  BY <1>1, <1>3 DEF FrameInOrder
<1>8. Later(g, "fill") \/ Later(g, "same") => \A k \in DOMAIN g.args : Usable(g.fn, At(g.args[k])')
  <2> SUFFICES ASSUME Later(g, "fill") \/ Later(g, "same"), NEW k \in DOMAIN g.args
               PROVE  Usable(g.fn, At(g.args[k])')
    OBVIOUS
  <2>1. Later(f, "fill") \/ Later(f, "same")
    <3>1. \A x : Later(g, x) => Later(f, x)
      <4>1. \A i \in g.pc..Len(B) : i \in f.pc..Len(B)
        BY <1>3
      <4> QED
        BY <1>1, <1>2, <4>1 DEF Later
    <3> QED
      BY <3>1
  <2>2. PICK c : c = f.args[k]
    OBVIOUS
  <2>3. c \in Range(f.args) /\ k \in DOMAIN f.args /\ g.args[k] = c
    BY <1>3, <2>2 DEF Range
  <2>4. At(c)' = At(c)
    BY <1>1, <2>3 DEF ReadsKept
  <2>5. Usable(f.fn, At(c))
    BY <1>1, <2>1, <2>2, <2>3 DEF FrameInOrder
  <2> QED
    BY <1>3, <2>3, <2>4, <2>5
<1>9. \A k \in g.pc..Len(B) :
        B[k].op = "call" => \A i \in Range(B[k].is) : i \in DOMAIN g.mem /\ Usable(B[k].fn, g.mem[i])
  <2> SUFFICES ASSUME NEW k \in g.pc..Len(B), B[k].op = "call", NEW i \in Range(B[k].is)
               PROVE  i \in DOMAIN g.mem /\ Usable(B[k].fn, g.mem[i])
    OBVIOUS
  <2>1. k \in f.pc..Len(B)
    BY <1>3
  <2>2. i \in DOMAIN f.mem /\ Usable(B[k].fn, f.mem[i])
    BY <1>1, <2>1 DEF FrameInOrder
  <2>3. g.mem[i] = f.mem[i]
    BY <1>1, <2>2 DEF ReadsKept
  <2> QED
    BY <1>3, <2>2, <2>3
<1> QED
  BY <1>1, <1>2, <1>3, <1>4, <1>5, <1>6, <1>7, <1>8, <1>9 DEF FrameInOrder

\* The same words, below or at frame d.
LEMMA ReachableKept ==
  ASSUME NEW d \in Nat, actual' = actual, \A e \in 1..d : DOMAIN frames'[e].mem = DOMAIN frames[e].mem
  PROVE  Reachable(d)' = Reachable(d)
<1>1. UNION {{<<e, k>> : k \in DOMAIN frames'[e].mem} : e \in 1..d}
        = UNION {{<<e, k>> : k \in DOMAIN frames[e].mem} : e \in 1..d}
  OBVIOUS
<1> QED
  BY <1>1 DEF Reachable

\* Then it is still in order.
LEMMA InOrderStep ==
  ASSUME FramesFit, NEW o, Forward(o), o # "return", actual' = actual,
         \A d \in 1..depth : ReadsKept(d)
  PROVE  \A d \in 1..depth : FrameInOrder(d)'
<1> SUFFICES ASSUME NEW d \in 1..depth
             PROVE  FrameInOrder(d)'
  OBVIOUS
<1>1. /\ depth \in Nat \ {0} /\ DOMAIN frames = 1..depth /\ depth' = depth /\ AtStep(frames'[d])
  BY ForwardFrames DEF Forward
<1>2. FrameInOrder(d) /\ AtStep(frames[d]) /\ d \in Nat
  BY <1>1, FramesAtStep DEF FramesFit
<1>3. /\ SameCall(frames[d], frames'[d])
      /\ frames'[d].pc = IF d = depth THEN frames[d].pc + 1 ELSE frames[d].pc
  BY DEF Forward
<1>4. frames'[d].pc = frames[d].pc \/ frames'[d].pc = frames[d].pc + 1
  BY <1>3
<1>5. d < depth' => frames'[d].pc > 1 /\ Body(frames[d])[frames'[d].pc - 1].op = "call"
  BY <1>1, <1>2, <1>3 DEF FrameInOrder
<1>6. \A e \in 1..d : DOMAIN frames'[e].mem = DOMAIN frames[e].mem
  BY <1>1 DEF Forward, SameCall
<1>7. Reachable(d)' = Reachable(d)
  BY <1>2, <1>6, ReachableKept
<1> QED
  BY <1>1, <1>2, <1>3, <1>4, <1>5, <1>7, FrameKept

\* What is particular to set_args.
SysargsFit(f) ==
  /\ DOMAIN f.mem = 1..f.n + 1 /\ \A k \in 2..f.n + 1 : f.mem[k].kind = "raw"
  /\ IF Earlier(f, "hold") THEN f.mem[1].kind = "object" ELSE f.mem[1] = Null
  /\ Later(f, "publish") => global_sysargs = Null

\* The rest stays as it is.
LEMMA ArgumentsStep ==
  ASSUME NEW d, ArgumentsFit(d), SameCall(frames[d], frames'[d]), actual' = actual,
         frames[d].fn = "set_args" => SysargsFit(frames[d])'
  PROVE  ArgumentsFit(d)'
BY DEF ArgumentsFit, SameCall, SysargsFit

\* Together.
LEMMA FramesFitStep ==
  ASSUME FramesFit, NEW o, Forward(o), o # "return", actual' = actual,
         \A d \in 1..depth : ReadsKept(d) /\ (frames[d].fn = "set_args" => SysargsFit(frames[d])')
  PROVE  FramesFit'
<1>1. /\ depth \in Nat \ {0} /\ DOMAIN frames = 1..depth /\ DOMAIN frames' = 1..depth /\ depth' = depth
      /\ frames' \in Seq(Range(frames'))
  BY ForwardFrames DEF Forward
<1>2. \A d \in 1..depth : FrameInOrder(d)'
  BY InOrderStep
<1>3. \A d \in 1..depth : ArgumentsFit(d)'
  <2> SUFFICES ASSUME NEW d \in 1..depth
               PROVE  ArgumentsFit(d)'
    OBVIOUS
  <2>1. ArgumentsFit(d) /\ SameCall(frames[d], frames'[d])
    BY <1>1 DEF FramesFit, Forward
  <2> QED
    BY <2>1, ArgumentsStep
<1>4. Range(frames)' = Range(frames')
  BY DEF Range
<1> QED
  BY <1>1, <1>2, <1>3, <1>4 DEF FramesFit

\* The steps of set_args are in their order.
LEMMA SetArgsAt ==
  ASSUME NEW f, AtStep(f), f.fn = "set_args"
  PROVE  SetArgsInOrder(Body(f), f.n) /\ f.n \in Nat
BY BodyOf, SetArgsBodyInOrder DEF AtStep, Known

\* It is the outermost function, when it is called at all.
LEMMA SetArgsOutermost ==
  ASSUME FramesFit, NEW d \in 1..depth, frames[d].fn = "set_args"
  PROVE  d = 1 /\ SysargsFit(frames[d]) /\ frames[d].args = << >>
<1>1. DOMAIN frames = 1..depth /\ depth \in Nat
  BY FramesAtStep
<1>2. FrameInOrder(d) /\ ArgumentsFit(d)
  BY <1>1 DEF FramesFit
<1>3. ~(d > 1)
  BY <1>2 DEF FrameInOrder, Callees
<1> QED
  BY <1>1, <1>2, <1>3 DEF ArgumentsFit, SysargsFit

\* The steps that only set_args takes.
LEMMA OwnSteps ==
  ASSUME FramesFit, NEW o, At_op(o), o \in Own
  PROVE  cur.fn = "set_args" /\ depth = 1
<1>1. cur = frames[depth] /\ OpOf(cur) = o /\ AtStep(cur) /\ depth \in 1..depth
  BY Running
<1>2. cur.fn = "set_args"
  BY <1>1 DEF AtStep, InOrder, OwnInOrder, OpOf
<1> QED
  BY <1>1, <1>2, SetArgsOutermost

\* A cell keeps its word if the memory does.
LEMMA AtKept ==
  ASSUME actual \in Seq(Word), actual' = actual, NEW d \in Nat, NEW c \in Reachable(d),
         \A e \in 1..d : frames'[e].mem = frames[e].mem
  PROVE  At(c)' = At(c)
<1>1. CASE c \in {<<0, k>> : k \in DOMAIN actual}
  <2>1. PICK k \in DOMAIN actual : c = <<0, k>>
    BY <1>1
  <2>2. k # 0
    <3>1. DOMAIN actual = 1..Len(actual) /\ Len(actual) \in Nat
      OBVIOUS
    <3> QED
      BY <3>1
  <2>3. c # SysargsCell /\ c[1] = 0 /\ c[2] = k
    BY <2>1, <2>2 DEF SysargsCell
  <2> QED
    BY <2>3 DEF At
<1>2. CASE c \notin {<<0, k>> : k \in DOMAIN actual}
  <2>1. PICK e \in 1..d : c \in {<<e, k>> : k \in DOMAIN frames[e].mem}
    BY <1>2 DEF Reachable
  <2>2. PICK k \in DOMAIN frames[e].mem : c = <<e, k>>
    BY <2>1
  <2>3. e # 0
    OBVIOUS
  <2>4. c # SysargsCell /\ c[1] # 0 /\ c[1] = e /\ c[2] = k
    BY <2>2, <2>3 DEF SysargsCell
  <2> QED
    BY <2>4 DEF At
<1> QED
  BY <1>1, <1>2

\* Steps that leave the memory alone.
LEMMA FramesFitKept ==
  ASSUME FramesFit, actual \in Seq(Word), actual' = actual, NEW o, Forward(o), o \notin {"return", "hold"},
         global_sysargs' = global_sysargs, \A d \in 1..depth : frames'[d].mem = frames[d].mem
  PROVE  FramesFit'
<1>1. depth \in Nat \ {0} /\ DOMAIN frames = 1..depth
  BY ForwardFrames
<1>2. ASSUME NEW d \in 1..depth
      PROVE  ReadsKept(d)
  <2>1. \A e \in 1..d : e \in 1..depth
    BY <1>1
  <2>2. \A c \in Reachable(d) : At(c)' = At(c)
    BY <2>1, AtKept
  <2>3. Range(frames[d].args) \subseteq Reachable(d)
    <3>1. FrameInOrder(d)
      BY <1>1 DEF FramesFit
    <3> QED
      BY <3>1 DEF FrameInOrder, Range
  <2> QED
    BY <2>2, <2>3 DEF ReadsKept
<1>3. ASSUME NEW d \in 1..depth, frames[d].fn = "set_args"
      PROVE  SysargsFit(frames[d])'
  <2>1. SysargsFit(frames[d])
    BY <1>3, SetArgsOutermost
  <2>2. Earlier(frames'[d], "hold") <=> Earlier(frames[d], "hold")
    BY ForwardFrames, ForwardStep
  <2>3. Later(frames'[d], "publish") => Later(frames[d], "publish")
    BY ForwardFrames, ForwardStep
  <2>4. frames'[d].mem = frames[d].mem /\ frames'[d].n = frames[d].n
    BY DEF Forward, SameCall
  <2> QED
    BY <2>1, <2>2, <2>3, <2>4 DEF SysargsFit
<1> QED
  BY <1>2, <1>3, FramesFitStep

\* hold: set_args puts the array where the pool will have it.
LEMMA FramesFitHold ==
  ASSUME FramesFit, ObjectAtHand, actual' = actual, NEW o, o = "hold", Forward(o),
         global_sysargs' = global_sysargs, frames'[depth].mem = [frames[depth].mem EXCEPT ![1] = cur.obj]
  PROVE  FramesFit'
<1>1. depth \in Nat \ {0} /\ depth \in 1..depth /\ OpOf(frames[depth]) = "hold"
  BY ForwardFrames
<1>2. cur.fn = "set_args" /\ depth = 1 /\ cur = frames[depth]
  BY OwnSteps DEF Forward, Own, cur
<1>3. PICK f, g : f = frames[1] /\ g = frames'[1]
  OBVIOUS
<1>4. AtStep(f) /\ SetArgsInOrder(Body(f), f.n) /\ f.n \in Nat
  BY <1>2, <1>3, FramesAtStep, SetArgsAt
<1>5. SysargsFit(f) /\ f.args = << >>
  BY <1>2, <1>3, SetArgsOutermost
<1>6. SameCall(f, g) /\ g.mem = [f.mem EXCEPT ![1] = cur.obj] /\ g.pc = f.pc + 1
  BY <1>2, <1>3 DEF Forward
<1>7. f.pc \in 1..Len(Body(f)) /\ Len(Body(f)) \in Nat /\ Body(f)[f.pc].op = "hold"
  BY <1>1, <1>2, <1>3, <1>4 DEF AtStep, InOrder, Ends, OpOf
<1>8. Earlier(f, "call") /\ Earlier(g, "hold")
  <2>1. Before(Body(f), f.pc, "call")
    BY <1>4, <1>7 DEF SetArgsInOrder
  <2>2. Earlier(g, "hold")
    BY <1>2, <1>3, ForwardStep
  <2> QED
    BY <2>1, <2>2, FrameTerms
<1>9. cur.obj.kind = "object"
  BY <1>1, <1>2, <1>3, <1>8 DEF ObjectAtHand
<1>10. ReadsKept(1)
  <2>1. Range(f.args) = {}
    BY <1>5 DEF Range
  <2>2. ASSUME NEW k \in g.pc..Len(Body(f)), Body(f)[k].op = "call", NEW i \in Range(Body(f)[k].is)
        PROVE  g.mem[i] = f.mem[i]
    <3>1. k \in 1..Len(Body(f))
      BY <1>6, <1>7
    <3>2. InOrder(Body(f), "set_args")
      BY <1>2, <1>3, <1>4 DEF AtStep
    <3>3. Body(f)[k].fn = "LmakeArray" \/ \A j \in Range(Body(f)[k].is) : j \in 2..f.n + 1
      BY <1>4, <2>2, <3>1 DEF SetArgsInOrder
    <3>4. Body(f)[k].fn = "LmakeArray" => Body(f)[k].is = << >>
      BY <2>2, <3>1, <3>2 DEF InOrder, CallInOrder, IsCall
    <3>5. i \in 2..f.n + 1
      BY <3>3, <3>4 DEF Range
    <3>6. i # 1
      BY <1>4, <3>5
    <3> QED
      BY <1>6, <3>6
  <2> QED
    BY <1>3, <2>1, <2>2 DEF ReadsKept
<1>11. SysargsFit(frames[1])'
  <2>1. Later(g, "publish") => Later(f, "publish")
    BY <1>2, <1>3, ForwardStep
  <2>2. DOMAIN g.mem = 1..f.n + 1 /\ g.n = f.n
    BY <1>5, <1>6 DEF SysargsFit, SameCall
  <2>3. g.mem[1] = cur.obj /\ \A k \in 2..f.n + 1 : g.mem[k] = f.mem[k]
    <3>1. 1 \in DOMAIN f.mem
      BY <1>4, <1>5 DEF SysargsFit
    <3>2. \A k \in 2..f.n + 1 : k # 1
      BY <1>4
    <3> QED
      BY <1>6, <3>1, <3>2
  <2>4. \A k \in 2..f.n + 1 : g.mem[k].kind = "raw"
    BY <1>5, <2>3 DEF SysargsFit
  <2>5. Later(g, "publish") => global_sysargs = Null
    BY <1>5, <2>1 DEF SysargsFit
  <2> QED
    BY <1>3, <1>8, <1>9, <2>2, <2>3, <2>4, <2>5 DEF SysargsFit
<1>12. \A d \in 1..depth : d = 1
  BY <1>2
<1> QED
  BY <1>10, <1>11, <1>12, FramesFitStep

\* The heap as it is.
LEMMA WordsKept ==
  ASSUME WordsFollow, Unfilled = {}, vars' = vars, actual' = actual, objs' = objs,
         global_sysargs' = global_sysargs,
         \A d \in DOMAIN frames' : /\ \A k \in DOMAIN frames'[d].mem : Follows(frames'[d].mem[k])
                                   /\ Follows(frames'[d].obj) /\ Follows(frames'[d].addr)
  PROVE  WordsFollow'
<1>1. \A w : Follows(w)' <=> Follows(w)
  BY DEF Follows
<1>2. \A i \in DOMAIN objs : IsObject(objs[i]) /\ \A w \in WordsOf(objs[i]) : Follows(w) /\ IsValue(w, objs)
  BY DEF WordsFollow
<1>3. \A i \in DOMAIN objs' :
        /\ IsObject(objs'[i])
        /\ \A w \in WordsOf(objs'[i]) : Follows(w)' /\ (Ref(i) \notin Unfilled' => IsValue(w, objs'))
  BY <1>1, <1>2
<1>4. /\ vars' \in [Var -> Word] /\ \A v \in Var : IsValue(vars'[v], objs')
      /\ actual' \in Seq(Word) /\ \A k \in DOMAIN actual' : IsValue(actual'[k], objs')
      /\ IsFiniteSet(DOMAIN objs')
  BY DEF WordsFollow
<1>5. Follows(global_sysargs)' /\ (global_sysargs' = Null \/ global_sysargs'.kind = "object")
  BY <1>1 DEF WordsFollow
<1>6. (\A d \in DOMAIN frames : LET f == frames[d]
                               IN  /\ \A k \in DOMAIN f.mem : Follows(f.mem[k])
                                   /\ Follows(f.obj) /\ Follows(f.addr))'
  BY DEF Follows
<1> QED
  BY <1>3, <1>4, <1>5, <1>6 DEF WordsFollow

\* The new object stays at hand.
LEMMA ObjectKept ==
  ASSUME FramesFit, ObjectAtHand, NEW o, Forward(o), o \notin {"return", "alloc", "call"},
         \A w : IsValue(w, objs) => IsValue(w, objs'),
         o # "same" => frames'[depth].obj = frames[depth].obj,
         o = "same" => IsValue(frames'[depth].obj, objs')
  PROVE  ObjectAtHand'
<1>1. /\ depth \in Nat \ {0} /\ depth \in 1..depth /\ OpOf(frames[depth]) = o /\ depth' = depth
      /\ AtStep(frames'[depth]) /\ Body(frames'[depth]) = Body(frames[depth])
  BY ForwardFrames DEF Forward
<1>2. PICK f, g : f = frames[depth] /\ g = frames'[depth]
  OBVIOUS
<1>3. cur = f /\ cur' = g
  BY <1>1, <1>2 DEF cur
<1>4. /\ ~Stale(f.obj)
      /\ Earlier(f, "same") => IsValue(f.obj, objs)
      /\ Earlier(f, "alloc") \/ Earlier(f, "call") => f.obj.kind = "object"
  BY <1>1, <1>3 DEF ObjectAtHand
<1>5. \A x : Earlier(g, x) <=> (Earlier(f, x) \/ x = o)
  BY <1>2, ForwardStep
<1>6. AtStep(f) /\ Body(g) = Body(f) /\ SameCall(f, g) /\ g.pc = f.pc + 1
  BY <1>1, <1>2, FramesAtStep DEF Forward
<1>7. o = "same" => ~Earlier(f, "alloc") /\ ~Earlier(f, "call")
  <2> SUFFICES ASSUME o = "same", Earlier(f, "alloc") \/ Earlier(f, "call")
               PROVE  FALSE
    OBVIOUS
  <2>1. PICK k \in 1..f.pc - 1 : Body(f)[k].op = "alloc" \/ Body(f)[k].op = "call"
    BY DEF Earlier
  <2>2. /\ f.pc \in 1..Len(Body(f)) /\ Len(Body(f)) \in Nat /\ Body(f)[f.pc].op = "same"
        /\ AllocInOrder(Body(f), f.fn) /\ CallInOrder(Body(f), f.fn)
    BY <1>1, <1>2, <1>6 DEF AtStep, InOrder, Ends, OpOf
  <2>3. k \in 1..Len(Body(f)) /\ f.pc \in k..Len(Body(f)) /\ f.pc \in k + 1..Len(Body(f))
    BY <2>2
  <2>4. From(Body(f), k, "same") /\ From(Body(f), k + 1, "same")
    BY <2>2, <2>3 DEF From
  <2> QED
    BY <2>1, <2>2, <2>3, <2>4 DEF AllocInOrder, CallInOrder
<1>8. ~Stale(g.obj)
  BY <1>2, <1>4 DEF IsValue, Stale, UNBOXED
<1>9. Earlier(g, "same") => IsValue(g.obj, objs')
  BY <1>2, <1>4, <1>5
<1>10. Earlier(g, "alloc") \/ Earlier(g, "call") => g.obj.kind = "object"
  BY <1>2, <1>4, <1>5, <1>7
<1>11. ~(OpOf(g) = "fill" /\ g.fn = "Lclone")
  <2> SUFFICES ASSUME OpOf(g) = "fill", g.fn = "Lclone"
               PROVE  FALSE
    OBVIOUS
  <2>1. FillInOrder(Body(g), "Lclone") /\ g.pc \in 1..Len(Body(g))
    BY <1>1, <1>2 DEF AtStep, InOrder
  <2>2. Body(g)[g.pc - 1].op = "alloc"
    BY <2>1 DEF FillInOrder, OpOf
  <2>3. g.pc - 1 = f.pc /\ f.pc \in 1..Len(Body(f))
    BY <1>6 DEF AtStep
  <2> QED
    BY <1>1, <1>2, <1>6, <2>2, <2>3 DEF OpOf
<1> QED
  BY <1>3, <1>8, <1>9, <1>10, <1>11 DEF ObjectAtHand, At_op, OpOf

-----------------------------------------------------------------------------
(* The steps that change the record of the running function only.          *)

\* The parts of the invariant.
LEMMA Conjuncts ==
  RootsInvariant <=>
    /\ status \in {"running", "failed"} /\ Len(pool) <= MAX_EXTRA_ROOTS_NUMBER
    /\ FramesFit /\ PoolIsStack /\ TopIsOutermost /\ BufferInUse /\ WordsFollow /\ ObjectAtHand
BY DEF RootsInvariant, FramesFit

\* What such a step does to frames and words.
LEMMA OwnStep ==
  ASSUME FramesFit, WordsFollow, ObjectAtHand,
         NEW o, o \notin {"return", "alloc", "call", "fill", "publish", "store"}, At_op(o),
         NEW g, SetCur(g), SameCall(cur, g), g.pc = cur.pc + 1,
         vars' = vars, actual' = actual, objs' = objs, global_sysargs' = global_sysargs,
         g.mem = IF o = "hold" THEN [cur.mem EXCEPT ![1] = cur.obj] ELSE cur.mem,
         Follows(g.addr), o # "same" => g.obj = cur.obj, o = "same" => IsValue(g.obj, objs)
  PROVE  /\ Forward(o) /\ FramesFit' /\ WordsFollow' /\ ObjectAtHand' /\ Published' = Published
         /\ frames'[depth] = g /\ \A d \in 1..depth : d # depth => frames'[d] = frames[d]
<1>1. /\ status = "running" /\ depth \in Nat \ {0} /\ depth \in 1..depth
      /\ cur = frames[depth] /\ OpOf(cur) = o /\ AtStep(cur)
  BY Running
<1>2. Forward(o) /\ cur' = g /\ \A d \in 1..depth : d # depth => frames'[d] = frames[d]
  BY SetCurForward
<1>3. depth' = depth /\ DOMAIN frames = 1..depth /\ DOMAIN frames' = 1..depth
  BY <1>2, FramesAtStep DEF Forward
<1>4. frames'[depth] = g
  BY <1>2, <1>3 DEF cur
<1>5. actual \in Seq(Word)
  BY DEF WordsFollow
<1>6. FramesFit'
  <2>1. CASE o = "hold"
    BY <1>1, <1>2, <1>4, <2>1, FramesFitHold
  <2>2. CASE o # "hold"
    <3>1. \A d \in 1..depth : frames'[d].mem = frames[d].mem
      BY <1>1, <1>2, <1>4, <2>2
    <3> QED
      BY <1>2, <1>5, <2>2, <3>1, FramesFitKept
  <2> QED
    BY <2>1, <2>2
<1>7. \A d \in 1..depth : /\ \A k \in DOMAIN frames[d].mem : Follows(frames[d].mem[k])
                          /\ Follows(frames[d].obj) /\ Follows(frames[d].addr)
  BY <1>3 DEF WordsFollow
<1>8. \A k \in DOMAIN g.mem : Follows(g.mem[k])
  <2>1. DOMAIN g.mem = DOMAIN cur.mem
    BY DEF SameCall
  <2>2. (\A k \in DOMAIN cur.mem : Follows(cur.mem[k])) /\ Follows(cur.obj)
    BY <1>1, <1>7
  <2> QED
    BY <2>1, <2>2
<1>9. Follows(g.obj)
  BY <1>1, <1>7 DEF Follows, IsValue, UNBOXED
<1>10. \A d \in DOMAIN frames' : /\ \A k \in DOMAIN frames'[d].mem : Follows(frames'[d].mem[k])
                                 /\ Follows(frames'[d].obj) /\ Follows(frames'[d].addr)
  <2> SUFFICES ASSUME NEW d \in 1..depth
               PROVE  /\ \A k \in DOMAIN frames'[d].mem : Follows(frames'[d].mem[k])
                      /\ Follows(frames'[d].obj) /\ Follows(frames'[d].addr)
    BY <1>3
  <2>1. CASE d = depth
    BY <1>4, <1>8, <1>9, <2>1
  <2>2. CASE d # depth
    BY <1>2, <1>7, <2>2
  <2> QED
    BY <2>1, <2>2
<1>11. Unfilled = {}
  BY <1>1 DEF Unfilled, At_op, OpOf
<1>12. WordsFollow'
  BY <1>10, <1>11, WordsKept
<1>13. ObjectAtHand'
  <2>1. \A w : IsValue(w, objs) => IsValue(w, objs')
    OBVIOUS
  <2>2. o # "same" => frames'[depth].obj = frames[depth].obj
    BY <1>1, <1>4
  <2>3. o = "same" => IsValue(frames'[depth].obj, objs')
    BY <1>4
  <2> QED
    BY <1>2, <2>1, <2>2, <2>3, ObjectKept
<1>14. Published' = Published
  BY DEF Published, Null, Raw, SysargsCell
<1> QED
  BY <1>2, <1>4, <1>6, <1>12, <1>13, <1>14

\* The program counter moves, nothing else.
LEMMA AdvanceStep ==
  ASSUME FramesFit, WordsFollow, ObjectAtHand,
         NEW o, o \notin {"return", "alloc", "call", "fill", "publish", "store", "hold", "same"},
         At_op(o), Advance,
         vars' = vars, actual' = actual, objs' = objs, global_sysargs' = global_sysargs
  PROVE  /\ Forward(o) /\ FramesFit' /\ WordsFollow' /\ ObjectAtHand' /\ Published' = Published
         /\ \A d \in 1..depth : frames'[d].flag = frames[d].flag
<1>1. cur = frames[depth] /\ SameCall(cur, cur) /\ depth \in DOMAIN frames
  BY Running
<1>2. PICK g : g = Step(cur) /\ SetCur(g)
  BY DEF Advance
<1>3. SameCall(cur, g) /\ g.pc = cur.pc + 1 /\ g.mem = cur.mem /\ g.obj = cur.obj /\ g.addr = cur.addr
      /\ g.flag = cur.flag
  BY <1>1, <1>2 DEF SameCall, Step
<1>4. Follows(g.addr)
  BY <1>1, <1>3 DEF WordsFollow
<1>5. g.mem = IF o = "hold" THEN [cur.mem EXCEPT ![1] = cur.obj] ELSE cur.mem
  BY <1>3
<1>6. /\ Forward(o) /\ FramesFit' /\ WordsFollow' /\ ObjectAtHand' /\ Published' = Published
      /\ frames'[depth] = g /\ \A d \in 1..depth : d # depth => frames'[d] = frames[d]
  BY <1>2, <1>3, <1>4, <1>5, OwnStep
<1> QED
  BY <1>1, <1>3, <1>6

\* PRE_GC.
LEMMA PreGCKeeps ==
  ASSUME RootsInvariant, PRE_GC
  PROVE  RootsInvariant'
<1>1. /\ FramesFit /\ PoolIsStack /\ TopIsOutermost /\ BufferInUse /\ WordsFollow /\ ObjectAtHand
      /\ status \in {"running", "failed"} /\ Len(pool) <= MAX_EXTRA_ROOTS_NUMBER
  BY Conjuncts
<1>2. PICK o : o = "PRE_GC"
  OBVIOUS
<1>3. At_op(o)
  BY <1>2 DEF PRE_GC
<1>4. cur = frames[depth] /\ SameCall(cur, cur) /\ depth \in DOMAIN frames
  BY <1>1, <1>3, Running
<1>5. PICK g : g = [Step(cur) EXCEPT !.flag = outermost] /\ SetCur(g)
  BY DEF PRE_GC
<1>6. SameCall(cur, g) /\ g.pc = cur.pc + 1 /\ g.mem = cur.mem /\ g.obj = cur.obj /\ g.addr = cur.addr
      /\ g.flag = (top = 0)
  BY <1>4, <1>5 DEF SameCall, Step, outermost
<1>7. Follows(g.addr)
  BY <1>1, <1>4, <1>6 DEF WordsFollow
<1>8. /\ g.mem = IF o = "hold" THEN [cur.mem EXCEPT ![1] = cur.obj] ELSE cur.mem
      /\ o \notin {"return", "alloc", "call", "fill", "publish", "store"}
      /\ o # "same" => g.obj = cur.obj
      /\ o = "same" => IsValue(g.obj, objs)
  BY <1>2, <1>6
<1>9. vars' = vars /\ actual' = actual /\ objs' = objs /\ global_sysargs' = global_sysargs
      /\ pool' = pool /\ status' = status /\ buf' = buf /\ top' = IF top = 0 THEN depth ELSE top
  BY DEF PRE_GC
<1>10. SetCur(g)
  BY <1>5
<1>11. /\ Forward(o) /\ FramesFit' /\ WordsFollow' /\ ObjectAtHand' /\ Published' = Published
       /\ frames'[depth] = g /\ \A d \in 1..depth : d # depth => frames'[d] = frames[d]
  <2>1. vars' = vars /\ actual' = actual /\ objs' = objs /\ global_sysargs' = global_sysargs
    BY <1>9
  <2>2. SameCall(cur, g) /\ g.pc = cur.pc + 1
    BY <1>6
  <2> QED
    BY <1>1, <1>3, <1>7, <1>8, <1>10, <2>1, <2>2, OwnStep
<1>12. PoolIsStack'
  BY <1>1, <1>2, <1>9, <1>11, PoolKept
<1>13. BufferInUse'
  BY <1>1, <1>2, <1>9, <1>11, BufferKept
<1>14. TopIsOutermost'
  <2>1. \A d \in 1..depth : frames'[d].flag = IF d = depth THEN top = 0 ELSE frames[d].flag
    BY <1>6, <1>11
  <2> QED
    BY <1>1, <1>2, <1>9, <1>11, <2>1, TopSet
<1> QED
  BY <1>1, <1>9, <1>11, <1>12, <1>13, <1>14 DEF RootsInvariant, FramesFit

\* The operations that advance the running function and change one more variable.
LEMMA PostGCKeeps ==
  ASSUME RootsInvariant, POST_GC
  PROVE  RootsInvariant'
<1>1. /\ FramesFit /\ PoolIsStack /\ TopIsOutermost /\ BufferInUse /\ WordsFollow /\ ObjectAtHand
      /\ status \in {"running", "failed"} /\ Len(pool) <= MAX_EXTRA_ROOTS_NUMBER
  BY Conjuncts
<1>2. PICK o : o = "POST_GC"
  OBVIOUS
<1>3. At_op(o) /\ Advance
  BY <1>2 DEF POST_GC
<1>4. vars' = vars /\ actual' = actual /\ objs' = objs /\ global_sysargs' = global_sysargs
      /\ pool' = pool /\ status' = status /\ buf' = buf
      /\ top' = (IF frames[depth].flag THEN 0 ELSE top)
  BY DEF POST_GC, cur
<1>5. /\ Forward(o) /\ FramesFit' /\ WordsFollow' /\ ObjectAtHand' /\ Published' = Published
      /\ \A d \in 1..depth : frames'[d].flag = frames[d].flag
  BY <1>1, <1>2, <1>3, <1>4, AdvanceStep
<1>6. PoolIsStack'
  BY <1>1, <1>2, <1>4, <1>5, PoolKept
<1>7. BufferInUse'
  BY <1>1, <1>2, <1>4, <1>5, BufferKept
<1>8. TopIsOutermost'
  BY <1>1, <1>2, <1>4, <1>5, TopReset
<1> QED
  BY <1>1, <1>4, <1>5, <1>6, <1>7, <1>8 DEF RootsInvariant, FramesFit

\* A step that only ends the program.
LEMMA FailedKeeps ==
  ASSUME FramesFit, PoolIsStack, TopIsOutermost, BufferInUse, WordsFollow, ObjectAtHand,
         Len(pool) <= MAX_EXTRA_ROOTS_NUMBER, status' \in {"running", "failed"},
         vars' = vars, actual' = actual, frames' = frames, pool' = pool, top' = top, objs' = objs, buf' = buf,
         global_sysargs' = global_sysargs, Unfilled = {}, status' = "failed"
  PROVE  RootsInvariant'
<1>1. depth' = depth /\ cur' = cur
  BY DEF depth, cur
<1>2. FramesFit'
  <2>1. \A d \in DOMAIN frames : Reachable(d)' = Reachable(d)
    BY DEF Reachable
  <2>2. ASSUME NEW d \in DOMAIN frames
        PROVE  FrameInOrder(d)'
    <3>1. FrameInOrder(d)
      BY DEF FramesFit
    <3> QED
      BY <1>1, <2>1, <3>1 DEF FrameInOrder, At
  <2>3. \A d \in DOMAIN frames : ArgumentsFit(d)'
    BY DEF FramesFit, ArgumentsFit
  <2> QED
    BY <1>1, <2>2, <2>3 DEF FramesFit
<1>3. PoolIsStack'
  <2>1. \A d \in DOMAIN frames : HeldCells(d)' = HeldCells(d)
    BY DEF HeldCells, Registers
  <2>2. [d \in DOMAIN frames |-> HeldCells(d)]' = [d \in DOMAIN frames |-> HeldCells(d)]
    BY <2>1
  <2>3. Published' = Published
    BY DEF Published, Null, Raw, SysargsCell
  <2> QED
    BY <2>2, <2>3 DEF PoolIsStack
<1>4. TopIsOutermost' /\ BufferInUse'
  BY DEF TopIsOutermost, BufferInUse, NoBuf
<1>5. WordsFollow'
  <2>1. \A d \in DOMAIN frames' : /\ \A k \in DOMAIN frames'[d].mem : Follows(frames'[d].mem[k])
                                  /\ Follows(frames'[d].obj) /\ Follows(frames'[d].addr)
    BY DEF WordsFollow
  <2> QED
    BY <2>1, WordsKept
<1>6. ObjectAtHand'
  BY <1>1 DEF ObjectAtHand, At_op
<1> QED
  BY <1>2, <1>3, <1>4, <1>5, <1>6 DEF RootsInvariant, FramesFit

\* push_extra_root registers, or the program ends.
LEMMA PushKeeps ==
  ASSUME RootsInvariant, push_extra_root
  PROVE  RootsInvariant'
<1>1. /\ FramesFit /\ PoolIsStack /\ TopIsOutermost /\ BufferInUse /\ WordsFollow /\ ObjectAtHand
      /\ status \in {"running", "failed"} /\ Len(pool) <= MAX_EXTRA_ROOTS_NUMBER
  BY Conjuncts
<1>2. PICK o : o = "push"
  OBVIOUS
<1>3. At_op(o)
  BY <1>2 DEF push_extra_root
<1>4. vars' = vars /\ actual' = actual /\ objs' = objs /\ global_sysargs' = global_sysargs
      /\ buf' = buf /\ top' = top
  BY DEF push_extra_root
<1>5. CASE Len(pool) + Len(RootCells) <= MAX_EXTRA_ROOTS_NUMBER
  <2>1. pool' = pool \o RootCells /\ Advance /\ status' = status
    BY <1>5 DEF push_extra_root
  <2>2. /\ Forward(o) /\ FramesFit' /\ WordsFollow' /\ ObjectAtHand' /\ Published' = Published
        /\ \A d \in 1..depth : frames'[d].flag = frames[d].flag
    BY <1>1, <1>2, <1>3, <1>4, <2>1, AdvanceStep
  <2>3. PoolIsStack'
    BY <1>1, <1>2, <2>1, <2>2, PoolPushed
  <2>4. BufferInUse'
    BY <1>1, <1>2, <1>4, <2>2, BufferKept
  <2>5. TopIsOutermost'
    BY <1>1, <1>2, <1>4, <2>2, TopKept
  <2>6. Len(pool') <= MAX_EXTRA_ROOTS_NUMBER
    <3>1. depth \in 1..depth
      BY <1>1, <1>3, Running
    <3>2. PICK S : S = Registered
      OBVIOUS
    <3>3. PICK x : x = RootCells
      OBVIOUS
    <3>4. x \in Seq(S)
      BY <1>1, <3>1, <3>2, <3>3, HeldAre DEF RootCells
    <3>5. PICK r : r \in Seq(S) /\ pool = Joint(r, HeldCells(depth))
      <4>1. o # "return"
        BY <1>2
      <4> QED
        BY <1>1, <2>2, <3>2, <4>1, PoolForward
    <3>6. PICK h : h = HeldCells(depth)
      OBVIOUS
    <3>7. h \in Seq(S) /\ pool = r \o h
      BY <1>1, <3>1, <3>2, <3>5, <3>6, HeldAre DEF Joint
    <3>8. pool \in Seq(S)
      BY <3>5, <3>7
    <3>9. Len(pool \o x) = Len(pool) + Len(x)
      BY <3>4, <3>8, Joined
    <3> QED
      BY <1>5, <2>1, <3>3, <3>9
  <2> QED
    BY <1>1, <2>1, <2>2, <2>3, <2>4, <2>5, <2>6 DEF RootsInvariant, FramesFit
<1>6. CASE ~(Len(pool) + Len(RootCells) <= MAX_EXTRA_ROOTS_NUMBER)
  <2>1. status' = "failed" /\ pool' = pool /\ frames' = frames
    BY <1>6 DEF push_extra_root
  <2>2. Unfilled = {}
    BY <1>2, <1>3 DEF Unfilled, At_op
  <2> QED
    BY <1>1, <1>4, <2>1, <2>2, FailedKeeps
<1> QED
  BY <1>5, <1>6

\* pop_extra_root.
LEMMA PopKeeps ==
  ASSUME RootsInvariant, pop_extra_root
  PROVE  RootsInvariant'
<1>1. /\ FramesFit /\ PoolIsStack /\ TopIsOutermost /\ BufferInUse /\ WordsFollow /\ ObjectAtHand
      /\ status \in {"running", "failed"} /\ Len(pool) <= MAX_EXTRA_ROOTS_NUMBER
  BY Conjuncts
<1>2. PICK o : o = "pop"
  OBVIOUS
<1>3. At_op("pop") /\ At_op(o)
  BY <1>2 DEF pop_extra_root
<1>4. vars' = vars /\ actual' = actual /\ objs' = objs /\ global_sysargs' = global_sysargs
      /\ buf' = buf /\ top' = top
  BY DEF pop_extra_root
<1>5. PICK popped, rest : popped = Reverse(RootCells) /\ rest = Len(pool) - Len(popped)
  OBVIOUS
<1>6. rest >= 0 /\ \A k \in DOMAIN popped : pool[Len(pool) - k + 1] = popped[k]
  BY <1>1, <1>3, <1>5, PopFinds
<1>7. pool' = SubSeq(pool, 1, rest) /\ Advance /\ status' = status
  BY <1>5, <1>6 DEF pop_extra_root
<1>8. /\ Forward(o) /\ FramesFit' /\ WordsFollow' /\ ObjectAtHand' /\ Published' = Published
      /\ \A d \in 1..depth : frames'[d].flag = frames[d].flag
  BY <1>1, <1>2, <1>3, <1>4, <1>7, AdvanceStep
<1>9. PoolIsStack'
  BY <1>1, <1>2, <1>5, <1>7, <1>8, PoolPopped
<1>10. BufferInUse'
  BY <1>1, <1>2, <1>4, <1>8, BufferKept
<1>11. TopIsOutermost'
  BY <1>1, <1>2, <1>4, <1>8, TopKept
<1>12. Len(pool') <= MAX_EXTRA_ROOTS_NUMBER
  <2>1. depth \in 1..depth
    BY <1>1, <1>3, Running
  <2>2. PICK S, x : S = Registered /\ x = RootCells
    OBVIOUS
  <2>3. x \in Seq(S)
    BY <1>1, <2>1, <2>2, HeldAre DEF RootCells
  <2>4. Len(popped) \in Nat
    BY <1>5, <2>2, <2>3 DEF Reverse
  <2>5. PICK r : r \in Seq(S) /\ pool = Joint(r, HeldCells(depth))
    <3>1. o # "return"
      BY <1>2
    <3> QED
      BY <1>1, <1>8, <2>2, <3>1, PoolForward
  <2>6. PICK h : h = HeldCells(depth)
    OBVIOUS
  <2>7. h \in Seq(S) /\ pool = r \o h
    BY <1>1, <2>1, <2>2, <2>5, <2>6, HeldAre DEF Joint
  <2>8. pool \in Seq(S)
    BY <2>5, <2>7
  <2>9. rest \in Nat /\ rest <= Len(pool) /\ Len(pool) \in Nat
    BY <1>5, <1>6, <2>4, <2>8
  <2>10. Len(SubSeq(pool, 1, rest)) = rest
    BY <2>8, <2>9
  <2>11. MAX_EXTRA_ROOTS_NUMBER \in Nat
    BY RuntimeAssumption
  <2> QED
    BY <1>1, <1>7, <2>9, <2>10, <2>11
<1> QED
  BY <1>1, <1>7, <1>8, <1>9, <1>10, <1>11, <1>12 DEF RootsInvariant, FramesFit

\* check: the function goes on, or the program ends.
LEMMA CheckKeeps ==
  ASSUME RootsInvariant, check
  PROVE  RootsInvariant'
<1>1. /\ FramesFit /\ PoolIsStack /\ TopIsOutermost /\ BufferInUse /\ WordsFollow /\ ObjectAtHand
      /\ status \in {"running", "failed"} /\ Len(pool) <= MAX_EXTRA_ROOTS_NUMBER
  BY Conjuncts
<1>2. PICK o : o = "check"
  OBVIOUS
<1>3. At_op(o)
  BY <1>2 DEF check
<1>4. vars' = vars /\ actual' = actual /\ objs' = objs /\ global_sysargs' = global_sysargs
      /\ buf' = buf /\ top' = top /\ pool' = pool
  BY DEF check
<1>5. CASE Advance /\ status' = status
  <2>1. /\ Forward(o) /\ FramesFit' /\ WordsFollow' /\ ObjectAtHand' /\ Published' = Published
        /\ \A d \in 1..depth : frames'[d].flag = frames[d].flag
    BY <1>1, <1>2, <1>3, <1>4, <1>5, AdvanceStep
  <2>2. PoolIsStack' /\ BufferInUse'
    BY <1>1, <1>2, <1>4, <2>1, PoolKept, BufferKept
  <2>3. TopIsOutermost'
    BY <1>1, <1>2, <1>4, <2>1, TopKept
  <2> QED
    BY <1>1, <1>4, <1>5, <2>1, <2>2, <2>3 DEF RootsInvariant, FramesFit
<1>6. CASE status' = "failed" /\ frames' = frames
  <2>1. Unfilled = {}
    BY <1>2, <1>3 DEF Unfilled, At_op
  <2> QED
    BY <1>1, <1>4, <1>6, <2>1, FailedKeeps
<1> QED
  BY <1>5, <1>6 DEF check

\* print and deleteStringBuf.
LEMMA BufferKeeps ==
  ASSUME RootsInvariant, print \/ deleteStringBuf
  PROVE  RootsInvariant'
<1>1. /\ FramesFit /\ PoolIsStack /\ TopIsOutermost /\ BufferInUse /\ WordsFollow /\ ObjectAtHand
      /\ status \in {"running", "failed"} /\ Len(pool) <= MAX_EXTRA_ROOTS_NUMBER
  BY Conjuncts
<1>2. PICK o : /\ o = "print" \/ (o = "delete" /\ buf' = NoBuf)
               /\ At_op(o)
  BY DEF print, deleteStringBuf
<1>3. vars' = vars /\ actual' = actual /\ objs' = objs /\ global_sysargs' = global_sysargs
      /\ top' = top /\ pool' = pool /\ status' = status /\ Advance
  BY DEF print, deleteStringBuf
<1>4. /\ Forward(o) /\ FramesFit' /\ WordsFollow' /\ ObjectAtHand' /\ Published' = Published
      /\ \A d \in 1..depth : frames'[d].flag = frames[d].flag
  <2>1. o \notin {"return", "alloc", "call", "fill", "publish", "store", "hold", "same"}
    BY <1>2
  <2> QED
    BY <1>1, <1>2, <1>3, <2>1, AdvanceStep
<1>5. o \notin {"return", "push", "pop", "PRE_GC", "POST_GC"}
  BY <1>2
<1>6. PoolIsStack' /\ TopIsOutermost'
  BY <1>1, <1>3, <1>4, <1>5, PoolKept, TopKept
<1>7. BufferInUse'
  BY <1>1, <1>2, <1>4, BufferChanged
<1> QED
  BY <1>1, <1>3, <1>4, <1>6, <1>7 DEF RootsInvariant, FramesFit

\* The steps same, hold and address, which change a word of the record.
LEMMA RecordKeeps ==
  ASSUME RootsInvariant, NEW o \in {"same", "hold", "address"}, At_op(o),
         NEW g, SetCur(g), SameCall(cur, g), g.pc = cur.pc + 1, g.flag = cur.flag,
         UNCHANGED <<vars, actual, dst, pool, top, objs, buf, global_sysargs, status>>,
         g.mem = IF o = "hold" THEN [cur.mem EXCEPT ![1] = cur.obj] ELSE cur.mem,
         Follows(g.addr), o # "same" => g.obj = cur.obj, o = "same" => IsValue(g.obj, objs)
  PROVE  RootsInvariant'
<1>1. /\ FramesFit /\ PoolIsStack /\ TopIsOutermost /\ BufferInUse /\ WordsFollow /\ ObjectAtHand
      /\ status \in {"running", "failed"} /\ Len(pool) <= MAX_EXTRA_ROOTS_NUMBER
  BY Conjuncts
<1>2. /\ vars' = vars /\ actual' = actual /\ objs' = objs /\ global_sysargs' = global_sysargs
      /\ top' = top /\ pool' = pool /\ status' = status /\ buf' = buf
  OBVIOUS
<1>3. /\ Forward(o) /\ FramesFit' /\ WordsFollow' /\ ObjectAtHand' /\ Published' = Published
      /\ frames'[depth] = g /\ \A d \in 1..depth : d # depth => frames'[d] = frames[d]
  <2>1. o \notin {"return", "alloc", "call", "fill", "publish", "store"}
    OBVIOUS
  <2> QED
    BY <1>1, <1>2, <2>1, OwnStep
<1>4. o \notin {"return", "push", "pop", "PRE_GC", "POST_GC", "print", "delete"}
  OBVIOUS
<1>5. \A d \in 1..depth : frames'[d].flag = frames[d].flag
  BY <1>3 DEF cur
<1>6. PoolIsStack' /\ TopIsOutermost' /\ BufferInUse'
  BY <1>1, <1>2, <1>3, <1>4, <1>5, PoolKept, TopKept, BufferKept
<1> QED
  BY <1>1, <1>2, <1>3, <1>6 DEF RootsInvariant, FramesFit

\* same.
LEMMA SameKeeps ==
  ASSUME RootsInvariant, same
  PROVE  RootsInvariant'
<1>1. FramesFit /\ WordsFollow
  BY Conjuncts
<1>2. At_op("same")
  BY DEF same
<1>3. cur = frames[depth] /\ SameCall(cur, cur) /\ depth \in DOMAIN frames /\ OpOf(cur) = "same" /\ AtStep(cur)
  BY <1>1, <1>2, Running
<1>4. PICK w : w = IF cur.fn = "Lclone" THEN Arg(1) ELSE BOX(0)
  OBVIOUS
<1>5. PICK g : g = [Step(cur) EXCEPT !.obj = w] /\ SetCur(g)
  BY <1>4 DEF same
<1>6. /\ SameCall(cur, g) /\ g.pc = cur.pc + 1 /\ g.mem = cur.mem /\ g.obj = w /\ g.addr = cur.addr
      /\ g.flag = cur.flag
  BY <1>3, <1>5 DEF SameCall, Step
<1>7. Follows(g.addr)
  BY <1>1, <1>3, <1>6 DEF WordsFollow
<1>8. IsValue(w, objs)
  <2>1. CASE cur.fn = "Lclone"
    <3>1. FrameInOrder(depth) /\ ArgumentsFit(depth)
      BY <1>1, <1>3 DEF FramesFit
    <3>2. cur.args = <<<<0, 1>>>> /\ cur.args \in Seq(Reachable(depth))
      BY <1>3, <2>1, <3>1 DEF ArgumentsFit, FrameInOrder
    <3>3. PICK c : c = <<0, 1>>
      OBVIOUS
    <3>4. cur.args[1] = c /\ c \in Reachable(depth)
      <4>1. cur.args = <<c>> /\ cur.args \in Seq(Reachable(depth))
        BY <3>2, <3>3
      <4>2. 1 \in 1..Len(cur.args) /\ cur.args[1] = c
        BY <4>1
      <4> QED
        BY <4>1, <4>2
    <3>5. depth \in Nat /\ actual \in Seq(Word) /\ \A k \in DOMAIN actual : IsValue(actual[k], objs)
      BY <1>1, FramesAtStep DEF WordsFollow
    <3>6. \/ \E k \in DOMAIN actual : c = <<0, k>> /\ At(c) = actual[k]
          \/ \E e \in 1..depth : \E k \in DOMAIN frames[e].mem : c = <<e, k>> /\ At(c) = frames[e].mem[k]
      BY <3>4, <3>5, CellValue
    <3>7. \A e \in 1..depth : \A k : c # <<e, k>>
      BY <3>3
    <3>8. IsValue(At(c), objs)
      BY <3>5, <3>6, <3>7
    <3> QED
      BY <1>4, <2>1, <3>4, <3>8 DEF Arg
  <2>2. CASE cur.fn # "Lclone"
    BY <1>4, <2>2 DEF IsValue, Word, BOX, UNBOXED
  <2> QED
    BY <2>1, <2>2
<1>9. UNCHANGED <<vars, actual, dst, pool, top, objs, buf, global_sysargs, status>>
  BY DEF same
<1>10. PICK o : o = "same"
  OBVIOUS
<1>11. /\ o \in {"same", "hold", "address"} /\ At_op(o)
       /\ g.mem = IF o = "hold" THEN [cur.mem EXCEPT ![1] = cur.obj] ELSE cur.mem
       /\ o # "same" => g.obj = cur.obj
       /\ o = "same" => IsValue(g.obj, objs)
  BY <1>2, <1>6, <1>8, <1>10
<1>12. SetCur(g) /\ SameCall(cur, g) /\ g.pc = cur.pc + 1 /\ g.flag = cur.flag
  BY <1>5, <1>6
<1> QED
  BY <1>7, <1>9, <1>11, <1>12, RecordKeeps

\* hold.
LEMMA HoldKeeps ==
  ASSUME RootsInvariant, hold
  PROVE  RootsInvariant'
<1>1. FramesFit /\ WordsFollow
  BY Conjuncts
<1>2. At_op("hold")
  BY DEF hold
<1>3. cur = frames[depth] /\ SameCall(cur, cur) /\ depth \in DOMAIN frames
  BY <1>1, <1>2, Running
<1>4. PICK g : g = [Step(cur) EXCEPT !.mem[1] = cur.obj] /\ SetCur(g)
  BY DEF hold
<1>5. /\ SameCall(cur, g) /\ g.pc = cur.pc + 1 /\ g.mem = [cur.mem EXCEPT ![1] = cur.obj]
      /\ g.obj = cur.obj /\ g.addr = cur.addr /\ g.flag = cur.flag
  BY <1>3, <1>4 DEF SameCall, Step
<1>6. Follows(g.addr)
  BY <1>1, <1>3, <1>5 DEF WordsFollow
<1>7. UNCHANGED <<vars, actual, dst, pool, top, objs, buf, global_sysargs, status>>
  BY DEF hold
<1>8. PICK o : o = "hold"
  OBVIOUS
<1>9. /\ o \in {"same", "hold", "address"} /\ At_op(o)
      /\ g.mem = IF o = "hold" THEN [cur.mem EXCEPT ![1] = cur.obj] ELSE cur.mem
      /\ o # "same" => g.obj = cur.obj
      /\ o = "same" => IsValue(g.obj, objs)
  BY <1>2, <1>5, <1>8
<1>10. SetCur(g) /\ SameCall(cur, g) /\ g.pc = cur.pc + 1 /\ g.flag = cur.flag
  BY <1>4, <1>5
<1> QED
  BY <1>6, <1>7, <1>9, <1>10, RecordKeeps

\* address.
LEMMA AddressKeeps ==
  ASSUME RootsInvariant, address
  PROVE  RootsInvariant'
<1>1. FramesFit /\ WordsFollow
  BY Conjuncts
<1>2. At_op("address")
  BY DEF address
<1>3. cur = frames[depth] /\ SameCall(cur, cur) /\ depth \in DOMAIN frames /\ depth \in 1..depth
  BY <1>1, <1>2, Running
<1>4. PICK w : w \in {cur.mem[1], Null} /\ \E g : g = [Step(cur) EXCEPT !.addr = w] /\ SetCur(g)
  BY DEF address
<1>5. PICK g : g = [Step(cur) EXCEPT !.addr = w] /\ SetCur(g)
  BY <1>4
<1>6. /\ SameCall(cur, g) /\ g.pc = cur.pc + 1 /\ g.mem = cur.mem
      /\ g.obj = cur.obj /\ g.addr = w /\ g.flag = cur.flag
  BY <1>3, <1>5 DEF SameCall, Step
<1>7. Follows(g.addr)
  <2>1. cur.fn = "set_args"
    BY <1>1, <1>2, OwnSteps DEF Own
  <2>2. SysargsFit(cur)
    BY <1>1, <1>3, <2>1, SetArgsOutermost
  <2>3. cur.n \in Nat
    BY <1>1, <1>2, <2>1, Running, SetArgsAt
  <2>4. 1 \in DOMAIN cur.mem
    BY <2>2, <2>3 DEF SysargsFit
  <2>5. Follows(cur.mem[1])
    BY <1>1, <1>3, <2>4 DEF WordsFollow
  <2>6. Follows(Null)
    BY DEF Follows, Null, Raw, Word
  <2> QED
    BY <1>4, <1>6, <2>5, <2>6
<1>8. UNCHANGED <<vars, actual, dst, pool, top, objs, buf, global_sysargs, status>>
  BY DEF address
<1>9. PICK o : o = "address"
  OBVIOUS
<1>10. /\ o \in {"same", "hold", "address"} /\ At_op(o)
       /\ g.mem = IF o = "hold" THEN [cur.mem EXCEPT ![1] = cur.obj] ELSE cur.mem
       /\ o # "same" => g.obj = cur.obj
       /\ o = "same" => IsValue(g.obj, objs)
  BY <1>2, <1>6, <1>9
<1>11. SetCur(g) /\ SameCall(cur, g) /\ g.pc = cur.pc + 1 /\ g.flag = cur.flag
  BY <1>5, <1>6
<1> QED
  BY <1>7, <1>8, <1>10, <1>11, RecordKeeps

-----------------------------------------------------------------------------
(* The steps that write to objects.                                        *)

\* The objects that there are get words that lead to objects.
LEMMA WordsWritten ==
  ASSUME WordsFollow, vars' = vars, actual' = actual, DOMAIN objs' = DOMAIN objs,
         \A i \in DOMAIN objs : IsObject(objs'[i]) /\ \A w \in WordsOf(objs'[i]) : IsValue(w, objs),
         Follows(global_sysargs'), global_sysargs' = Null \/ global_sysargs'.kind = "object",
         \A d \in DOMAIN frames' : /\ \A k \in DOMAIN frames'[d].mem : Follows(frames'[d].mem[k])
                                   /\ Follows(frames'[d].obj) /\ Follows(frames'[d].addr)
  PROVE  WordsFollow'
<1>1. \A w : (Follows(w)' <=> Follows(w)) /\ (IsValue(w, objs') <=> IsValue(w, objs))
  BY DEF Follows, IsValue
<1>2. \A w : IsValue(w, objs) => Follows(w)
  BY DEF Follows, IsValue, UNBOXED
<1>3. \A i \in DOMAIN objs' :
        /\ IsObject(objs'[i])
        /\ \A w \in WordsOf(objs'[i]) : Follows(w)' /\ (Ref(i) \notin Unfilled' => IsValue(w, objs'))
  BY <1>1, <1>2
<1>4. /\ vars' \in [Var -> Word] /\ \A v \in Var : IsValue(vars'[v], objs')
      /\ actual' \in Seq(Word) /\ \A k \in DOMAIN actual' : IsValue(actual'[k], objs')
      /\ IsFiniteSet(DOMAIN objs')
  BY <1>1 DEF WordsFollow
<1>5. Follows(global_sysargs)' /\ (global_sysargs' = Null \/ global_sysargs'.kind = "object")
  BY DEF Follows
<1>6. (\A d \in DOMAIN frames : LET f == frames[d]
                               IN  /\ \A k \in DOMAIN f.mem : Follows(f.mem[k])
                                   /\ Follows(f.obj) /\ Follows(f.addr))'
  BY DEF Follows
<1> QED
  BY <1>3, <1>4, <1>5, <1>6 DEF WordsFollow

\* The words of the records after a step of the running function.
LEMMA RecordFollows ==
  ASSUME FramesFit, WordsFollow, NEW o, At_op(o), NEW g, SetCur(g), SameCall(cur, g), g.pc = cur.pc + 1,
         g.mem = cur.mem, g.obj = cur.obj, Follows(g.addr)
  PROVE  /\ \A d \in DOMAIN frames' : /\ \A k \in DOMAIN frames'[d].mem : Follows(frames'[d].mem[k])
                                      /\ Follows(frames'[d].obj) /\ Follows(frames'[d].addr)
         /\ Forward(o) /\ frames'[depth] = g /\ \A d \in 1..depth : d # depth => frames'[d] = frames[d]
         /\ \A d \in 1..depth : frames'[d].mem = frames[d].mem
<1>1. /\ depth \in Nat \ {0} /\ depth \in 1..depth /\ cur = frames[depth]
  BY Running
<1>2. Forward(o) /\ cur' = g /\ \A d \in 1..depth : d # depth => frames'[d] = frames[d]
  BY SetCurForward
<1>3. depth' = depth /\ DOMAIN frames = 1..depth /\ DOMAIN frames' = 1..depth
  BY <1>2, FramesAtStep DEF Forward
<1>4. frames'[depth] = g
  BY <1>2, <1>3 DEF cur
<1>5. \A d \in 1..depth : /\ \A k \in DOMAIN frames[d].mem : Follows(frames[d].mem[k])
                          /\ Follows(frames[d].obj) /\ Follows(frames[d].addr)
  BY <1>3 DEF WordsFollow
<1>6. \A d \in 1..depth : /\ \A k \in DOMAIN frames'[d].mem : Follows(frames'[d].mem[k])
                          /\ Follows(frames'[d].obj) /\ Follows(frames'[d].addr)
  <2> SUFFICES ASSUME NEW d \in 1..depth
               PROVE  /\ \A k \in DOMAIN frames'[d].mem : Follows(frames'[d].mem[k])
                      /\ Follows(frames'[d].obj) /\ Follows(frames'[d].addr)
    OBVIOUS
  <2>1. CASE d = depth
    BY <1>1, <1>4, <1>5, <2>1
  <2>2. CASE d # depth
    BY <1>2, <1>5, <2>2
  <2> QED
    BY <2>1, <2>2
<1>7. \A d \in 1..depth : frames'[d].mem = frames[d].mem
  BY <1>1, <1>2, <1>4
<1> QED
  BY <1>2, <1>3, <1>4, <1>6, <1>7

\* publish: the array becomes a global that the collector finds from now on.
LEMMA PublishKeeps ==
  ASSUME RootsInvariant, publish
  PROVE  RootsInvariant'
<1>1. /\ FramesFit /\ PoolIsStack /\ TopIsOutermost /\ BufferInUse /\ WordsFollow /\ ObjectAtHand
      /\ status \in {"running", "failed"} /\ Len(pool) <= MAX_EXTRA_ROOTS_NUMBER
  BY Conjuncts
<1>2. PICK o : o = "publish"
  OBVIOUS
<1>3. At_op(o)
  BY <1>2 DEF publish
<1>4. /\ cur = frames[depth] /\ SameCall(cur, cur) /\ depth \in DOMAIN frames /\ depth \in 1..depth
      /\ OpOf(cur) = o /\ AtStep(cur)
  BY <1>1, <1>3, Running
<1>5. cur.fn = "set_args" /\ depth = 1
  <2>1. o \in Own
    BY <1>2 DEF Own
  <2> QED
    BY <1>1, <1>3, <2>1, OwnSteps
<1>6. SysargsFit(cur) /\ cur.args = << >> /\ SetArgsInOrder(Body(cur), cur.n) /\ cur.n \in Nat
  BY <1>1, <1>4, <1>5, SetArgsOutermost, SetArgsAt
<1>7. /\ Earlier(cur, "hold") /\ ~Later(cur, "pop") /\ Later(cur, "publish")
      /\ ~From(Body(cur), cur.pc + 1, "publish")
  <2>1. cur.pc \in 1..Len(Body(cur)) /\ Len(Body(cur)) \in Nat /\ Body(cur)[cur.pc].op = "publish"
    BY <1>2, <1>4 DEF AtStep, InOrder, Ends, OpOf
  <2>2. /\ Before(Body(cur), cur.pc, "hold") /\ ~From(Body(cur), cur.pc, "pop")
        /\ ~From(Body(cur), cur.pc + 1, "publish")
    BY <1>6, <2>1 DEF SetArgsInOrder
  <2>3. From(Body(cur), cur.pc, "publish")
    BY <2>1 DEF From
  <2> QED
    BY <2>2, <2>3, FrameTerms
<1>8. global_sysargs = Null /\ cur.mem[1].kind = "object" /\ 1 \in DOMAIN cur.mem
  BY <1>6, <1>7 DEF SysargsFit
<1>9. PICK g : g = Step(cur) /\ SetCur(g)
  BY DEF publish, Advance
<1>10. /\ SameCall(cur, g) /\ g.pc = cur.pc + 1 /\ g.mem = cur.mem
       /\ g.obj = cur.obj /\ g.addr = cur.addr /\ g.flag = cur.flag
  BY <1>4, <1>9 DEF SameCall, Step
<1>11. Follows(g.addr) /\ Follows(cur.mem[1])
  BY <1>1, <1>4, <1>8, <1>10 DEF WordsFollow
<1>12. SetCur(g)
  BY <1>9
<1>13. /\ \A d \in DOMAIN frames' : /\ \A k \in DOMAIN frames'[d].mem : Follows(frames'[d].mem[k])
                                    /\ Follows(frames'[d].obj) /\ Follows(frames'[d].addr)
       /\ Forward(o) /\ frames'[depth] = g /\ \A d \in 1..depth : d # depth => frames'[d] = frames[d]
  BY <1>1, <1>3, <1>10, <1>11, <1>12, RecordFollows
<1>14. /\ global_sysargs' = cur.mem[1] /\ pool' = Append(pool, SysargsCell)
       /\ vars' = vars /\ actual' = actual /\ top' = top /\ objs' = objs /\ buf' = buf /\ status' = status
  BY DEF publish
<1>15. global_sysargs' # Null /\ global_sysargs'.kind = "object"
  BY <1>8, <1>14 DEF Null, Raw
<1>16. PoolIsStack' /\ Len(pool') = 1
  <2>1. ~Between(frames[1], "push", "pop")
    BY <1>4, <1>5, <1>7 DEF Between
  <2> QED
    BY <1>1, <1>2, <1>5, <1>8, <1>13, <1>14, <1>15, <2>1, PoolPublished
<1>17. Len(pool') <= MAX_EXTRA_ROOTS_NUMBER
  BY <1>16, RuntimeAssumption
<1>18. o \notin {"return", "alloc", "call", "same", "hold", "PRE_GC", "POST_GC", "print", "delete"} /\ o # "return"
  BY <1>2
<1>19. \A d \in 1..depth : frames'[d].flag = frames[d].flag
  BY <1>4, <1>10, <1>13
<1>20. TopIsOutermost'
  BY <1>1, <1>13, <1>14, <1>18, <1>19, TopKept
<1>21. BufferInUse'
  BY <1>1, <1>13, <1>14, <1>18, BufferKept
<1>22. FramesFit'
  <2>1. \A d \in 1..depth : d = 1
    BY <1>5
  <2>2. ReadsKept(1)
    <3>1. frames'[1].mem = frames[1].mem /\ Range(frames[1].args) = {}
      BY <1>4, <1>5, <1>6, <1>10, <1>13 DEF Range
    <3> QED
      BY <3>1 DEF ReadsKept
  <2>3. SysargsFit(frames[1])'
    <3>1. frames'[1] = g
      BY <1>5, <1>13
    <3>2. Earlier(g, "hold")
      BY <1>5, <1>7, <1>4, <1>13, <1>18, ForwardStep, <1>1
    <3>3. ~Later(g, "publish")
      <4>1. Body(g) = Body(cur)
        BY <1>10, SameBody DEF SameCall
      <4> QED
        BY <1>7, <1>10, <4>1, FrameTerms
    <3>4. g.n = cur.n /\ g.mem = cur.mem
      BY <1>10 DEF SameCall
    <3> QED
      BY <1>6, <1>7, <3>1, <3>2, <3>3, <3>4 DEF SysargsFit
  <2> QED
    BY <1>1, <1>13, <1>14, <1>18, <2>1, <2>2, <2>3, FramesFitStep
<1>23. Unfilled = {}
  BY <1>2, <1>3 DEF Unfilled, At_op
<1>24. WordsFollow'
  <2>1. DOMAIN objs' = DOMAIN objs
    BY <1>14
  <2>2. \A i \in DOMAIN objs : IsObject(objs'[i]) /\ \A w \in WordsOf(objs'[i]) : IsValue(w, objs)
    BY <1>1, <1>14, <1>23 DEF WordsFollow
  <2>3. Follows(global_sysargs')
    BY <1>11, <1>14
  <2> QED
    BY <1>1, <1>13, <1>14, <1>15, <2>1, <2>2, <2>3, WordsWritten
<1>25. ObjectAtHand'
  <2>1. \A w : IsValue(w, objs) => IsValue(w, objs')
    BY <1>14
  <2>2. o # "same" => frames'[depth].obj = frames[depth].obj
    BY <1>4, <1>10, <1>13
  <2>3. o = "same" => IsValue(frames'[depth].obj, objs')
    BY <1>18
  <2> QED
    BY <1>1, <1>13, <1>18, <2>1, <2>2, <2>3, ObjectKept
<1> QED
  BY <1>1, <1>14, <1>16, <1>17, <1>20, <1>21, <1>22, <1>24, <1>25 DEF RootsInvariant, FramesFit

\* The steps that write to the heap, without making an object.
LEMMA ObjectWritten ==
  ASSUME RootsInvariant, NEW o \in {"store", "fill"}, At_op(o),
         NEW g, SetCur(g), SameCall(cur, g), g.pc = cur.pc + 1, g.flag = cur.flag,
         g.mem = cur.mem, g.obj = cur.obj, Follows(g.addr),
         UNCHANGED <<vars, actual, dst, pool, top, buf, global_sysargs, status>>,
         DOMAIN objs' = DOMAIN objs,
         \A i \in DOMAIN objs : IsObject(objs'[i]) /\ \A w \in WordsOf(objs'[i]) : IsValue(w, objs)
  PROVE  RootsInvariant'
<1>1. /\ FramesFit /\ PoolIsStack /\ TopIsOutermost /\ BufferInUse /\ WordsFollow /\ ObjectAtHand
      /\ status \in {"running", "failed"} /\ Len(pool) <= MAX_EXTRA_ROOTS_NUMBER
  BY Conjuncts
<1>2. vars' = vars /\ actual' = actual /\ pool' = pool /\ top' = top /\ buf' = buf
      /\ global_sysargs' = global_sysargs /\ status' = status
  OBVIOUS
<1>3. cur = frames[depth] /\ depth \in 1..depth
  BY <1>1, Running
<1>4. /\ \A d \in DOMAIN frames' : /\ \A k \in DOMAIN frames'[d].mem : Follows(frames'[d].mem[k])
                                   /\ Follows(frames'[d].obj) /\ Follows(frames'[d].addr)
      /\ Forward(o) /\ frames'[depth] = g /\ \A d \in 1..depth : d # depth => frames'[d] = frames[d]
      /\ \A d \in 1..depth : frames'[d].mem = frames[d].mem
  BY <1>1, RecordFollows
<1>5. o \notin {"return", "alloc", "call", "same", "hold", "PRE_GC", "POST_GC", "print", "delete", "push", "pop"}
      /\ o # "return" /\ o # "same"
  OBVIOUS
<1>6. \A d \in 1..depth : frames'[d].flag = frames[d].flag
  BY <1>3, <1>4
<1>7. Published' = Published
  BY <1>2 DEF Published
<1>8. PoolIsStack'
  BY <1>1, <1>2, <1>4, <1>5, <1>7, PoolKept
<1>9. TopIsOutermost'
  BY <1>1, <1>2, <1>4, <1>5, <1>6, TopKept
<1>10. BufferInUse'
  BY <1>1, <1>2, <1>4, <1>5, BufferKept
<1>11. FramesFit'
  BY <1>1, <1>2, <1>4, <1>5, FramesFitKept DEF WordsFollow
<1>12. WordsFollow'
  <2>1. Follows(global_sysargs') /\ (global_sysargs' = Null \/ global_sysargs'.kind = "object")
    BY <1>1, <1>2 DEF WordsFollow
  <2> QED
    BY <1>1, <1>2, <1>4, <2>1, WordsWritten
<1>13. ObjectAtHand'
  <2>1. \A w : IsValue(w, objs) => IsValue(w, objs')
    BY DEF IsValue
  <2>2. o # "same" => frames'[depth].obj = frames[depth].obj
    BY <1>3, <1>4
  <2>3. o = "same" => IsValue(frames'[depth].obj, objs')
    BY <1>5
  <2> QED
    BY <1>1, <1>4, <1>5, <2>1, <2>2, <2>3, ObjectKept
<1> QED
  BY <1>1, <1>2, <1>8, <1>9, <1>10, <1>11, <1>12, <1>13 DEF RootsInvariant, FramesFit

\* One field of an object gets a word.
LEMMA ElementWritten ==
  ASSUME NEW st, NEW m, NEW i, NEW x, NEW j \in DOMAIN st, IsObject(st[j])
  PROVE  LET new == [st EXCEPT ![m].elems[i] = x]
         IN  IsObject(new[j]) /\ WordsOf(new[j]) \subseteq WordsOf(st[j]) \cup {x}
<1> DEFINE new == [st EXCEPT ![m].elems[i] = x]
<1>1. CASE j # m
  <2>1. new[j] = st[j]
    BY <1>1
  <2> QED
    BY <2>1
<1>2. CASE j = m
  <2>1. PICK k, t, es : st[j] = [kind |-> k, tag |-> t, elems |-> es]
    BY DEF IsObject, Obj
  <2>2. new[j] = [kind |-> k, tag |-> t, elems |-> [es EXCEPT ![i] = x]]
    BY <1>2, <2>1
  <2>3. Range([es EXCEPT ![i] = x]) \subseteq Range(es) \cup {x}
    BY DEF Range
  <2> QED
    BY <2>1, <2>2, <2>3 DEF IsObject, Obj, WordsOf
<1> QED
  BY <1>1, <1>2

\* store: the array of the arguments gets the string.
LEMMA StoreKeeps ==
  ASSUME RootsInvariant, store
  PROVE  RootsInvariant'
<1>1. FramesFit /\ WordsFollow /\ ObjectAtHand
  BY Conjuncts
<1>2. PICK o : o = "store"
  OBVIOUS
<1>3. At_op(o)
  BY <1>2 DEF store
<1>4. /\ cur = frames[depth] /\ SameCall(cur, cur) /\ depth \in DOMAIN frames /\ depth \in 1..depth
      /\ OpOf(cur) = o /\ AtStep(cur) /\ depth > 0
  BY <1>1, <1>3, Running
<1>5. cur.fn = "set_args" /\ depth = 1
  <2>1. o \in Own
    BY <1>2 DEF Own
  <2> QED
    BY <1>1, <1>3, <2>1, OwnSteps
<1>6. Earlier(cur, "call")
  <2>1. SetArgsInOrder(Body(cur), cur.n)
    BY <1>4, <1>5, SetArgsAt
  <2>2. cur.pc \in 1..Len(Body(cur)) /\ Body(cur)[cur.pc].op = "store"
    BY <1>2, <1>4 DEF AtStep, OpOf
  <2>3. Before(Body(cur), cur.pc, "call")
    BY <2>1, <2>2 DEF SetArgsInOrder
  <2> QED
    BY <2>3, FrameTerms
<1>7. cur.obj.kind = "object" /\ Follows(cur.obj)
  BY <1>1, <1>4, <1>6 DEF ObjectAtHand, WordsFollow
<1>8. IsValue(cur.obj, objs)
  BY <1>7 DEF Follows, IsValue
<1>9. PICK g : g = [Step(cur) EXCEPT !.addr = Null] /\ SetCur(g)
  BY DEF store
<1>10. /\ SameCall(cur, g) /\ g.pc = cur.pc + 1 /\ g.mem = cur.mem
       /\ g.obj = cur.obj /\ g.addr = Null /\ g.flag = cur.flag
  BY <1>4, <1>9 DEF SameCall, Step
<1>11. SetCur(g) /\ Follows(g.addr)
  BY <1>9, <1>10 DEF Follows, Null, Raw, Word
<1>12. PICK m, i : objs' = objs \/ objs' = [objs EXCEPT ![m].elems[i] = cur.obj]
  BY DEF store
<1>13. Unfilled = {}
  BY <1>2, <1>3 DEF Unfilled, At_op
<1>14. DOMAIN objs' = DOMAIN objs
  BY <1>12
<1>15. \A j \in DOMAIN objs : IsObject(objs'[j]) /\ \A w \in WordsOf(objs'[j]) : IsValue(w, objs)
  <2>1. \A j \in DOMAIN objs : IsObject(objs[j]) /\ \A w \in WordsOf(objs[j]) : IsValue(w, objs)
    BY <1>1, <1>13 DEF WordsFollow
  <2>2. \A j \in DOMAIN objs : IsObject(objs'[j]) /\ WordsOf(objs'[j]) \subseteq WordsOf(objs[j]) \cup {cur.obj}
    <3>1. CASE objs' = objs
      BY <2>1, <3>1
    <3>2. CASE objs' = [objs EXCEPT ![m].elems[i] = cur.obj]
      BY <2>1, <3>2, ElementWritten
    <3> QED
      BY <1>12, <3>1, <3>2
  <2> QED
    BY <1>8, <2>1, <2>2
<1>16. UNCHANGED <<vars, actual, dst, pool, top, buf, global_sysargs, status>>
  BY DEF store
<1>17. o \in {"store", "fill"}
  BY <1>2
<1> QED
  BY <1>3, <1>10, <1>11, <1>14, <1>15, <1>16, <1>17, ObjectWritten

\* What a function reads through its arguments is stale or leads to an object.
LEMMA ArgumentFollows ==
  ASSUME FramesFit, WordsFollow, NEW d \in 1..depth, NEW c \in Range(frames[d].args)
  PROVE  Follows(At(c)) /\ (c[1] = 0 => IsValue(At(c), objs))
<1>1. depth \in Nat /\ DOMAIN frames = 1..depth
  BY FramesAtStep
<1>2. c \in Reachable(d)
  <2>1. frames[d].args \in Seq(Reachable(d))
    BY <1>1 DEF FramesFit, FrameInOrder
  <2> QED
    BY <2>1 DEF Range
<1>3. d \in Nat /\ actual \in Seq(Word)
  BY <1>1 DEF WordsFollow
<1>4. \A w : IsValue(w, objs) => Follows(w)
  BY DEF Follows, IsValue, UNBOXED
<1>5. CASE \E k \in DOMAIN actual : c = <<0, k>> /\ At(c) = actual[k]
  BY <1>4, <1>5 DEF WordsFollow
<1>6. CASE \E e \in 1..d : \E k \in DOMAIN frames[e].mem : c = <<e, k>> /\ At(c) = frames[e].mem[k]
  <2>1. PICK e \in 1..d : \E k \in DOMAIN frames[e].mem : c = <<e, k>> /\ At(c) = frames[e].mem[k]
    BY <1>6
  <2>2. PICK k \in DOMAIN frames[e].mem : c = <<e, k>> /\ At(c) = frames[e].mem[k]
    BY <2>1
  <2>3. e \in DOMAIN frames /\ e \in Nat /\ e # 0
    BY <1>1
  <2>4. Follows(frames[e].mem[k])
    BY <2>3 DEF WordsFollow
  <2>5. c[1] = e
    BY <2>2
  <2> QED
    BY <2>2, <2>3, <2>4, <2>5
<1> QED
  BY <1>2, <1>3, <1>5, <1>6, CellValue

\* A function that fills its object has it, and its arguments are where they were.
LEMMA FillAt ==
  ASSUME FramesFit, WordsFollow, ObjectAtHand, At_op("fill")
  PROVE  /\ cur.fn \in Filling
         /\ cur.obj = Ref(cur.obj.n) /\ cur.obj.n \in DOMAIN objs
         /\ \A k \in DOMAIN cur.args : /\ Usable(cur.fn, Arg(k)) /\ Follows(Arg(k))
                                       /\ ~Stale(Arg(k))
                                       /\ cur.fn # "Bstring" => IsValue(Arg(k), objs)
         /\ cur.fn = "Lclone" => cur.args = <<<<0, 1>>>> /\ actual[1].kind = "object" /\ Arg(1) = actual[1]
<1>1. PICK o : o = "fill"
  OBVIOUS
<1>2. At_op(o)
  BY <1>1
<1>3. /\ cur = frames[depth] /\ depth \in DOMAIN frames /\ depth \in 1..depth
      /\ OpOf(cur) = o /\ AtStep(cur) /\ depth > 0
  BY <1>2, Running
<1>4. cur.pc \in 1..Len(Body(cur)) /\ Body(cur)[cur.pc].op = "fill" /\ FillInOrder(Body(cur), cur.fn)
  BY <1>1, <1>3 DEF AtStep, OpOf, InOrder
<1>5. cur.fn \in Filling /\ (Before(Body(cur), cur.pc, "alloc") \/ Before(Body(cur), cur.pc, "call"))
  BY <1>4 DEF FillInOrder
<1>6. Earlier(cur, "alloc") \/ Earlier(cur, "call")
  BY <1>5, FrameTerms
<1>7. cur.obj.kind = "object" /\ Follows(cur.obj)
  BY <1>3, <1>6 DEF ObjectAtHand, WordsFollow
<1>8. cur.obj = Ref(cur.obj.n) /\ cur.obj.n \in DOMAIN objs
  BY <1>7 DEF Follows, Word, Ref
<1>9. Later(cur, "fill")
  <2>1. From(Body(cur), cur.pc, "fill")
    BY <1>4 DEF From
  <2> QED
    BY <2>1, FrameTerms
<1>10. FrameInOrder(depth) /\ ArgumentsFit(depth)
  BY <1>3 DEF FramesFit
<1>11. \A k \in DOMAIN cur.args : /\ Usable(cur.fn, Arg(k)) /\ Follows(Arg(k))
                                  /\ ~Stale(Arg(k))
                                  /\ cur.fn # "Bstring" => IsValue(Arg(k), objs)
  <2> SUFFICES ASSUME NEW k \in DOMAIN cur.args
               PROVE  /\ Usable(cur.fn, Arg(k)) /\ Follows(Arg(k)) /\ ~Stale(Arg(k))
                      /\ cur.fn # "Bstring" => IsValue(Arg(k), objs)
    OBVIOUS
  <2>1. Usable(cur.fn, Arg(k))
    BY <1>3, <1>9, <1>10 DEF FrameInOrder, Arg
  <2>2. cur.args[k] \in Range(frames[depth].args)
    BY <1>3 DEF Range
  <2>3. Follows(At(cur.args[k]))
    BY <1>3, <2>2, ArgumentFollows
  <2>4. Follows(Arg(k))
    BY <2>3 DEF Arg
  <2>5. cur.fn = "Bstring" => ~Stale(Arg(k))
    BY <2>1 DEF Usable
  <2>6. cur.fn # "Bstring" => Arg(k).kind \in {"int", "object"}
    BY <2>1 DEF Usable
  <2> QED
    BY <2>1, <2>4, <2>5, <2>6 DEF Follows, IsValue, UNBOXED, Stale
<1>12. cur.fn = "Lclone" => cur.args = <<<<0, 1>>>> /\ actual[1].kind = "object" /\ Arg(1) = actual[1]
  <2> SUFFICES ASSUME cur.fn = "Lclone"
               PROVE  cur.args = <<<<0, 1>>>> /\ actual[1].kind = "object" /\ Arg(1) = actual[1]
    OBVIOUS
  <2>1. cur.args = <<<<0, 1>>>> /\ (cur.t # "int" => actual[1].kind = "object")
    BY <1>3, <1>10 DEF ArgumentsFit
  <2>2. Body(cur) = Lclone_body(cur.t)
    BY BodyOf
  <2>3. cur.t # "int"
    <3>1. SUFFICES ASSUME cur.t = "int" PROVE FALSE
      OBVIOUS
    <3>2. Body(cur) = <<Do("same")>> \o <<Do("return")>>
      <4>1. Lclone_body("int") = <<Do("same")>> \o <<Do("return")>>
        BY DEF Lclone_body, Ret
      <4> QED
        BY <2>2, <3>1, <4>1
    <3>3. Do("same").op = "same" /\ Do("return").op = "return"
      BY Operations
    <3>4. Len(Body(cur)) = 2 /\ Body(cur)[1].op = "same" /\ Body(cur)[2].op = "return"
      BY <3>2, <3>3
    <3>5. cur.pc = 1 \/ cur.pc = 2
      BY <1>4, <3>4
    <3> QED
      BY <1>4, <3>4, <3>5
  <2>4. cur.args[1] = <<0, 1>>
    BY <2>1
  <2>5. <<0, 1>> # SysargsCell /\ <<0, 1>>[1] = 0 /\ <<0, 1>>[2] = 1
    BY DEF SysargsCell
  <2>6. Arg(1) = actual[1]
    BY <2>4, <2>5 DEF Arg, At
  <2> QED
    BY <2>1, <2>3, <2>6
<1>13. cur.fn \in Filling
  BY <1>5
<1> QED
  BY <1>8, <1>11, <1>12, <1>13

\* What it writes is an object whose words are values.
LEMMA FilledWith ==
  ASSUME FramesFit, WordsFollow, ObjectAtHand, At_op("fill")
  PROVE  IsObject(Filled) /\ \A w \in WordsOf(Filled) : IsValue(w, objs)
<1>1. /\ cur.fn \in Filling
      /\ cur.obj = Ref(cur.obj.n) /\ cur.obj.n \in DOMAIN objs
      /\ \A k \in DOMAIN cur.args : cur.fn # "Bstring" => IsValue(Arg(k), objs)
      /\ cur.fn = "Lclone" => cur.args = <<<<0, 1>>>> /\ actual[1].kind = "object" /\ Arg(1) = actual[1]
  BY FillAt
<1>2. \A k, t, es : IsObject(Obj(k, t, es))
  BY DEF IsObject, Obj
<1>3. \A t, es : WordsOf(Obj("STRING", t, es)) = {}
  BY DEF WordsOf, Obj
<1>4. \A k, t, es : WordsOf(Obj(k, t, es)) \subseteq Range(es)
  BY DEF WordsOf, Obj
<1>5. CASE cur.fn = "LmakeArray"
  <2>1. Filled = Obj("ARRAY", 0, [i \in 1..cur.n |-> BOX(0)])
    BY <1>5 DEF Filled
  <2>2. \A w \in Range([i \in 1..cur.n |-> BOX(0)]) : w = BOX(0)
    BY DEF Range
  <2>3. IsValue(BOX(0), objs)
    BY DEF IsValue, BOX, UNBOXED, Word
  <2> QED
    BY <1>2, <1>4, <2>1, <2>2, <2>3
<1>6. CASE cur.fn \in {"Bstring", "Lfread", "Lsubstring", "Li__Infix_4343"}
  <2>1. \E es : Filled = Obj("STRING", 0, es)
    BY <1>6 DEF Filled
  <2> QED
    BY <1>2, <1>3, <2>1
<1>7. CASE cur.fn = "Lclone"
  <2>1. Filled = objs[actual[1].n]
    BY <1>1, <1>7 DEF Filled, Object
  <2>2. 1 \in DOMAIN actual /\ IsValue(actual[1], objs) /\ actual[1] \in Word
    <3>1. /\ cur = frames[depth] /\ depth \in DOMAIN frames /\ depth \in 1..depth
      BY Running
    <3>2. <<0, 1>> \in Range(frames[depth].args)
      BY <1>1, <1>7, <3>1 DEF Range
    <3>3. IsValue(At(<<0, 1>>), objs)
      BY <3>1, <3>2, ArgumentFollows
    <3>4. frames[depth].args \in Seq(Reachable(depth))
      BY <3>1 DEF FramesFit, FrameInOrder
    <3>5. <<0, 1>> \in Reachable(depth)
      BY <3>2, <3>4 DEF Range
    <3>6. depth \in Nat /\ actual \in Seq(Word)
      BY <3>1 DEF WordsFollow
    <3>7. \/ \E k \in DOMAIN actual : <<0, 1>> = <<0, k>>
          \/ \E e \in 1..depth : \E k \in DOMAIN frames[e].mem : <<0, 1>> = <<e, k>>
      BY <3>5, <3>6, CellValue
    <3>8. 1 \in DOMAIN actual
      BY <3>6, <3>7
    <3> QED
      BY <3>8 DEF WordsFollow
  <2>3. actual[1] = Ref(actual[1].n) /\ actual[1].n \in DOMAIN objs
    BY <1>1, <1>7, <2>2 DEF IsValue, Word, Ref, UNBOXED
  <2>4. actual[1] # cur.obj
    <3>1. depth > 0
      BY DEF At_op
    <3> QED
      BY <1>7, <3>1 DEF ObjectAtHand
  <2>5. Ref(actual[1].n) \notin Unfilled
    BY <2>3, <2>4 DEF Unfilled
  <2> QED
    BY <2>1, <2>3, <2>5 DEF WordsFollow
<1>8. CASE cur.fn \in {"Barray", "Bsexp", "Bclosure"}
  <2>1. \E k, t : Filled = Obj(k, t, ArgWords)
    BY <1>8 DEF Filled
  <2>2. \A w \in Range(ArgWords) : IsValue(w, objs)
    BY <1>1, <1>8 DEF ArgWords, Range
  <2> QED
    BY <1>2, <1>4, <2>1, <2>2
<1> QED
  BY <1>1, <1>5, <1>6, <1>7, <1>8 DEF Filling

\* fill: the object gets its contents.
LEMMA FillKeeps ==
  ASSUME RootsInvariant, fill
  PROVE  RootsInvariant'
<1>1. FramesFit /\ WordsFollow /\ ObjectAtHand
  BY Conjuncts
<1>2. At_op("fill")
  BY DEF fill
<1>3. PICK o : o = "fill"
  OBVIOUS
<1>4. At_op(o) /\ o \in {"store", "fill"}
  BY <1>2, <1>3
<1>5. /\ cur = frames[depth] /\ SameCall(cur, cur) /\ depth \in DOMAIN frames /\ depth \in 1..depth
  BY <1>1, <1>4, Running
<1>6. /\ cur.obj = Ref(cur.obj.n) /\ cur.obj.n \in DOMAIN objs
      /\ \A k \in DOMAIN cur.args : ~Stale(Arg(k))
  BY <1>1, <1>2, FillAt
<1>7. ~Stale(cur.obj)
  BY <1>6 DEF Stale, Ref
<1>8. objs' = [objs EXCEPT ![cur.obj.n] = Filled] /\ Advance /\ status' = status
  BY <1>6, <1>7 DEF fill
<1>9. PICK g : g = Step(cur) /\ SetCur(g)
  BY <1>8 DEF Advance
<1>10. /\ SameCall(cur, g) /\ g.pc = cur.pc + 1 /\ g.mem = cur.mem
       /\ g.obj = cur.obj /\ g.addr = cur.addr /\ g.flag = cur.flag
  BY <1>5, <1>9 DEF SameCall, Step
<1>11. SetCur(g) /\ Follows(g.addr)
  BY <1>1, <1>5, <1>9, <1>10 DEF WordsFollow
<1>12. DOMAIN objs' = DOMAIN objs
  BY <1>8
<1>13. \A i \in DOMAIN objs : IsObject(objs'[i]) /\ \A w \in WordsOf(objs'[i]) : IsValue(w, objs)
  <2> SUFFICES ASSUME NEW i \in DOMAIN objs
               PROVE  IsObject(objs'[i]) /\ \A w \in WordsOf(objs'[i]) : IsValue(w, objs)
    OBVIOUS
  <2>1. CASE i = cur.obj.n
    <3>1. objs'[i] = Filled
      BY <1>8, <2>1
    <3> QED
      BY <1>1, <1>2, <3>1, FilledWith
  <2>2. CASE i # cur.obj.n
    <3>1. objs'[i] = objs[i]
      BY <1>8, <2>2
    <3>2. Ref(i) \notin Unfilled
      BY <1>6, <2>2 DEF Unfilled, Ref
    <3> QED
      BY <1>1, <3>1, <3>2 DEF WordsFollow
  <2> QED
    BY <2>1, <2>2
<1>14. UNCHANGED <<vars, actual, dst, pool, top, buf, global_sysargs, status>>
  BY <1>8 DEF fill
<1> QED
  BY <1>4, <1>10, <1>11, <1>12, <1>13, <1>14, ObjectWritten

-----------------------------------------------------------------------------
(* Calls of each other.                                                    *)

\* What the caller passes on is in its own words, and may be used.
LEMMA Passed ==
  ASSUME FramesFit, At_op("call")
  PROVE  LET o == Body(cur)[cur.pc]
         IN  /\ IsCall(o) /\ o.op = "call"
             /\ \A i \in Range(o.is) : i \in DOMAIN cur.mem /\ Usable(o.fn, cur.mem[i])
<1> DEFINE o == Body(cur)[cur.pc]
<1>1. PICK x : x = "call"
  OBVIOUS
<1>2. At_op(x)
  BY <1>1
<1>3. /\ cur = frames[depth] /\ depth \in DOMAIN frames /\ OpOf(cur) = x /\ AtStep(cur)
  BY <1>2, Running
<1>4. cur.pc \in 1..Len(Body(cur)) /\ Len(Body(cur)) \in Nat /\ o.op = "call" /\ CallInOrder(Body(cur), cur.fn)
  BY <1>1, <1>3 DEF AtStep, OpOf, InOrder, Ends
<1>5. IsCall(o)
  BY <1>4 DEF CallInOrder
<1>6. FrameInOrder(depth)
  BY <1>3 DEF FramesFit
<1>7. cur.pc \in cur.pc..Len(Body(cur))
  BY <1>4
<1>8. \A i \in Range(o.is) : i \in DOMAIN cur.mem /\ Usable(o.fn, cur.mem[i])
  BY <1>3, <1>4, <1>6, <1>7 DEF FrameInOrder
<1> QED
  BY <1>4, <1>5, <1>8

\* The new activation record.
LEMMA Called ==
  ASSUME NEW fn \in Callees, NEW d, NEW cells, NEW ws, NEW n, NEW t
  PROVE  LET f == Frame(fn, d, cells, ws, n, t)
         IN  /\ f = [fn |-> f.fn, pc |-> f.pc, args |-> f.args, mem |-> f.mem, obj |-> f.obj,
                     addr |-> f.addr, n |-> f.n, t |-> f.t, flag |-> f.flag]
             /\ f.fn = fn /\ f.pc = 1 /\ f.args = cells /\ f.obj = Null /\ f.addr = Null /\ f.flag = FALSE
             /\ f.mem = IF fn = "Lstring" THEN <<Buffer>> ELSE << >>
             /\ AtStep(f)
<1> DEFINE f == Frame(fn, d, cells, ws, n, t)
<1>1. /\ f.fn = fn /\ f.pc = 1 /\ f.args = cells /\ f.obj = Null /\ f.addr = Null /\ f.flag = FALSE
      /\ f.mem = OwnMem(fn, ws, t)
  BY DEF Frame, Callees, OwnWords
<1>2. f = [fn |-> f.fn, pc |-> f.pc, args |-> f.args, mem |-> f.mem, obj |-> f.obj,
           addr |-> f.addr, n |-> f.n, t |-> f.t, flag |-> f.flag]
  BY DEF Frame
<1>3. OwnMem(fn, ws, t) = IF fn = "Lstring" THEN <<Buffer>> ELSE << >>
  BY DEF OwnMem, Callees, OwnWords
<1> HIDE DEF f
<1>4. Known(f)
  BY <1>1, FixedNames DEF Known, Callees
<1>5. InOrder(Body(f), f.fn)
  BY <1>4, BodyInOrder
<1>6. 1 \in 1..Len(Body(f))
  BY <1>5 DEF InOrder, Ends
<1>7. AtStep(f)
  BY <1>1, <1>4, <1>5, <1>6 DEF AtStep
<1> QED
  BY <1>1, <1>2, <1>3, <1>7 DEF f

\* What CallInner does to the activation records.
LEMMA CallEnters ==
  ASSUME FramesFit, CallInner
  PROVE  /\ Entering /\ status' = status
         /\ \A d \in 1..depth : /\ frames'[d].mem = frames[d].mem
                                /\ frames'[d].obj = frames[d].obj /\ frames'[d].addr = frames[d].addr
         /\ LET f == frames'[depth + 1]
                o == Body(cur)[cur.pc]
            IN  /\ f = [fn |-> f.fn, pc |-> f.pc, args |-> f.args, mem |-> f.mem, obj |-> f.obj,
                        addr |-> f.addr, n |-> f.n, t |-> f.t, flag |-> f.flag]
                /\ f.fn = o.fn /\ f.args = [k \in DOMAIN o.is |-> <<depth, o.is[k]>>]
                /\ f.obj = Null /\ f.addr = Null
                /\ f.mem = IF o.fn = "Lstring" THEN <<Buffer>> ELSE << >>
<1> DEFINE o == Body(cur)[cur.pc]
<1>1. PICK x : x = "call"
  OBVIOUS
<1>2. At_op(x) /\ At_op("call")
  BY <1>1 DEF CallInner
<1>3. /\ cur = frames[depth] /\ depth \in DOMAIN frames /\ depth \in 1..depth /\ depth \in Nat \ {0}
      /\ AtStep(cur) /\ SameCall(cur, cur)
  BY <1>2, Running
<1>4. /\ IsCall(o) /\ o.op = "call"
      /\ \A i \in Range(o.is) : i \in DOMAIN cur.mem /\ Usable(o.fn, cur.mem[i])
  BY <1>2, Passed
<1> DEFINE cells == [k \in DOMAIN o.is |-> <<depth, o.is[k]>>]
           ws    == [k \in DOMAIN cells |-> At(cells[k])]
           t     == IF cur.fn = "Ls__Infix_58" THEN ConsTag ELSE cur.t
           new   == Frame(o.fn, depth + 1, cells, ws, cur.n, t)
<1>5. \A k \in DOMAIN ws : ~Stale(ws[k])
  <2> SUFFICES ASSUME NEW k \in DOMAIN o.is PROVE ~Stale(At(<<depth, o.is[k]>>))
    OBVIOUS
  <2>1. <<depth, o.is[k]>> # SysargsCell /\ <<depth, o.is[k]>>[1] = depth /\ <<depth, o.is[k]>>[2] = o.is[k]
    BY <1>3 DEF SysargsCell
  <2>2. At(<<depth, o.is[k]>>) = frames[depth].mem[o.is[k]]
    BY <1>3, <2>1 DEF At
  <2>3. Usable(o.fn, cur.mem[o.is[k]])
    BY <1>4 DEF Range
  <2> QED
    BY <1>3, <2>2, <2>3 DEF Usable, Stale
<1>6. frames' = Append([frames EXCEPT ![depth] = Step(cur)], new) /\ status' = status
  BY <1>5 DEF CallInner
<1>7. o.fn \in Callees
  BY <1>4 DEF IsCall
<1> HIDE DEF cells, ws, t, o
<1>8. /\ new = [fn |-> new.fn, pc |-> new.pc, args |-> new.args, mem |-> new.mem, obj |-> new.obj,
                addr |-> new.addr, n |-> new.n, t |-> new.t, flag |-> new.flag]
      /\ new.fn = o.fn /\ new.pc = 1 /\ new.args = cells /\ new.obj = Null /\ new.addr = Null
      /\ new.flag = FALSE /\ new.mem = IF o.fn = "Lstring" THEN <<Buffer>> ELSE << >>
      /\ AtStep(new)
  <2>1. PICK g, c, w, n, u : g = o.fn /\ c = cells /\ w = ws /\ n = cur.n /\ u = t
    OBVIOUS
  <2>2. g \in Callees
    BY <1>7, <2>1
  <2>3. PICK e : e = depth + 1
    OBVIOUS
  <2>4. LET h == Frame(g, e, c, w, n, u)
        IN  /\ h = [fn |-> h.fn, pc |-> h.pc, args |-> h.args, mem |-> h.mem, obj |-> h.obj,
                    addr |-> h.addr, n |-> h.n, t |-> h.t, flag |-> h.flag]
            /\ h.fn = g /\ h.pc = 1 /\ h.args = c /\ h.obj = Null /\ h.addr = Null /\ h.flag = FALSE
            /\ h.mem = IF g = "Lstring" THEN <<Buffer>> ELSE << >>
            /\ AtStep(h)
    BY <2>2, Called
  <2>5. new = Frame(g, e, c, w, n, u)
    BY <2>1, <2>3
  <2> HIDE DEF new
  <2> QED
    BY <2>1, <2>4, <2>5
<1> HIDE DEF new
<1>9. PICK h : h = Step(cur)
  OBVIOUS
<1>10. /\ SameCall(cur, h) /\ h.pc = cur.pc + 1 /\ h.mem = cur.mem
       /\ h.obj = cur.obj /\ h.addr = cur.addr /\ h.flag = cur.flag
  BY <1>3, <1>9 DEF SameCall, Step
<1>11. frames' = Append([frames EXCEPT ![depth] = h], new)
  BY <1>6, <1>9
<1>12. \A d \in 1..depth : SameCall(frames[d], frames[d])
  BY FramesAtStep
<1>13. /\ Len(frames') = depth + 1 /\ DOMAIN frames' = 1..depth + 1 /\ frames' \in Seq(Range(frames'))
       /\ \A d \in 1..depth : frames'[d] = IF d = depth THEN h ELSE frames[d]
       /\ frames'[depth + 1] = new
  <2>1. PICK S : S = Range(frames) \cup {h, new}
    OBVIOUS
  <2>2. frames \in Seq(S) /\ h \in S /\ new \in S
    BY <2>1 DEF FramesFit
  <2>3. PICK s : s = [frames EXCEPT ![depth] = h]
    OBVIOUS
  <2>4. s \in Seq(S) /\ Len(s) = depth /\ \A d \in 1..depth : s[d] = IF d = depth THEN h ELSE frames[d]
    BY <1>3, <2>2, <2>3 DEF depth
  <2>5. frames' = Append(s, new)
    BY <1>11, <2>3
  <2>6. /\ frames' \in Seq(S) /\ Len(frames') = depth + 1 /\ frames'[depth + 1] = new
        /\ \A d \in 1..depth : frames'[d] = s[d]
    BY <1>3, <2>2, <2>4, <2>5
  <2>7. frames' \in Seq(Range(frames'))
    BY <2>6 DEF Range
  <2> QED
    BY <2>4, <2>6, <2>7
<1>14. \A d \in 1..depth : /\ frames'[d].mem = frames[d].mem
                           /\ frames'[d].obj = frames[d].obj /\ frames'[d].addr = frames[d].addr
                           /\ SameCall(frames[d], frames'[d]) /\ frames'[d].flag = frames[d].flag
                           /\ frames'[d].pc = IF d = depth THEN frames[d].pc + 1 ELSE frames[d].pc
  BY <1>3, <1>10, <1>12, <1>13
<1>15. Entering
  <2>1. depth' = depth + 1
    BY <1>13 DEF depth
  <2> QED
    BY <1>2, <1>8, <1>13, <1>14, <2>1 DEF Entering
<1>16. /\ frames'[depth + 1].fn = o.fn /\ frames'[depth + 1].args = cells
       /\ frames'[depth + 1].obj = Null /\ frames'[depth + 1].addr = Null
       /\ frames'[depth + 1].mem = IF o.fn = "Lstring" THEN <<Buffer>> ELSE << >>
  BY <1>8, <1>13
<1>17. frames'[depth + 1] =
         [fn |-> frames'[depth + 1].fn, pc |-> frames'[depth + 1].pc, args |-> frames'[depth + 1].args,
          mem |-> frames'[depth + 1].mem, obj |-> frames'[depth + 1].obj, addr |-> frames'[depth + 1].addr,
          n |-> frames'[depth + 1].n, t |-> frames'[depth + 1].t, flag |-> frames'[depth + 1].flag]
  BY <1>8, <1>13
<1> QED
  BY <1>6, <1>14, <1>15, <1>16, <1>17 DEF o, cells

\* The callers are in order below the function that they call.
LEMMA CallersInOrder ==
  ASSUME FramesFit, WordsFollow, Entering, actual' = actual, global_sysargs' = global_sysargs,
         \A d \in 1..depth : frames'[d].mem = frames[d].mem
  PROVE  \A d \in 1..depth : FrameInOrder(d)' /\ ArgumentsFit(d)'
<1> SUFFICES ASSUME NEW d \in 1..depth
             PROVE  FrameInOrder(d)' /\ ArgumentsFit(d)'
  OBVIOUS
<1>1. /\ depth \in Nat \ {0} /\ depth \in 1..depth /\ DOMAIN frames = 1..depth
      /\ OpOf(frames[depth]) = "call" /\ AtStep(frames'[d])
      /\ Earlier(frames'[d], "hold") <=> Earlier(frames[d], "hold")
      /\ Later(frames'[d], "publish") <=> Later(frames[d], "publish")
  BY EnteringFrames
<1>2. FrameInOrder(d) /\ ArgumentsFit(d) /\ AtStep(frames[d]) /\ d \in Nat
  BY <1>1, FramesAtStep DEF FramesFit
<1>3. SameCall(frames[d], frames'[d]) /\ frames'[d].pc = IF d = depth THEN frames[d].pc + 1 ELSE frames[d].pc
  BY DEF Entering
<1>4. frames'[d].pc = frames[d].pc \/ frames'[d].pc = frames[d].pc + 1
  BY <1>3
<1>5. frames'[d].pc > 1 /\ Body(frames[d])[frames'[d].pc - 1].op = "call"
  <2>1. CASE d = depth
    <3>1. frames[d].pc \in Nat /\ frames[d].pc >= 1 /\ frames'[d].pc = frames[d].pc + 1
      BY <1>2, <1>3, <2>1 DEF AtStep, InOrder, Ends
    <3>2. Body(frames[d])[frames[d].pc].op = "call"
      BY <1>1, <2>1 DEF OpOf
    <3>3. frames'[d].pc - 1 = frames[d].pc /\ frames'[d].pc > 1
      BY <3>1
    <3> QED
      BY <3>2, <3>3
  <2>2. CASE d # depth
    <3>1. d < depth
      BY <1>1, <2>2
    <3> QED
      BY <1>2, <1>3, <2>2, <3>1 DEF FrameInOrder
  <2> QED
    BY <2>1, <2>2
<1>6. actual \in Seq(Word) /\ \A e \in 1..d : frames'[e].mem = frames[e].mem
  BY <1>1 DEF WordsFollow
<1>7. Reachable(d)' = Reachable(d)
  BY <1>2, <1>6, ReachableKept
<1>8. ReadsKept(d)
  <2>1. \A c \in Reachable(d) : At(c)' = At(c)
    BY <1>2, <1>6, AtKept
  <2>2. Range(frames[d].args) \subseteq Reachable(d)
    BY <1>2 DEF FrameInOrder, Range
  <2> QED
    BY <2>1, <2>2 DEF ReadsKept
<1>9. FrameInOrder(d)'
  BY <1>2, <1>1, <1>3, <1>4, <1>5, <1>7, <1>8, FrameKept
<1>10. frames[d].fn = "set_args" => SysargsFit(frames[d])'
  <2> SUFFICES ASSUME frames[d].fn = "set_args" PROVE SysargsFit(frames[d])'
    OBVIOUS
  <2>1. SysargsFit(frames[d])
    BY SetArgsOutermost
  <2>2. frames'[d].mem = frames[d].mem /\ frames'[d].n = frames[d].n
    BY <1>3 DEF SameCall
  <2> QED
    BY <1>1, <2>1, <2>2 DEF SysargsFit
<1>11. ArgumentsFit(d)'
  BY <1>2, <1>3, <1>10, ArgumentsStep
<1> QED
  BY <1>9, <1>11

\* The record of a called function, as the step o of its caller makes it.
CalledRecord(f, o) ==
  /\ f = [fn |-> f.fn, pc |-> f.pc, args |-> f.args, mem |-> f.mem, obj |-> f.obj,
          addr |-> f.addr, n |-> f.n, t |-> f.t, flag |-> f.flag]
  /\ f.fn = o.fn /\ f.args = [k \in DOMAIN o.is |-> <<depth, o.is[k]>>]
  /\ f.obj = Null /\ f.addr = Null
  /\ f.mem = IF o.fn = "Lstring" THEN <<Buffer>> ELSE << >>

\* The called function is in order too.
LEMMA CalleeInOrder ==
  ASSUME FramesFit, WordsFollow, Entering, At_op("call"), actual' = actual,
         \A d \in 1..depth : frames'[d].mem = frames[d].mem,
         CalledRecord(frames'[depth + 1], Body(cur)[cur.pc])
  PROVE  \A d : d = depth + 1 => FrameInOrder(d)' /\ ArgumentsFit(d)'
<1> SUFFICES ASSUME NEW d, d = depth + 1 PROVE FrameInOrder(d)' /\ ArgumentsFit(d)'
  OBVIOUS
<1>1. PICK f, o : f = frames'[depth + 1] /\ o = Body(cur)[cur.pc]
  OBVIOUS
<1>2. CalledRecord(f, o)
  BY <1>1
<1>3. IsCall(o) /\ \A i \in Range(o.is) : i \in DOMAIN cur.mem /\ Usable(o.fn, cur.mem[i])
  BY <1>1, Passed
<1>4. /\ depth \in Nat \ {0} /\ depth \in 1..depth /\ d \in Nat /\ d > 1 /\ depth' = d
      /\ cur = frames[depth] /\ depth \in 1..d /\ depth # 0
  <2>1. depth \in Nat \ {0} /\ depth \in 1..depth /\ depth' = depth + 1
    BY EnteringFrames DEF Entering
  <2>2. cur = frames[depth]
    BY DEF cur
  <2> QED
    BY <2>1, <2>2
<1>5. /\ f.fn = o.fn /\ f.fn \in Callees /\ f.args \in Seq(Range(f.args)) /\ DOMAIN f.args = DOMAIN o.is
      /\ (f.fn \in {"LmakeString", "LmakeArray"} => f.args = << >>)
      /\ \A k \in DOMAIN o.is : f.args[k] = <<depth, o.is[k]>>
      /\ f.mem = IF o.fn = "Lstring" THEN <<Buffer>> ELSE << >>
  <2>1. o.is \in Seq(Nat) /\ o.fn \in Callees /\ (o.fn \in {"LmakeString", "LmakeArray"} => o.is = << >>)
    BY <1>3 DEF IsCall
  <2>2. PICK as : as = [k \in DOMAIN o.is |-> <<depth, o.is[k]>>]
    OBVIOUS
  <2>3. f.args = as /\ f.fn = o.fn /\ f.mem = IF o.fn = "Lstring" THEN <<Buffer>> ELSE << >>
    BY <1>2, <2>2 DEF CalledRecord
  <2>4. as \in Seq(Range(as)) /\ DOMAIN as = DOMAIN o.is /\ \A k \in DOMAIN o.is : as[k] = <<depth, o.is[k]>>
    <3>1. PICK n \in Nat : DOMAIN o.is = 1..n
      BY <2>1
    <3> QED
      BY <2>2, <3>1 DEF Range
  <2>5. o.is = << >> => as = << >>
    BY <2>2
  <2> QED
    BY <2>1, <2>3, <2>4, <2>5
<1>6. \A k \in DOMAIN f.args : /\ f.args[k] \in Reachable(d)'
                               /\ Usable(f.fn, At(f.args[k])')
  <2> SUFFICES ASSUME NEW k \in DOMAIN o.is
               PROVE  f.args[k] \in Reachable(d)' /\ Usable(f.fn, At(f.args[k])')
    BY <1>5
  <2>1. PICK i : i = o.is[k]
    OBVIOUS
  <2>2. i \in DOMAIN cur.mem /\ Usable(f.fn, cur.mem[i])
    BY <1>3, <1>5, <2>1 DEF Range
  <2>3. PICK c : c = <<depth, i>>
    OBVIOUS
  <2>4. f.args[k] = c /\ frames'[depth].mem = cur.mem
    BY <1>4, <1>5, <2>1, <2>3
  <2>5. c \in Reachable(d)'
    BY <1>4, <2>2, <2>3, <2>4 DEF Reachable
  <2>6. At(c)' = cur.mem[i]
    <3>1. c # SysargsCell /\ c[1] = depth /\ c[2] = i /\ c[1] # 0
      BY <1>4, <2>3 DEF SysargsCell
    <3>2. At(c)' = frames'[depth].mem[i]
      BY <3>1 DEF At
    <3> QED
      BY <2>4, <3>2
  <2> QED
    BY <2>2, <2>4, <2>5, <2>6
<1>7. f.args \in Seq(Reachable(d)')
  BY <1>5, <1>6 DEF Range
<1>8. f.pc \in 1..Len(Body(f)) /\ Known(f) /\ f.pc = 1
  <2>1. AtStep(f) /\ f.pc = 1
    BY <1>1 DEF Entering
  <2> QED
    BY <2>1 DEF AtStep
<1>9. \A k \in f.pc..Len(Body(f)) :
        Body(f)[k].op = "call" =>
          \A i \in Range(Body(f)[k].is) : i \in DOMAIN f.mem /\ Usable(Body(f)[k].fn, f.mem[i])
  <2> SUFFICES ASSUME NEW k \in f.pc..Len(Body(f)), Body(f)[k].op = "call", NEW i \in Range(Body(f)[k].is)
               PROVE  i \in DOMAIN f.mem /\ Usable(Body(f)[k].fn, f.mem[i])
    OBVIOUS
  <2>1. CallOf(f, Body(f)[k])
    <3>1. f.fn # "set_args"
      BY <1>5 DEF Callees
    <3>2. k \in 1..Len(Body(f))
      BY <1>8
    <3> QED
      BY <1>8, <3>1, <3>2, BodyInOrder DEF CallsOf
  <2>2. PICK b : b = Body(f)[k]
    OBVIOUS
  <2>3. \/ f.fn = "Bstring" /\ b.is = << >>
        \/ f.fn = "Lstring" /\ b.fn = "Bstring" /\ b.is = <<1>>
    BY <1>5, <2>1, <2>2 DEF CallOf, Callees
  <2>4. f.fn = "Lstring" /\ b.fn = "Bstring" /\ i = 1
    <3>1. Range(<< >>) = {} /\ Range(<<1>>) = {1}
      BY DEF Range
    <3> QED
      BY <2>2, <2>3, <3>1
  <2>5. f.mem = <<Buffer>> /\ i = 1
    BY <1>5, <2>4
  <2>6. ~Stale(Buffer)
    BY DEF Stale, Buffer, Raw
  <2> QED
    BY <2>2, <2>4, <2>5, <2>6 DEF Usable
<1>10. frames'[d] = f /\ d = depth + 1
  BY <1>1
<1>11. FrameInOrder(d)'
  <2>1. ~(d < depth')
    BY <1>4
  <2>2. f = [fn |-> f.fn, pc |-> f.pc, args |-> f.args, mem |-> f.mem, obj |-> f.obj,
             addr |-> f.addr, n |-> f.n, t |-> f.t, flag |-> f.flag]
    BY <1>2 DEF CalledRecord
  <2> QED
    BY <1>5, <1>6, <1>7, <1>8, <1>9, <1>10, <2>1, <2>2 DEF FrameInOrder
<1>12. ArgumentsFit(d)'
  BY <1>5, <1>10 DEF ArgumentsFit, Callees
<1> QED
  BY <1>11, <1>12

\* A call: all is in order in the function that begins.
LEMMA CallKeeps ==
  ASSUME RootsInvariant, CallInner
  PROVE  RootsInvariant'
<1>1. /\ FramesFit /\ PoolIsStack /\ TopIsOutermost /\ BufferInUse /\ WordsFollow /\ ObjectAtHand
      /\ status \in {"running", "failed"} /\ Len(pool) <= MAX_EXTRA_ROOTS_NUMBER
  BY Conjuncts
<1>2. /\ Entering /\ status' = status
      /\ \A d \in 1..depth : /\ frames'[d].mem = frames[d].mem
                             /\ frames'[d].obj = frames[d].obj /\ frames'[d].addr = frames[d].addr
      /\ CalledRecord(frames'[depth + 1], Body(cur)[cur.pc])
  BY <1>1, CallEnters DEF CalledRecord
<1>3. /\ vars' = vars /\ actual' = actual /\ pool' = pool /\ top' = top /\ objs' = objs /\ buf' = buf
      /\ global_sysargs' = global_sysargs /\ Published' = Published
  BY DEF CallInner, Published
<1>4. At_op("call") /\ depth \in Nat \ {0} /\ DOMAIN frames = 1..depth
  BY <1>1, <1>2, EnteringFrames DEF CallInner
<1>5. TopIsOutermost' /\ BufferInUse'
  BY <1>1, <1>2, <1>3, EnteringKeeps
<1>6. PoolIsStack'
  BY <1>1, <1>2, <1>3, EnteringPool
<1>7. \A d \in 1..depth : FrameInOrder(d)' /\ ArgumentsFit(d)'
  BY <1>1, <1>2, <1>3, CallersInOrder
<1>8. \A d : d = depth + 1 => FrameInOrder(d)' /\ ArgumentsFit(d)'
  BY <1>1, <1>2, <1>3, <1>4, CalleeInOrder
<1>9. /\ depth' = depth + 1 /\ DOMAIN frames' = 1..depth + 1 /\ frames' \in Seq(Range(frames'))
      /\ frames'[depth + 1].pc = 1 /\ AtStep(frames'[depth + 1])
  BY <1>2 DEF Entering
<1>10. FramesFit'
  <2>1. \A d \in 1..depth + 1 : d \in 1..depth \/ d = depth + 1
    BY <1>4
  <2>2. \A d \in DOMAIN frames' : FrameInOrder(d)' /\ ArgumentsFit(d)'
    BY <1>7, <1>8, <1>9, <2>1
  <2>3. depth' # 0
    BY <1>4, <1>9
  <2>4. Range(frames)' = Range(frames')
    BY DEF Range
  <2> QED
    BY <1>9, <2>2, <2>3, <2>4 DEF FramesFit
<1>11. PICK f, o : f = frames'[depth + 1] /\ o = Body(cur)[cur.pc]
  OBVIOUS
<1>12. f.obj = Null /\ f.addr = Null /\ f.fn \in Callees /\ f.mem = IF f.fn = "Lstring" THEN <<Buffer>> ELSE << >>
  <2>1. CalledRecord(f, o) /\ IsCall(o)
    BY <1>1, <1>2, <1>4, <1>11, Passed
  <2> QED
    BY <2>1 DEF CalledRecord, IsCall
<1>13. Follows(Null) /\ Follows(Buffer) /\ ~Stale(Null)
  BY DEF Follows, Null, Buffer, Raw, Word, Stale
<1>14. WordsFollow'
  <2>1. Unfilled = {}
    BY <1>4 DEF Unfilled, At_op
  <2>2. \A d \in DOMAIN frames' : /\ \A k \in DOMAIN frames'[d].mem : Follows(frames'[d].mem[k])
                                  /\ Follows(frames'[d].obj) /\ Follows(frames'[d].addr)
    <3> SUFFICES ASSUME NEW d \in 1..depth + 1
                 PROVE  /\ \A k \in DOMAIN frames'[d].mem : Follows(frames'[d].mem[k])
                        /\ Follows(frames'[d].obj) /\ Follows(frames'[d].addr)
      BY <1>9
    <3>1. CASE d = depth + 1
      <4>1. frames'[d] = f
        BY <1>11, <3>1
      <4>2. \A k \in DOMAIN f.mem : f.mem[k] = Buffer
        BY <1>12
      <4> QED
        BY <1>12, <1>13, <4>1, <4>2
    <3>2. CASE d # depth + 1
      <4>1. d \in 1..depth
        BY <1>4, <3>2
      <4> QED
        BY <1>1, <1>2, <1>4, <4>1 DEF WordsFollow
    <3> QED
      BY <3>1, <3>2
  <2> QED
    BY <1>1, <1>3, <2>1, <2>2, WordsKept
<1>15. ObjectAtHand'
  <2>1. PICK g : g = f
    OBVIOUS
  <2>2. cur' = g /\ g.obj = Null /\ g.fn # "Lclone"
    BY <1>9, <1>11, <1>12, <2>1 DEF cur, Callees
  <2>3. \A o1 : ~Earlier(g, o1)
    BY <1>9, <1>11, <2>1, FrameBegins
  <2>4. (Earlier(cur, "same") => IsValue(cur.obj, objs))' /\ (Earlier(cur, "alloc") \/ Earlier(cur, "call") => cur.obj.kind = "object")'
    <3>1. \A o1 : Earlier(cur, o1)' <=> Earlier(g, o1)
      BY <2>2 DEF Earlier
    <3> QED
      BY <2>3, <3>1
  <2> QED
    BY <1>13, <2>2, <2>4 DEF ObjectAtHand, Stale
<1> QED
  BY <1>1, <1>2, <1>3, <1>5, <1>6, <1>10, <1>14, <1>15 DEF RootsInvariant, FramesFit

-----------------------------------------------------------------------------
(* Returns.                                                                *)

\* The records below the one that ends: the caller gets the object.
LEMMA ReturnLeaves ==
  ASSUME FramesFit, Return
  PROVE  /\ Leaving /\ status' = status
         /\ \A d \in 1..depth - 1 : /\ frames'[d].mem = frames[d].mem /\ frames'[d].addr = frames[d].addr
                                    /\ frames'[d].obj = IF d = depth - 1 THEN cur.obj ELSE frames[d].obj
<1>1. PICK x : x = "return"
  OBVIOUS
<1>2. At_op(x) /\ At_op("return")
  BY <1>1 DEF Return
<1>3. depth \in Nat \ {0}
  BY <1>2, Running
<1>4. \A d \in 1..depth : SameCall(frames[d], frames[d])
  BY FramesAtStep
<1>5. status' = status
  BY DEF Return
<1>6. PICK w : w = cur.obj
  OBVIOUS
<1>7. CASE depth = 1
  <2>1. frames' = << >>
    BY <1>7 DEF Return
  <2>2. depth' = 0 /\ DOMAIN frames' = {} /\ frames' \in Seq(Range(frames')) /\ depth - 1 = 0
    BY <1>7, <2>1 DEF depth
  <2>3. 1..depth - 1 = {} /\ depth' = depth - 1
    BY <2>2
  <2> QED
    BY <1>2, <1>5, <2>2, <2>3 DEF Leaving
<1>8. CASE depth # 1
  <2>1. PICK n \in Nat : n = depth - 1 /\ n > 0 /\ n < depth
    BY <1>3, <1>8
  <2>2. PICK S, s : S = Range(frames) /\ s = SubSeq(frames, 1, n)
    OBVIOUS
  <2>3. frames \in Seq(S) /\ n \in 1..Len(frames)
    BY <1>3, <2>1, <2>2 DEF FramesFit, depth
  <2>4. s \in Seq(S) /\ Len(s) = n /\ DOMAIN s = 1..n /\ \A d \in 1..n : s[d] = frames[d]
    BY <2>1, <2>2, <2>3
  <2>5. frames' = [s EXCEPT ![n].obj = w]
    BY <1>6, <1>8, <2>1, <2>2 DEF Return
  <2>6. PICK h : h = [s[n] EXCEPT !.obj = w]
    OBVIOUS
  <2>7. frames' = [s EXCEPT ![n] = h]
    BY <2>5, <2>6
  <2>8. SameCall(frames[n], s[n]) /\ n \in 1..n /\ n \in 1..depth
    BY <1>3, <1>4, <2>1, <2>4
  <2>9. /\ SameCall(frames[n], h) /\ h.flag = frames[n].flag /\ h.pc = frames[n].pc
        /\ h.mem = frames[n].mem /\ h.addr = frames[n].addr /\ h.obj = w
    BY <2>4, <2>6, <2>8 DEF SameCall
  <2>10. frames' \in Seq(S \cup {h}) /\ Len(frames') = n /\ DOMAIN frames' = 1..n
         /\ \A d \in 1..n : frames'[d] = IF d = n THEN h ELSE frames[d]
    BY <2>1, <2>4, <2>7
  <2>11. frames' \in Seq(Range(frames'))
    BY <2>10 DEF Range
  <2>12. depth' = depth - 1
    BY <2>1, <2>10 DEF depth
  <2>13. \A d \in 1..n : /\ SameCall(frames[d], frames'[d]) /\ frames'[d].flag = frames[d].flag
                         /\ frames'[d].pc = frames[d].pc
                         /\ frames'[d].mem = frames[d].mem /\ frames'[d].addr = frames[d].addr
                         /\ frames'[d].obj = IF d = n THEN w ELSE frames[d].obj
    <3> SUFFICES ASSUME NEW d \in 1..n
                 PROVE  /\ SameCall(frames[d], frames'[d]) /\ frames'[d].flag = frames[d].flag
                        /\ frames'[d].pc = frames[d].pc
                        /\ frames'[d].mem = frames[d].mem /\ frames'[d].addr = frames[d].addr
                        /\ frames'[d].obj = IF d = n THEN w ELSE frames[d].obj
      OBVIOUS
    <3>1. CASE d = n
      BY <2>9, <2>10, <3>1
    <3>2. CASE d # n
      <4>1. frames'[d] = frames[d] /\ d \in 1..depth
        BY <1>3, <2>1, <2>10, <3>2
      <4> QED
        BY <1>4, <3>2, <4>1
    <3> QED
      BY <3>1, <3>2
  <2>14. Leaving
    BY <1>2, <2>1, <2>10, <2>11, <2>12, <2>13 DEF Leaving
  <2> QED
    BY <1>5, <1>6, <2>1, <2>13, <2>14
<1> QED
  BY <1>7, <1>8

\* The result of a function that the runtime calls itself is an object, that of
\* one the program calls a value.
LEMMA Result ==
  ASSUME FramesFit, WordsFollow, ObjectAtHand, At_op("return")
  PROVE  /\ cur.fn \in Callees => cur.obj.kind = "object"
         /\ cur.fn # "set_args" => IsValue(cur.obj, objs)
         /\ Follows(cur.obj)
<1>1. PICK o : o = "return"
  OBVIOUS
<1>2. At_op(o)
  BY <1>1
<1>3. cur = frames[depth] /\ depth \in DOMAIN frames /\ OpOf(cur) = "return" /\ AtStep(cur) /\ depth > 0
  BY <1>1, <1>2, Running
<1>4. /\ cur.fn \in Callees => Earlier(cur, "alloc") \/ Earlier(cur, "call")
      /\ cur.fn # "set_args" => Earlier(cur, "alloc") \/ Earlier(cur, "call") \/ Earlier(cur, "same")
  BY <1>3, FrameReturns
<1>5. Follows(cur.obj)
  BY <1>3 DEF WordsFollow
<1>6. cur.obj.kind = "object" => IsValue(cur.obj, objs)
  BY <1>5 DEF Follows, IsValue
<1> QED
  BY <1>3, <1>4, <1>5, <1>6 DEF ObjectAtHand

\* A return to a caller within the runtime.
LEMMA ReturnToCaller ==
  ASSUME RootsInvariant, Return, depth # 1
  PROVE  RootsInvariant'
<1>1. /\ FramesFit /\ PoolIsStack /\ TopIsOutermost /\ BufferInUse /\ WordsFollow /\ ObjectAtHand
      /\ status \in {"running", "failed"} /\ Len(pool) <= MAX_EXTRA_ROOTS_NUMBER
  BY Conjuncts
<1>2. /\ Leaving /\ status' = status
      /\ \A d \in 1..depth - 1 : /\ frames'[d].mem = frames[d].mem /\ frames'[d].addr = frames[d].addr
                                 /\ frames'[d].obj = IF d = depth - 1 THEN cur.obj ELSE frames[d].obj
  BY <1>1, ReturnLeaves
<1>3. /\ vars' = vars /\ actual' = actual /\ pool' = pool /\ top' = top /\ objs' = objs /\ buf' = buf
      /\ global_sysargs' = global_sysargs /\ Published' = Published
  BY DEF Return, Published
<1>4. At_op("return") /\ depth \in Nat \ {0} /\ DOMAIN frames = 1..depth
  BY <1>1, <1>2, LeavingFrames DEF Return
<1>5. PICK n \in Nat : n = depth - 1 /\ n > 0 /\ n < depth /\ n \in 1..depth
  BY <1>4
<1>6. TopIsOutermost' /\ BufferInUse'
  BY <1>1, <1>2, <1>3, LeavingKeeps
<1>7. PoolIsStack'
  BY <1>1, <1>2, <1>3, LeavingPool
<1>8. /\ depth' = n /\ DOMAIN frames' = 1..n /\ frames' \in Seq(Range(frames'))
      /\ \A d \in 1..n : SameCall(frames[d], frames'[d]) /\ frames'[d].pc = frames[d].pc
  BY <1>2, <1>5 DEF Leaving
<1>9. \A d \in 1..n : /\ AtStep(frames'[d])
                      /\ Earlier(frames'[d], "hold") <=> Earlier(frames[d], "hold")
                      /\ Later(frames'[d], "publish") <=> Later(frames[d], "publish")
  BY <1>1, <1>2, <1>5, LeavingFrames
<1>10. ASSUME NEW d \in 1..n
       PROVE  FrameInOrder(d)' /\ ArgumentsFit(d)'
  <2>1. d \in 1..depth /\ d < depth /\ d \in Nat
    BY <1>4, <1>5
  <2>2. FrameInOrder(d) /\ ArgumentsFit(d) /\ AtStep(frames[d])
    BY <1>1, <1>4, <2>1, FramesAtStep DEF FramesFit
  <2>3. frames'[d].pc > 1 /\ Body(frames[d])[frames'[d].pc - 1].op = "call"
    BY <1>8, <2>1, <2>2 DEF FrameInOrder
  <2>4. actual \in Seq(Word) /\ \A e \in 1..d : frames'[e].mem = frames[e].mem
    BY <1>1, <1>2, <1>5 DEF WordsFollow
  <2>5. Reachable(d)' = Reachable(d)
    BY <1>3, <2>1, <2>4, ReachableKept
  <2>6. ReadsKept(d)
    <3>1. \A c \in Reachable(d) : At(c)' = At(c)
      BY <1>3, <2>1, <2>4, AtKept
    <3>2. Range(frames[d].args) \subseteq Reachable(d)
      BY <2>2 DEF FrameInOrder, Range
    <3>3. frames'[d].mem = frames[d].mem
      BY <2>1, <2>4
    <3> QED
      BY <3>1, <3>2, <3>3 DEF ReadsKept
  <2>7. FrameInOrder(d)'
    BY <1>8, <1>9, <2>1, <2>2, <2>3, <2>5, <2>6, FrameKept
  <2>8. frames[d].fn = "set_args" => SysargsFit(frames[d])'
    <3> SUFFICES ASSUME frames[d].fn = "set_args" PROVE SysargsFit(frames[d])'
      OBVIOUS
    <3>1. SysargsFit(frames[d])
      BY <1>1, <2>1, SetArgsOutermost
    <3>2. frames'[d].mem = frames[d].mem /\ frames'[d].n = frames[d].n
      BY <1>8, <2>1, <2>4 DEF SameCall
    <3> QED
      BY <1>3, <1>9, <3>1, <3>2 DEF SysargsFit
  <2>9. ArgumentsFit(d)'
    BY <1>3, <1>8, <2>2, <2>8, ArgumentsStep
  <2> QED
    BY <2>7, <2>9
<1>11. FramesFit'
  <2>1. Range(frames)' = Range(frames')
    BY DEF Range
  <2> QED
    BY <1>5, <1>8, <1>10, <2>1 DEF FramesFit
<1>12. Follows(cur.obj) /\ cur.obj.kind = "object" /\ IsValue(cur.obj, objs) /\ ~Stale(cur.obj)
  <2>1. cur.fn \in Callees
    <3>1. cur = frames[depth] /\ depth > 1 /\ depth \in DOMAIN frames
      BY <1>4, <1>5 DEF cur
    <3> QED
      BY <1>1, <3>1 DEF FramesFit, FrameInOrder
  <2>2. cur.fn # "set_args"
    BY <2>1 DEF Callees
  <2> QED
    BY <1>1, <1>4, <2>1, <2>2, Result DEF Stale
<1>13. WordsFollow'
  <2>1. Unfilled = {}
    BY <1>4 DEF Unfilled, At_op
  <2>2. \A d \in DOMAIN frames' : /\ \A k \in DOMAIN frames'[d].mem : Follows(frames'[d].mem[k])
                                  /\ Follows(frames'[d].obj) /\ Follows(frames'[d].addr)
    <3> SUFFICES ASSUME NEW d \in 1..n
                 PROVE  /\ \A k \in DOMAIN frames'[d].mem : Follows(frames'[d].mem[k])
                        /\ Follows(frames'[d].obj) /\ Follows(frames'[d].addr)
      BY <1>8
    <3>1. d \in 1..depth - 1 /\ d \in DOMAIN frames
      BY <1>4, <1>5
    <3>2. /\ \A k \in DOMAIN frames[d].mem : Follows(frames[d].mem[k])
          /\ Follows(frames[d].obj) /\ Follows(frames[d].addr)
      BY <1>1, <3>1 DEF WordsFollow
    <3>3. Follows(frames'[d].obj)
      BY <1>2, <1>12, <3>1, <3>2
    <3> QED
      BY <1>2, <3>1, <3>2, <3>3
  <2> QED
    BY <1>1, <1>3, <2>1, <2>2, WordsKept
<1>14. ObjectAtHand'
  <2>1. PICK g : g = frames'[n]
    OBVIOUS
  <2>2. cur' = g
    BY <1>8, <2>1 DEF cur
  <2>3. g.obj = cur.obj
    BY <1>2, <1>5, <2>1
  <2>4. (At_op("fill") /\ cur.fn = "Lclone" => cur.obj # actual[1])'
    <3> SUFFICES ASSUME (At_op("fill") /\ cur.fn = "Lclone")' PROVE FALSE
      OBVIOUS
    <3>1. Body(g)[g.pc].op = "fill" /\ g.fn = "Lclone"
      BY <2>2 DEF At_op
    <3>2. AtStep(g) /\ FrameInOrder(n)'
      BY <1>5, <1>8, <1>9, <1>10, <2>1
    <3>3. Body(g)[g.pc - 1].op = "alloc"
      BY <3>1, <3>2 DEF AtStep, InOrder, FillInOrder
    <3>4. Body(g)[g.pc - 1].op = "call"
      <4>1. n < depth /\ n \in DOMAIN frames
        BY <1>4, <1>5
      <4>2. Body(frames[n])[frames[n].pc - 1].op = "call"
        BY <1>1, <4>1 DEF FramesFit, FrameInOrder
      <4>3. Body(g) = Body(frames[n]) /\ g.pc = frames[n].pc
        BY <1>5, <1>8, <2>1, SameBody DEF SameCall
      <4> QED
        BY <4>2, <4>3
    <3> QED
      BY <3>3, <3>4
  <2>5. PICK w : w = cur.obj
    OBVIOUS
  <2>6. cur.obj' = w /\ ~Stale(w) /\ w.kind = "object" /\ IsValue(w, objs')
    BY <1>3, <1>12, <2>2, <2>3, <2>5
  <2> QED
    BY <2>4, <2>6 DEF ObjectAtHand, Stale
<1> QED
  BY <1>1, <1>2, <1>3, <1>6, <1>7, <1>11, <1>13, <1>14 DEF RootsInvariant, FramesFit

\* What is kept of the heap is closed.
LEMMA Kept ==
  ASSUME WordsFollow, NEW ws, \A w \in ws : Follows(w)
  PROVE  LET st == Keep(objs, ws)
         IN  /\ DOMAIN st \subseteq DOMAIN objs /\ IsFiniteSet(DOMAIN st)
             /\ \A i \in DOMAIN st : st[i] = objs[i]
             /\ \A i \in DOMAIN st : \A w \in WordsOf(objs[i]) : w.kind = "object" => w.n \in DOMAIN st
             /\ \A w \in ws : w.kind = "object" => w.n \in DOMAIN st
<1> DEFINE U == Reach(objs, ws)
<1>1. \A i \in DOMAIN objs : \A w \in WordsOf(objs[i]) : w.kind = "object" => w.n \in DOMAIN objs
  BY DEF WordsFollow, Follows
<1>2. Closed(objs, DOMAIN objs) /\ Referred(ws) \subseteq DOMAIN objs
  BY <1>1 DEF Closed, Referred, Follows
<1>3. IsFiniteSet(DOMAIN objs)
  BY DEF WordsFollow
<1>4. U \subseteq DOMAIN objs /\ Referred(ws) \subseteq U /\ Closed(objs, U)
  BY <1>2, <1>3, ReachClosed
<1>5. IsFiniteSet(U)
  BY <1>3, <1>4, FS_Subset
<1>6. Keep(objs, ws) = [i \in U |-> objs[i]]
  BY DEF Keep
<1> HIDE DEF U
<1>7. DOMAIN Keep(objs, ws) = U /\ \A i \in U : Keep(objs, ws)[i] = objs[i]
  BY <1>6
<1>8. \A i \in U : \A w \in WordsOf(objs[i]) : w.kind = "object" => w.n \in U
  BY <1>4 DEF Closed, Referred
<1>9. \A w \in ws : w.kind = "object" => w.n \in U
  BY <1>4 DEF Referred
<1> QED
  BY <1>4, <1>5, <1>7, <1>8, <1>9

\* When nothing runs, all words are values of a heap that holds no more than they need.
LEMMA WordsCollected ==
  ASSUME WordsFollow, Unfilled = {}, frames' = << >>, actual' = << >>, global_sysargs' = global_sysargs,
         vars' \in [Var -> Word], \A v \in Var : IsValue(vars'[v], objs),
         objs' = Keep(objs, {vars'[v] : v \in Var} \cup {global_sysargs})
  PROVE  WordsFollow'
<1>1. PICK ws : ws = {vars'[v] : v \in Var} \cup {global_sysargs}
  OBVIOUS
<1>2. \A w : IsValue(w, objs) => Follows(w)
  BY DEF Follows, IsValue, UNBOXED
<1>3. Follows(global_sysargs) /\ (global_sysargs = Null \/ global_sysargs.kind = "object")
  BY DEF WordsFollow
<1>4. \A w \in ws : Follows(w)
  BY <1>1, <1>2, <1>3
<1>5. PICK st : st = Keep(objs, ws)
  OBVIOUS
<1>6. /\ DOMAIN st \subseteq DOMAIN objs /\ IsFiniteSet(DOMAIN st)
      /\ \A i \in DOMAIN st : st[i] = objs[i]
      /\ \A i \in DOMAIN st : \A w \in WordsOf(objs[i]) : w.kind = "object" => w.n \in DOMAIN st
      /\ \A w \in ws : w.kind = "object" => w.n \in DOMAIN st
  BY <1>4, <1>5, Kept
<1>7. objs' = st
  BY <1>1, <1>5
<1>8. \A w : IsValue(w, objs) /\ (w.kind = "object" => w.n \in DOMAIN st) => IsValue(w, objs')
  BY <1>7 DEF IsValue
<1>9. \A v \in Var : IsValue(vars'[v], objs')
  <2>1. \A v \in Var : vars'[v] \in ws
    BY <1>1
  <2> QED
    BY <1>6, <1>8, <2>1
<1>10. actual' \in Seq(Word) /\ \A k \in DOMAIN actual' : IsValue(actual'[k], objs')
  OBVIOUS
<1>11. \A i \in DOMAIN objs : IsObject(objs[i]) /\ \A w \in WordsOf(objs[i]) : IsValue(w, objs)
  BY DEF WordsFollow
<1>12. \A w : IsValue(w, objs') => Follows(w)'
  BY DEF Follows, IsValue, UNBOXED
<1>13. \A i \in DOMAIN objs' :
         /\ IsObject(objs'[i])
         /\ \A w \in WordsOf(objs'[i]) : Follows(w)' /\ (Ref(i) \notin Unfilled' => IsValue(w, objs'))
  BY <1>6, <1>7, <1>8, <1>11, <1>12
<1>14. Follows(global_sysargs)' /\ (global_sysargs' = Null \/ global_sysargs'.kind = "object")
  <2>1. global_sysargs \in ws
    BY <1>1
  <2> QED
    BY <1>3, <1>6, <1>7, <2>1 DEF Follows
<1>15. (\A d \in DOMAIN frames : LET f == frames[d]
                                IN  /\ \A k \in DOMAIN f.mem : Follows(f.mem[k])
                                    /\ Follows(f.obj) /\ Follows(f.addr))'
  OBVIOUS
<1>16. IsFiniteSet(DOMAIN objs')
  BY <1>6, <1>7
<1> QED
  BY <1>9, <1>10, <1>13, <1>14, <1>15, <1>16 DEF WordsFollow

\* Without activation records there is nothing to be in order.
LEMMA NothingRuns ==
  ASSUME frames' = << >>, actual' = << >>
  PROVE  FramesFit' /\ ObjectAtHand'
<1>1. depth' = 0 /\ DOMAIN frames' = {} /\ frames' \in Seq(Range(frames'))
  BY DEF depth
<1>2. Range(frames)' = Range(frames')
  BY DEF Range
<1> QED
  BY <1>1, <1>2 DEF FramesFit, ObjectAtHand

\* A return to the program.
LEMMA ReturnToProgram ==
  ASSUME RootsInvariant, Return, depth = 1
  PROVE  RootsInvariant'
<1>1. /\ FramesFit /\ PoolIsStack /\ TopIsOutermost /\ BufferInUse /\ WordsFollow /\ ObjectAtHand
      /\ status \in {"running", "failed"} /\ Len(pool) <= MAX_EXTRA_ROOTS_NUMBER
  BY Conjuncts
<1>2. Leaving /\ status' = status
  BY <1>1, ReturnLeaves
<1>3. /\ pool' = pool /\ top' = top /\ buf' = buf /\ global_sysargs' = global_sysargs
      /\ Published' = Published
  BY DEF Return, Published
<1>4. TopIsOutermost' /\ BufferInUse'
  BY <1>1, <1>2, <1>3, LeavingKeeps
<1>5. PoolIsStack'
  BY <1>1, <1>2, <1>3, LeavingPool
<1>6. At_op("return")
  BY DEF Return
<1>7. PICK w : w = cur.obj
  OBVIOUS
<1>8. Follows(w) /\ (cur.fn # "set_args" => IsValue(w, objs))
  BY <1>1, <1>6, <1>7, Result
<1>9. vars' = IF cur.fn # "set_args" THEN [vars EXCEPT ![dst] = w] ELSE vars
  BY <1>7 DEF Return
<1>10. vars \in [Var -> Word] /\ \A v \in Var : IsValue(vars[v], objs)
  BY <1>1 DEF WordsFollow
<1>11. vars' \in [Var -> Word] /\ \A v \in Var : IsValue(vars'[v], objs)
  BY <1>8, <1>9, <1>10 DEF Follows
<1>12. /\ frames' = << >> /\ actual' = << >>
       /\ objs' = Keep(objs, {vars'[v] : v \in Var} \cup {global_sysargs})
  BY DEF Return
<1>13. Unfilled = {}
  BY <1>6 DEF Unfilled, At_op
<1>14. WordsFollow'
  BY <1>1, <1>3, <1>11, <1>12, <1>13, WordsCollected
<1>15. FramesFit' /\ ObjectAtHand'
  BY <1>12, NothingRuns
<1> QED
  BY <1>1, <1>2, <1>3, <1>4, <1>5, <1>14, <1>15 DEF RootsInvariant, FramesFit

\* Between two calls of the runtime nothing is registered but the published array.
LEMMA AtIdle ==
  ASSUME RootsInvariant, frames = << >>
  PROVE  pool = Published /\ top = 0 /\ buf = NoBuf /\ actual = << >> /\ Unfilled = {}
<1>1. depth = 0 /\ DOMAIN frames = {}
  BY DEF depth
<1>2. pool = Published
  <2>1. PICK s : s = [d \in DOMAIN frames |-> HeldCells(d)]
    OBVIOUS
  <2>2. s = [i \in 1..0 |-> << >>]
    BY <1>1, <2>1
  <2>3. FlattenSeq(s) = << >>
    BY <2>2, FlattenNothing
  <2>4. PICK p : p = Published
    OBVIOUS
  <2>5. p \o << >> = p
    BY <2>4 DEF Published
  <2>6. pool = p \o FlattenSeq(s)
    BY <2>1, <2>4 DEF RootsInvariant, PoolIsStack
  <2> QED
    BY <2>3, <2>4, <2>5, <2>6
<1>3. top = 0
  <2>1. {} = {top} \ {0}
    BY <1>1 DEF RootsInvariant, TopIsOutermost
  <2> QED
    BY <2>1
<1>4. buf = NoBuf
  BY <1>1 DEF RootsInvariant, BufferInUse
<1>5. actual = << >>
  BY <1>1 DEF RootsInvariant
<1>6. Unfilled = {}
  BY <1>1 DEF Unfilled, At_op
<1> QED
  BY <1>2, <1>3, <1>4, <1>5, <1>6

\* Steps of the program itself.
LEMMA AssignKeeps ==
  ASSUME RootsInvariant, Assign
  PROVE  RootsInvariant'
<1>1. /\ FramesFit /\ PoolIsStack /\ TopIsOutermost /\ BufferInUse /\ WordsFollow /\ ObjectAtHand
      /\ status \in {"running", "failed"} /\ Len(pool) <= MAX_EXTRA_ROOTS_NUMBER
  BY Conjuncts
<1>2. frames = << >> /\ actual = << >> /\ Unfilled = {}
  BY AtIdle DEF Assign, Idle
<1>3. /\ actual' = actual /\ frames' = frames /\ pool' = pool /\ top' = top /\ buf' = buf
      /\ global_sysargs' = global_sysargs /\ status' = status
      /\ objs' = Keep(objs, {vars'[v] : v \in Var} \cup {global_sysargs})
  BY DEF Assign
<1>4. vars \in [Var -> Word] /\ \A v \in Var : IsValue(vars[v], objs)
  BY <1>1 DEF WordsFollow
<1>5. PICK d \in Var, w \in Word : vars' = [vars EXCEPT ![d] = w] /\ IsValue(w, objs)
  <2>1. CASE \E d \in Var : \E n \in Ints : vars' = [vars EXCEPT ![d] = BOX(n)]
    <3>1. PICK d \in Var : \E n \in Ints : vars' = [vars EXCEPT ![d] = BOX(n)]
      BY <2>1
    <3>2. PICK n \in Ints : vars' = [vars EXCEPT ![d] = BOX(n)]
      BY <3>1
    <3>3. n \in Int
      BY RuntimeAssumption
    <3>4. IsValue(BOX(n), objs)
      BY <3>3 DEF IsValue, BOX, UNBOXED, Word
    <3> QED
      BY <3>2, <3>4 DEF IsValue
  <2>2. CASE \E d \in Var : \E x \in Objects : \E k \in DOMAIN Object(x).elems :
               ~IsString(x) /\ vars' = [vars EXCEPT ![d] = Object(x).elems[k]]
    <3>1. PICK d \in Var : \E x \in Objects : \E k \in DOMAIN Object(x).elems :
                             ~IsString(x) /\ vars' = [vars EXCEPT ![d] = Object(x).elems[k]]
      BY <2>2
    <3>2. PICK x \in Objects : \E k \in DOMAIN Object(x).elems :
                                 ~IsString(x) /\ vars' = [vars EXCEPT ![d] = Object(x).elems[k]]
      BY <3>1
    <3>3. PICK k \in DOMAIN Object(x).elems :
                 ~IsString(x) /\ vars' = [vars EXCEPT ![d] = Object(x).elems[k]]
      BY <3>2
    <3>4. x.kind = "object" /\ x.n \in DOMAIN objs
      BY <1>4 DEF Objects, Held, IsValue, UNBOXED
    <3>5. objs[x.n].kind # "STRING"
      BY <3>3, <3>4 DEF IsString, Object
    <3>6. objs[x.n].elems[k] \in WordsOf(objs[x.n])
      BY <3>5 DEF WordsOf, Range, Object
    <3>7. IsValue(objs[x.n].elems[k], objs)
      BY <1>1, <1>2, <3>4, <3>6 DEF WordsFollow
    <3> QED
      BY <3>3, <3>7 DEF Object, IsValue
  <2> QED
    BY <2>1, <2>2 DEF Assign
<1>6. vars' \in [Var -> Word] /\ \A v \in Var : IsValue(vars'[v], objs)
  BY <1>4, <1>5 DEF IsValue
<1>7. frames' = << >> /\ actual' = << >>
  BY <1>2, <1>3
<1>8. WordsFollow'
  BY <1>1, <1>2, <1>3, <1>6, <1>7, WordsCollected
<1>9. FramesFit' /\ ObjectAtHand'
  BY <1>7, NothingRuns
<1>10. PoolIsStack'
  <2>1. Published' = Published
    BY <1>3 DEF Published
  <2>2. ([e \in DOMAIN frames |-> HeldCells(e)])' = [e \in DOMAIN frames |-> HeldCells(e)]
    BY <1>3 DEF HeldCells, Registers, Between, Earlier, Later
  <2> QED
    BY <1>1, <1>3, <2>1, <2>2 DEF PoolIsStack
<1>11. TopIsOutermost' /\ BufferInUse'
  BY <1>1, <1>3 DEF TopIsOutermost, BufferInUse, Resets, Between, Earlier, Later
<1> QED
  BY <1>1, <1>3, <1>8, <1>9, <1>10, <1>11 DEF RootsInvariant, FramesFit

\* A return.
LEMMA ReturnKeeps ==
  ASSUME RootsInvariant, Return
  PROVE  RootsInvariant'
BY ReturnToCaller, ReturnToProgram

-----------------------------------------------------------------------------
(* Calls of the program.                                                   *)

\* The arguments that the program passes are values, those of the functions that
\* have none excepted, and that of RVBstring, which is a C string.
LEMMA InputsAre ==
  ASSUME WordsFollow, NEW fn \in Functions, NEW in \in Inputs(fn)
  PROVE  /\ in.ws \in Seq(Word)
         /\ fn # "RVBstring" => \A k \in DOMAIN in.ws : IsValue(in.ws[k], objs)
         /\ \A k \in DOMAIN in.ws : ~Stale(in.ws[k])
         /\ fn \in {"LmakeString", "LmakeArray", "LgetEnv", "LreadLine", "Lfread"} => in.ws = << >>
         /\ fn \in {"LgetEnv", "LreadLine"} => in.t \in Int
         /\ fn \in {"Bstring", "RVBstring", "Bsprintf", "Lclone", "Lstring", "RVLstring", "Lstringcat"} => Len(in.ws) = 1
         /\ fn = "Lsubstring" => Len(in.ws) = 3
         /\ fn \in {"Li__Infix_4343", "Ls__Infix_58"} => Len(in.ws) = 2
<1>1. \A w \in Held : IsValue(w, objs)
  BY DEF WordsFollow, Held
<1>2. Objects \subseteq Held /\ Strings \subseteq Held
  BY DEF Objects, Strings
<1>3. \A n \in Int : IsValue(BOX(n), objs)
  BY DEF IsValue, BOX, UNBOXED, Word
<1>4. \A w : IsValue(w, objs) => w \in Word /\ ~Stale(w)
  BY DEF IsValue, Stale, UNBOXED
<1>5. PICK V : V = {w \in Word : IsValue(w, objs)}
  OBVIOUS
<1>6. Held \subseteq V /\ \A n \in Int : BOX(n) \in V
  BY <1>1, <1>3, <1>4, <1>5
<1>7. in.ws \in Seq(V) => /\ in.ws \in Seq(Word) /\ \A k \in DOMAIN in.ws : IsValue(in.ws[k], objs) /\ ~Stale(in.ws[k])
  BY <1>4, <1>5
<1>8. CASE fn \in {"LmakeString", "LmakeArray", "LgetEnv", "LreadLine", "Lfread"}
  <2>1. in.ws = << >>
    BY <1>8 DEF Inputs
  <2>2. fn \in {"LgetEnv", "LreadLine"} => in.t \in Int
    <3>1. External \cup {Absent} \subseteq Int
      BY RuntimeAssumption
    <3> QED
      BY <1>8, <3>1 DEF Inputs
  <2> QED
    BY <1>8, <2>1, <2>2
<1>9. CASE fn = "RVBstring"
  <2>1. PICK b \in DOMAIN Outside \ External : in = [ws |-> <<Raw(b)>>, n |-> 0, t |-> 0]
    BY <1>9 DEF Inputs
  <2>2. in.ws = <<Raw(b)>> /\ b \in Int
    BY <2>1, RuntimeAssumption
  <2>3. Raw(b) \in Word /\ ~Stale(Raw(b))
    BY <2>2 DEF Raw, Word, Stale
  <2> QED
    BY <1>9, <2>2, <2>3
<1>10. CASE fn \in {"Bstring", "Bsprintf", "Lclone", "Lstring", "RVLstring", "Lstringcat"}
  <2>1. PICK w \in Held : in = [ws |-> <<w>>, n |-> 0, t |-> 0]
    BY <1>2, <1>10 DEF Inputs
  <2>2. in.ws = <<w>> /\ w \in V
    BY <1>6, <2>1
  <2>3. in.ws \in Seq(V) /\ Len(in.ws) = 1
    BY <2>2
  <2> QED
    BY <1>7, <1>10, <2>3
<1>11. CASE fn = "Lsubstring"
  <2>1. PICK w \in Objects, p \in 0..1, l \in 0..MaxLen : in = [ws |-> <<w, BOX(p), BOX(l)>>, n |-> 0, t |-> 0]
    BY <1>11 DEF Inputs
  <2>2. in.ws = <<w, BOX(p), BOX(l)>> /\ w \in V /\ BOX(p) \in V /\ BOX(l) \in V
    BY <1>2, <1>6, <2>1
  <2>3. in.ws \in Seq(V) /\ Len(in.ws) = 3
    BY <2>2
  <2> QED
    BY <1>7, <1>11, <2>3
<1>12. CASE fn \in {"Li__Infix_4343", "Ls__Infix_58"}
  <2>1. PICK v \in Held, w \in Held : in = [ws |-> <<v, w>>, n |-> 0, t |-> 0]
    BY <1>2, <1>12 DEF Inputs
  <2>2. in.ws = <<v, w>> /\ v \in V /\ w \in V
    BY <1>6, <2>1
  <2>3. in.ws \in Seq(V) /\ Len(in.ws) = 2
    BY <2>2
  <2> QED
    BY <1>7, <1>12, <2>3
<1>13. CASE fn \in {"Barray", "RVBarray", "Bsexp", "RVBsexp", "Bclosure"}
  <2>1. in.ws \in Fields
    BY <1>13 DEF Inputs
  <2>2. Fields \subseteq Seq(V)
    <3>1. MAX_EXTRA_ROOTS_NUMBER \in Nat /\ BOX(0) \in V
      BY <1>6, RuntimeAssumption
    <3>2. [k \in 1..MAX_EXTRA_ROOTS_NUMBER |-> BOX(0)] \in Seq(V)
      BY <3>1
    <3>3. ASSUME NEW k \in 0..MaxArgs, NEW s \in [1..k -> Held]
          PROVE  s \in Seq(V)
      BY <1>6
    <3>4. UNION {[1..k -> Held] : k \in 0..MaxArgs} \subseteq Seq(V)
      BY <3>3
    <3>5. {[k \in 1..MAX_EXTRA_ROOTS_NUMBER |-> BOX(0)]} \subseteq Seq(V)
      BY <3>2
    <3> QED
      BY <3>4, <3>5 DEF Fields
  <2>3. in.ws \in Seq(V)
    BY <2>1, <2>2
  <2> QED
    BY <1>7, <1>13, <2>3
<1> QED
  BY <1>8, <1>9, <1>10, <1>11, <1>12, <1>13, FunctionsAssumption, FixedNames

\* The first activation record of a call, and what the function keeps in its own words.
CallFrame(fn, in) == Frame(fn, 1, [k \in DOMAIN in.ws |-> <<0, k>>], in.ws, in.n, in.t)

\* What is known of it.
CallRecord(f, fn, in) ==
  /\ f = [fn |-> f.fn, pc |-> f.pc, args |-> f.args, mem |-> f.mem, obj |-> f.obj,
          addr |-> f.addr, n |-> f.n, t |-> f.t, flag |-> f.flag]
  /\ f.fn = fn /\ f.pc = 1 /\ f.obj = Null /\ f.addr = Null /\ f.flag = FALSE
  /\ fn = "Bsprintf" => f.args = <<<<1, 1>>>>
  /\ fn \in OwnWords \ {"Bsprintf"} => f.args = [k \in DOMAIN in.ws |-> <<1, k>>]
  /\ fn \notin OwnWords => f.args = [k \in DOMAIN in.ws |-> <<0, k>>]
  /\ fn = "Bsprintf" => f.mem = Append(in.ws, Buffer)
  /\ fn \in (OwnWords \ {"Bsprintf"}) \cup {"Lclone"} => f.mem = in.ws
  /\ fn \in {"Lstring", "Lstringcat"} => f.mem = <<Buffer>>
  /\ fn \in {"LgetEnv", "LreadLine"} => f.mem = <<Raw(in.t)>>
  /\ fn \notin OwnWords \cup {"Lclone", "Lstring", "Lstringcat", "LgetEnv", "LreadLine"} => f.mem = << >>
  /\ fn \in {"RVBarray", "RVBsexp"} => f.n = Len(in.ws)
  /\ fn = "Lclone" /\ f.t # "int" => ~UNBOXED(in.ws[1])

\* The record that CallRuntime makes is one.
LEMMA CallFrameIs ==
  ASSUME NEW fn \in Functions, NEW in
  PROVE  CallRecord(CallFrame(fn, in), fn, in)
<1> DEFINE f == CallFrame(fn, in)
<1>1. fn # "set_args"
  BY FunctionsAssumption, FixedNames
<1>2. /\ f = [fn |-> f.fn, pc |-> f.pc, args |-> f.args, mem |-> f.mem, obj |-> f.obj,
              addr |-> f.addr, n |-> f.n, t |-> f.t, flag |-> f.flag]
      /\ f.fn = fn /\ f.pc = 1 /\ f.obj = Null /\ f.addr = Null /\ f.flag = FALSE
  BY DEF CallFrame, Frame
<1>3. /\ fn = "Bsprintf" => f.args = <<<<1, 1>>>>
      /\ fn \in OwnWords \ {"Bsprintf"} => f.args = [k \in DOMAIN in.ws |-> <<1, k>>]
      /\ fn \notin OwnWords => f.args = [k \in DOMAIN in.ws |-> <<0, k>>]
  BY DEF CallFrame, Frame, OwnWords
<1>4. f.mem = OwnMem(fn, in.ws, in.t)
  BY DEF CallFrame, Frame
<1>5. /\ fn = "Bsprintf" => OwnMem(fn, in.ws, in.t) = Append(in.ws, Buffer)
      /\ fn \in (OwnWords \ {"Bsprintf"}) \cup {"Lclone"} => OwnMem(fn, in.ws, in.t) = in.ws
      /\ fn \in {"Lstring", "Lstringcat"} => OwnMem(fn, in.ws, in.t) = <<Buffer>>
      /\ fn \in {"LgetEnv", "LreadLine"} => OwnMem(fn, in.ws, in.t) = <<Raw(in.t)>>
      /\ fn \notin OwnWords \cup {"Lclone", "Lstring", "Lstringcat", "LgetEnv", "LreadLine"} =>
           OwnMem(fn, in.ws, in.t) = << >>
  BY <1>1 DEF OwnMem, OwnWords
<1>6. f.n = Size(fn, in.ws, in.n, in.t)
  BY DEF CallFrame, Frame
<1>7. fn \in {"RVBarray", "RVBsexp"} => Size(fn, in.ws, in.n, in.t) = Len(in.ws)
  BY DEF Size
<1>8. fn = "Lclone" /\ f.t # "int" => ~UNBOXED(in.ws[1])
  BY DEF CallFrame, Frame
<1> HIDE DEF f
<1> QED
  BY <1>2, <1>3, <1>4, <1>5, <1>6, <1>7, <1>8 DEF f, CallRecord

\* A function that the program may call is at the first step of its body.
LEMMA CallFrameAtStep ==
  ASSUME WordsFollow, NEW fn \in Functions, NEW in \in Inputs(fn), NEW f, f.fn = fn, f.pc = 1,
         fn \in {"RVBarray", "RVBsexp"} => f.n = Len(in.ws)
  PROVE  AtStep(f) /\ CallsOf(f)
<1>1. in.ws \in Seq(Word)
  BY InputsAre
<1>2. Known(f) /\ f.fn # "set_args"
  BY <1>1, FunctionsAssumption, FixedNames DEF Known
<1>3. InOrder(Body(f), f.fn) /\ CallsOf(f)
  BY <1>2, BodyInOrder
<1>4. 1 \in 1..Len(Body(f))
  BY <1>3 DEF InOrder, Ends
<1> QED
  BY <1>2, <1>3, <1>4 DEF AtStep

\* What it passes on to the functions that it calls may be used.
LEMMA CallFramePasses ==
  ASSUME WordsFollow, NEW fn \in Functions, NEW in \in Inputs(fn), NEW f, f.fn = fn, CallsOf(f),
         fn \in {"RVBarray", "RVBsexp"} => f.n = Len(in.ws),
         fn = "Bsprintf" => f.mem = Append(in.ws, Buffer),
         fn \in (OwnWords \ {"Bsprintf"}) \cup {"Lclone"} => f.mem = in.ws,
         fn \in {"Lstring", "Lstringcat"} => f.mem = <<Buffer>>,
         fn \in {"LgetEnv", "LreadLine"} => f.mem = <<Raw(in.t)>>,
         NEW k \in 1..Len(Body(f)), Body(f)[k].op = "call", NEW i \in Range(Body(f)[k].is)
  PROVE  i \in DOMAIN f.mem /\ Usable(Body(f)[k].fn, f.mem[i])
<1>1. PICK o, ws, m : o = Body(f)[k] /\ ws = in.ws /\ m = f.mem
  OBVIOUS
<1>2. /\ ws \in Seq(Word)
      /\ fn # "RVBstring" => \A j \in DOMAIN ws : IsValue(ws[j], objs)
      /\ \A j \in DOMAIN ws : ~Stale(ws[j])
      /\ fn \in {"Bstring", "RVBstring", "Bsprintf", "Lclone", "Lstring", "RVLstring", "Lstringcat"} => Len(ws) = 1
      /\ fn \in {"Li__Infix_4343", "Ls__Infix_58"} => Len(ws) = 2
  BY <1>1, InputsAre
<1>3. /\ fn \in {"RVBarray", "RVBsexp"} => f.n = Len(ws)
      /\ fn = "Bsprintf" => m = Append(ws, Buffer)
      /\ fn \in (OwnWords \ {"Bsprintf"}) \cup {"Lclone"} => m = ws
      /\ fn \in {"Lstring", "Lstringcat"} => m = <<Buffer>>
      /\ fn \in {"LgetEnv", "LreadLine"} => m = <<Raw(in.t)>>
  BY <1>1
<1>4. CallOf(f, o) /\ i \in Range(o.is)
  BY <1>1 DEF CallsOf
<1>5. \A w : IsValue(w, objs) => w.kind \in {"int", "object"}
  BY DEF IsValue, UNBOXED
<1>6. \A b : ~Stale(Raw(b))
  BY DEF Stale, Raw
<1>7. \A w, g : IsValue(w, objs) => Usable(g, w)
  BY <1>5 DEF Usable, Stale
<1>8. /\ Range(<< >>) = {} /\ Range(<<1>>) = {1} /\ Range(<<2>>) = {2} /\ Range(<<1, 2>>) = {1, 2}
      /\ \A n : Range([j \in 1..n |-> j]) = 1..n
  BY DEF Range
<1>9. CASE o.is = << >>
  BY <1>4, <1>8, <1>9
<1>10. CASE fn \in {"Lstring", "Lstringcat", "LgetEnv", "LreadLine", "RVBstring", "Lclone"} /\ o.fn = "Bstring" /\ o.is = <<1>>
  <2>1. i = 1
    BY <1>4, <1>8, <1>10
  <2>2. 1 \in DOMAIN m /\ ~Stale(m[1])
    BY <1>2, <1>3, <1>6, <1>10 DEF OwnWords, Buffer
  <2> QED
    BY <1>1, <1>10, <2>1, <2>2 DEF Usable
<1>11. CASE fn = "Bsprintf" /\ o.fn = "Bstring" /\ o.is = <<2>>
  <2>1. i = 2
    BY <1>4, <1>8, <1>11
  <2>2. 2 \in DOMAIN m /\ m[2] = Buffer
    <3>1. PICK b : b = Buffer
      OBVIOUS
    <3>2. ws \in Seq(Word) /\ b \in Word
      BY <1>2, <3>1 DEF Buffer, Raw, Word
    <3>3. Len(ws) = 1
      BY <1>2, <1>11
    <3>4. m = Append(ws, b)
      BY <1>3, <1>11, <3>1
    <3>5. Append(ws, b)[2] = b /\ 2 \in DOMAIN Append(ws, b)
      <4>1. PICK n \in Nat : n = Len(ws) + 1
        BY <3>2
      <4>2. Append(ws, b)[n] = b /\ n \in DOMAIN Append(ws, b)
        BY <3>2, <4>1
      <4>3. n = 2
        BY <3>3, <4>1
      <4> QED
        BY <4>2, <4>3
    <3> QED
      BY <3>1, <3>4, <3>5
  <2> QED
    BY <1>1, <1>6, <1>11, <2>1, <2>2 DEF Usable, Buffer
<1>12. CASE fn = "Ls__Infix_58" /\ o.is = <<1, 2>>
  <2>1. i \in {1, 2} /\ m = ws
    BY <1>3, <1>4, <1>8, <1>12 DEF OwnWords
  <2>2. i \in DOMAIN ws /\ IsValue(ws[i], objs)
    BY <1>2, <1>12, <2>1
  <2> QED
    BY <1>1, <1>7, <2>1, <2>2
<1>13. CASE fn = "RVLstring" /\ o.is = <<1>>
  <2>1. i = 1 /\ m = ws
    BY <1>3, <1>4, <1>8, <1>13 DEF OwnWords
  <2>2. i \in DOMAIN ws /\ IsValue(ws[i], objs)
    BY <1>2, <1>13, <2>1
  <2> QED
    BY <1>1, <1>7, <2>1, <2>2
<1>14. CASE fn \in {"RVBarray", "RVBsexp"} /\ o.is = [j \in 1..f.n |-> j]
  <2>1. i \in 1..f.n /\ m = ws
    BY <1>3, <1>4, <1>8, <1>14 DEF OwnWords
  <2>2. i \in DOMAIN ws /\ IsValue(ws[i], objs)
    BY <1>2, <1>3, <1>14, <2>1
  <2> QED
    BY <1>1, <1>7, <2>1, <2>2
<1> QED
  BY <1>4, <1>9, <1>10, <1>11, <1>12, <1>13, <1>14 DEF CallOf

\* What it keeps in its own words is a value, or an address outside the heap.
LEMMA CallFrameFollows ==
  ASSUME WordsFollow, NEW fn \in Functions, NEW in \in Inputs(fn), NEW m,
         fn = "Bsprintf" => m = Append(in.ws, Buffer),
         fn \in (OwnWords \ {"Bsprintf"}) \cup {"Lclone"} => m = in.ws,
         fn \in {"Lstring", "Lstringcat"} => m = <<Buffer>>,
         fn \in {"LgetEnv", "LreadLine"} => m = <<Raw(in.t)>>,
         fn \notin OwnWords \cup {"Lclone", "Lstring", "Lstringcat", "LgetEnv", "LreadLine"} => m = << >>
  PROVE  \A k \in DOMAIN m : Follows(m[k])
<1>1. PICK ws : ws = in.ws
  OBVIOUS
<1>2. /\ ws \in Seq(Word)
      /\ fn # "RVBstring" => \A j \in DOMAIN ws : IsValue(ws[j], objs)
      /\ fn \in {"Bstring", "RVBstring", "Bsprintf", "Lclone", "Lstring", "RVLstring", "Lstringcat"} => Len(ws) = 1
      /\ fn \in {"LgetEnv", "LreadLine"} => in.t \in Int
  BY <1>1, InputsAre
<1>3. \A w : IsValue(w, objs) => Follows(w)
  BY DEF Follows, IsValue, UNBOXED
<1>4. \A b \in Int : Follows(Raw(b))
  BY DEF Follows, Raw, Word
<1>5. Follows(Buffer)
  BY <1>4 DEF Buffer
<1>6. \A j \in DOMAIN ws : Follows(ws[j])
  <2>1. CASE fn = "RVBstring"
    <3>1. PICK b \in DOMAIN Outside \ External : in = [ws |-> <<Raw(b)>>, n |-> 0, t |-> 0]
      BY <2>1 DEF Inputs
    <3>2. ws = <<Raw(b)>> /\ b \in Int
      BY <1>1, <3>1, RuntimeAssumption
    <3> QED
      BY <1>4, <3>2
  <2>2. CASE fn # "RVBstring"
    BY <1>2, <1>3, <2>2
  <2> QED
    BY <2>1, <2>2
<1>7. CASE fn = "Bsprintf"
  <2>1. PICK b : b = Buffer
    OBVIOUS
  <2>2. b \in Word /\ Follows(b)
    BY <1>5, <2>1 DEF Follows
  <2>3. m = Append(ws, b)
    BY <1>1, <1>7, <2>1
  <2>4. \A k \in DOMAIN Append(ws, b) : (k \in DOMAIN ws /\ Append(ws, b)[k] = ws[k]) \/ Append(ws, b)[k] = b
    BY <1>2, <2>2
  <2> QED
    BY <1>6, <2>2, <2>3, <2>4
<1>8. CASE fn \in (OwnWords \ {"Bsprintf"}) \cup {"Lclone"}
  BY <1>1, <1>6, <1>8
<1>9. CASE fn \in {"Lstring", "Lstringcat"}
  BY <1>5, <1>9
<1>10. CASE fn \in {"LgetEnv", "LreadLine"}
  BY <1>2, <1>4, <1>10
<1>11. CASE fn \notin OwnWords \cup {"Lclone", "Lstring", "Lstringcat", "LgetEnv", "LreadLine"}
  BY <1>11
<1> QED
  BY <1>7, <1>8, <1>9, <1>10, <1>11

\* The function that the program has called is about to begin.
Begun ==
  /\ frames = <<frames[1]>> /\ status = "running" /\ pool = Published /\ top = 0 /\ buf = NoBuf
  /\ AtStep(frames[1]) /\ frames[1].pc = 1 /\ frames[1].flag = FALSE /\ frames[1].obj = Null
  /\ FrameInOrder(1) /\ ArgumentsFit(1) /\ WordsFollow

\* Then everything is in order.
LEMMA BegunInOrder == Begun => RootsInvariant
<1> SUFFICES ASSUME Begun PROVE RootsInvariant
  OBVIOUS
<1>1. PICK f : f = frames[1]
  OBVIOUS
<1>2. frames = <<f>>
  BY <1>1 DEF Begun
<1>3. depth = 1 /\ DOMAIN frames = {1} /\ frames \in Seq(Range(frames)) /\ cur = f
  BY <1>1, <1>2 DEF depth, cur, Range
<1>4. /\ AtStep(f) /\ f.pc = 1 /\ f.flag = FALSE /\ f.obj = Null
      /\ status = "running" /\ pool = Published /\ top = 0 /\ buf = NoBuf
      /\ FrameInOrder(1) /\ ArgumentsFit(1) /\ WordsFollow
  BY <1>1 DEF Begun
<1>5. (\A o : ~Earlier(f, o)) /\ (\A o, p : ~Between(f, o, p))
  BY <1>4, FrameBegins
<1>6. PoolIsStack
  <2>1. HeldCells(1) = << >>
    BY <1>1, <1>5 DEF HeldCells
  <2>2. PICK s, p : s = [d \in DOMAIN frames |-> HeldCells(d)] /\ p = Published
    OBVIOUS
  <2>3. s = [i \in 1..1 |-> << >>]
    BY <1>3, <2>1, <2>2
  <2>4. FlattenSeq(s) = << >>
    BY <2>3, FlattenNothing
  <2>5. p \o << >> = p
    BY <2>2 DEF Published
  <2>6. pool = p \o FlattenSeq(s)
    BY <1>4, <2>2, <2>4, <2>5
  <2> QED
    BY <2>2, <2>6 DEF PoolIsStack
<1>7. TopIsOutermost
  BY <1>1, <1>3, <1>4, <1>5 DEF TopIsOutermost, Resets
<1>8. BufferInUse
  BY <1>4 DEF BufferInUse
<1>9. Len(pool) <= MAX_EXTRA_ROOTS_NUMBER
  <2>1. Len(pool) = 0 \/ Len(pool) = 1
    BY <1>4 DEF Published
  <2>2. MAX_EXTRA_ROOTS_NUMBER \in Nat /\ MAX_EXTRA_ROOTS_NUMBER # 0
    BY RuntimeAssumption
  <2> QED
    BY <2>1, <2>2
<1>10. ObjectAtHand
  <2>1. Null.kind = "raw"
    BY DEF Null, Raw
  <2>2. ~(At_op("fill") /\ cur.fn = "Lclone")
    <3> SUFFICES ASSUME At_op("fill") PROVE FALSE
      OBVIOUS
    <3>1. Body(f)[f.pc].op = "fill"
      BY <1>3 DEF At_op
    <3>2. f.pc \in 1..Len(Body(f)) /\ FillInOrder(Body(f), f.fn)
      BY <1>4 DEF AtStep, InOrder
    <3>3. f.pc > 1
      BY <3>1, <3>2 DEF FillInOrder
    <3> QED
      BY <1>4, <3>3
  <2> QED
    BY <1>3, <1>4, <1>5, <2>1, <2>2 DEF ObjectAtHand, Stale
<1>11. depth = 0 => actual = << >>
  BY <1>3
<1> QED
  BY <1>3, <1>4, <1>6, <1>7, <1>8, <1>9, <1>10, <1>11 DEF RootsInvariant

\* Only RVBstring gets an address, and it only passes it on.
LEMMA WrapperPasses ==
  ASSUME NEW f, f.fn = "RVBstring", NEW k \in 1..Len(Body(f))
  PROVE  Body(f)[k].op \notin {"fill", "same"}
<1>1. PICK B : B = Body(f)
  OBVIOUS
<1>2. PICK w : w = [i \in 1..1 |-> i]
  OBVIOUS
<1>3. B = <<Calls("Bstring", w)>> \o <<Do("return")>>
  BY <1>1, <1>2, BodyOf DEF Wrapper_body, Ret
<1>4. Len(B) = 2 /\ B[1] = Calls("Bstring", w) /\ B[2] = Do("return")
  BY <1>3
<1>5. B[1].op = "call" /\ B[2].op = "return"
  BY <1>4, Operations
<1>6. k = 1 \/ k = 2
  BY <1>1, <1>4
<1> QED
  BY <1>1, <1>5, <1>6

\* The cells as of the arguments ws of fn, where m are its own words and a the
\* arguments that the program has pushed.
ArgumentCells(fn, ws, as, m, a) ==
  /\ a = IF fn \in OwnWords \ {"Ls__Infix_58"} THEN << >> ELSE ws
  /\ fn \in {"Bstring", "RVBstring", "Bsprintf", "Lclone", "Lstring", "RVLstring", "Lstringcat"} => Len(ws) = 1
  /\ fn = "Bsprintf" => as = <<<<1, 1>>>> /\ m = Append(ws, Buffer)
  /\ fn \in OwnWords \ {"Bsprintf"} => as = [k \in DOMAIN ws |-> <<1, k>>] /\ m = ws
  /\ fn \notin OwnWords => as = [k \in DOMAIN ws |-> <<0, k>>]

\* They hold the arguments.
LEMMA CallFrameArgs ==
  ASSUME NEW fn \in Functions, NEW ws \in Seq(Word), NEW as,
         ArgumentCells(fn, ws, as, frames'[1].mem, actual')
  PROVE  /\ DOMAIN as = DOMAIN ws
         /\ \A k \in DOMAIN ws : as[k] \in Reachable(1)' /\ At(as[k])' = ws[k]
<1>1. PICK f : f = frames'[1]
  OBVIOUS
<1>2. PICK m : m = f.mem
  OBVIOUS
<1>3. /\ actual' = IF fn \in OwnWords \ {"Ls__Infix_58"} THEN << >> ELSE ws
      /\ fn \in {"Bstring", "RVBstring", "Bsprintf", "Lclone", "Lstring", "RVLstring", "Lstringcat"} => Len(ws) = 1
      /\ fn = "Bsprintf" => as = <<<<1, 1>>>> /\ m = Append(ws, Buffer)
      /\ fn \in OwnWords \ {"Bsprintf"} => as = [k \in DOMAIN ws |-> <<1, k>>] /\ m = ws
      /\ fn \notin OwnWords => as = [k \in DOMAIN ws |-> <<0, k>>]
  BY <1>1, <1>2 DEF ArgumentCells
<1>4. \A k \in DOMAIN m : <<1, k>> \in Reachable(1)'
  BY <1>1, <1>2 DEF Reachable
<1>5. \A k \in DOMAIN actual' : <<0, k>> \in Reachable(1)'
  BY DEF Reachable
<1>6. PICK n \in Nat : DOMAIN ws = 1..n /\ n = Len(ws)
  OBVIOUS
<1>7. ASSUME NEW k \in DOMAIN ws
      PROVE  At(<<1, k>>)' = m[k] /\ At(<<0, k>>)' = actual'[k]
  <2>1. PICK c, b : c = <<1, k>> /\ b = <<0, k>>
    OBVIOUS
  <2>2. c # SysargsCell /\ c[1] = 1 /\ c[1] # 0 /\ c[2] = k
    BY <2>1 DEF SysargsCell
  <2>3. k # 0
    BY <1>6
  <2>4. b # SysargsCell /\ b[1] = 0 /\ b[2] = k
    BY <2>1, <2>3 DEF SysargsCell
  <2>5. At(c)' = m[k] /\ At(b)' = actual'[k]
    BY <1>1, <1>2, <2>2, <2>4 DEF At
  <2> QED
    BY <2>1, <2>5
<1>8. CASE fn = "Bsprintf"
  <2>1. as = <<<<1, 1>>>> /\ n = 1
    BY <1>6, <1>8, <1>3
  <2>2. PICK b : b = Buffer
    OBVIOUS
  <2>3. m = Append(ws, b) /\ b \in Word
    BY <1>8, <1>3, <2>2 DEF Buffer, Raw, Word
  <2>4. \A k \in DOMAIN ws : k \in DOMAIN Append(ws, b) /\ Append(ws, b)[k] = ws[k]
    BY <2>3
  <2>5. \A k \in DOMAIN ws : k \in DOMAIN m /\ m[k] = ws[k]
    BY <1>6, <2>3, <2>4
  <2>6. DOMAIN as = 1..1 /\ as[1] = <<1, 1>> /\ \A k \in DOMAIN ws : k = 1
    BY <1>6, <2>1
  <2> QED
    BY <1>4, <1>6, <1>7, <2>1, <2>5, <2>6
<1>9. CASE fn \in OwnWords \ {"Bsprintf"}
  <2>1. as = [k \in DOMAIN ws |-> <<1, k>>] /\ m = ws
    BY <1>9, <1>3
  <2> QED
    BY <1>4, <1>7, <2>1
<1>10. CASE fn \notin OwnWords
  <2>1. as = [k \in DOMAIN ws |-> <<0, k>>] /\ actual' = ws
    BY <1>10, <1>3 DEF OwnWords
  <2> QED
    BY <1>5, <1>7, <2>1
<1> QED
  BY <1>8, <1>9, <1>10

\* A call of the program begins in order.
LEMMA CallRuntimeBegins ==
  ASSUME RootsInvariant, CallRuntime
  PROVE  Begun'
<1>1. FramesFit /\ WordsFollow
  BY Conjuncts
<1>2. frames = << >> /\ status = "running"
  BY DEF CallRuntime, Idle
<1>3. pool = Published /\ top = 0 /\ buf = NoBuf /\ Unfilled = {}
  BY <1>2, AtIdle
<1>4. /\ vars' = vars /\ pool' = pool /\ top' = top /\ objs' = objs /\ buf' = buf
      /\ global_sysargs' = global_sysargs /\ status' = status
  BY DEF CallRuntime
<1>5. PICK fn \in Functions, v \in Var : \E in \in Inputs(fn) :
         /\ actual' = IF fn \in OwnWords \ {"Ls__Infix_58"} THEN << >> ELSE in.ws
         /\ frames' = <<Frame(fn, 1, [k \in DOMAIN in.ws |-> <<0, k>>], in.ws, in.n, in.t)>>
  BY DEF CallRuntime
<1>6. PICK in \in Inputs(fn) :
         /\ actual' = IF fn \in OwnWords \ {"Ls__Infix_58"} THEN << >> ELSE in.ws
         /\ frames' = <<CallFrame(fn, in)>>
  BY <1>5 DEF CallFrame
<1>7. PICK f : f = CallFrame(fn, in)
  OBVIOUS
<1>8. /\ f = [fn |-> f.fn, pc |-> f.pc, args |-> f.args, mem |-> f.mem, obj |-> f.obj,
              addr |-> f.addr, n |-> f.n, t |-> f.t, flag |-> f.flag]
      /\ f.fn = fn /\ f.pc = 1 /\ f.obj = Null /\ f.addr = Null /\ f.flag = FALSE
      /\ fn = "Bsprintf" => f.args = <<<<1, 1>>>>
      /\ fn \in OwnWords \ {"Bsprintf"} => f.args = [k \in DOMAIN in.ws |-> <<1, k>>]
      /\ fn \notin OwnWords => f.args = [k \in DOMAIN in.ws |-> <<0, k>>]
      /\ fn = "Bsprintf" => f.mem = Append(in.ws, Buffer)
      /\ fn \in (OwnWords \ {"Bsprintf"}) \cup {"Lclone"} => f.mem = in.ws
      /\ fn \in {"Lstring", "Lstringcat"} => f.mem = <<Buffer>>
      /\ fn \in {"LgetEnv", "LreadLine"} => f.mem = <<Raw(in.t)>>
      /\ fn \notin OwnWords \cup {"Lclone", "Lstring", "Lstringcat", "LgetEnv", "LreadLine"} => f.mem = << >>
      /\ fn \in {"RVBarray", "RVBsexp"} => f.n = Len(in.ws)
      /\ fn = "Lclone" /\ f.t # "int" => ~UNBOXED(in.ws[1])
  <2>1. CallRecord(f, fn, in)
    BY <1>7, CallFrameIs
  <2> QED
    BY <2>1 DEF CallRecord
<1>9. AtStep(f) /\ CallsOf(f)
  BY <1>1, <1>8, CallFrameAtStep
<1>10. \A k \in DOMAIN f.mem : Follows(f.mem[k])
  BY <1>1, <1>8, CallFrameFollows
<1>11. frames' = <<f>> /\ frames'[1] = f /\ DOMAIN frames' = {1} /\ depth' = 1
  BY <1>6, <1>7 DEF depth
<1>12. PICK ws, as : ws = in.ws /\ as = f.args
  OBVIOUS
<1>13. /\ ws \in Seq(Word)
       /\ fn # "RVBstring" => \A k \in DOMAIN ws : IsValue(ws[k], objs)
       /\ fn \in {"LmakeString", "LmakeArray", "LgetEnv", "LreadLine", "Lfread"} => ws = << >>
       /\ fn \in {"Bstring", "RVBstring", "Bsprintf", "Lclone", "Lstring", "RVLstring", "Lstringcat"} => Len(ws) = 1
       /\ fn = "Lsubstring" => Len(ws) = 3
  BY <1>1, <1>12, InputsAre
<1>14. /\ actual' = IF fn \in OwnWords \ {"Ls__Infix_58"} THEN << >> ELSE ws
       /\ fn = "Bsprintf" => as = <<<<1, 1>>>>
       /\ fn \in OwnWords \ {"Bsprintf"} => as = [k \in DOMAIN ws |-> <<1, k>>]
       /\ fn \notin OwnWords => as = [k \in DOMAIN ws |-> <<0, k>>]
  BY <1>6, <1>8, <1>12
<1>15. DOMAIN as = DOMAIN ws /\ \A k \in DOMAIN ws : as[k] \in Reachable(1)' /\ At(as[k])' = ws[k]
  <2>1. PICK m : m = f.mem
    OBVIOUS
  <2>2. /\ fn = "Bsprintf" => as = <<<<1, 1>>>> /\ m = Append(ws, Buffer)
        /\ fn \in OwnWords \ {"Bsprintf"} => as = [k \in DOMAIN ws |-> <<1, k>>] /\ m = ws
    BY <1>8, <1>12, <1>14, <2>1
  <2>3. ArgumentCells(fn, ws, as, m, actual')
    BY <1>13, <1>14, <2>2 DEF ArgumentCells
  <2>4. m = frames'[1].mem
    BY <1>11, <2>1
  <2>5. ArgumentCells(fn, ws, as, frames'[1].mem, actual')
    BY <2>3, <2>4
  <2>6. ws \in Seq(Word)
    BY <1>13
  <2>7. DOMAIN as = DOMAIN ws
    BY <2>5, <2>6, CallFrameArgs
  <2>8. \A k \in DOMAIN ws : as[k] \in Reachable(1)' /\ At(as[k])' = ws[k]
    BY <2>5, <2>6, CallFrameArgs
  <2> QED
    BY <2>7, <2>8
<1>16. as \in Seq(Reachable(1)')
  <2>1. PICK R : R = Reachable(1)'
    OBVIOUS
  <2>2. DOMAIN as = DOMAIN ws /\ \A k \in DOMAIN ws : as[k] \in R
    BY <1>15, <2>1
  <2>3. PICK n \in Nat : DOMAIN ws = 1..n
    <3>1. ws \in Seq(Word)
      BY <1>13
    <3> QED
      BY <3>1
  <2>4. CASE fn = "Bsprintf"
    <3>1. PICK c : c = <<1, 1>>
      OBVIOUS
    <3>2. as = <<c>>
      BY <1>14, <2>4, <3>1
    <3>3. c \in R
      BY <2>2, <3>2
    <3>4. as \in Seq(R)
      BY <3>2, <3>3
    <3> QED
      BY <2>1, <3>4
  <2>5. CASE fn # "Bsprintf"
    <3>1. as = [k \in 1..n |-> as[k]]
      BY <1>14, <2>3, <2>5
    <3>2. \A k \in 1..n : as[k] \in R
      BY <2>2, <2>3
    <3>3. as \in Seq(R)
      <4>1. n \in Nat
        BY <2>3
      <4>2. as \in [1..n -> R]
        BY <3>1, <3>2
      <4>3. as \in UNION {[1..k -> R] : k \in Nat}
        BY <4>1, <4>2, Zenon
      <4> QED
        BY <4>3, SeqDef, Zenon
    <3> QED
      BY <2>1, <3>3
  <2> QED
    BY <2>4, <2>5
<1>17. Later(f, "fill") \/ Later(f, "same") => \A k \in DOMAIN as : Usable(f.fn, At(as[k])')
  <2> SUFFICES ASSUME Later(f, "fill") \/ Later(f, "same"), NEW k \in DOMAIN ws
               PROVE  Usable(f.fn, At(as[k])')
    BY <1>15
  <2>1. fn # "RVBstring"
    <3> SUFFICES ASSUME fn = "RVBstring" PROVE FALSE
      OBVIOUS
    <3>1. \A j \in 1..Len(Body(f)) : Body(f)[j].op \notin {"fill", "same"}
      BY <1>8, WrapperPasses
    <3> QED
      BY <1>8, <3>1 DEF Later
  <2>2. IsValue(ws[k], objs)
    BY <1>13, <2>1
  <2>3. ws[k].kind \in {"int", "object"}
    BY <2>2 DEF IsValue, UNBOXED
  <2>4. Usable(f.fn, ws[k])
    BY <2>3 DEF Usable, Stale
  <2> QED
    BY <1>15, <2>4
<1>18. \A k \in f.pc..Len(Body(f)) :
         Body(f)[k].op = "call" =>
           \A i \in Range(Body(f)[k].is) : i \in DOMAIN f.mem /\ Usable(Body(f)[k].fn, f.mem[i])
  <2> SUFFICES ASSUME NEW k \in 1..Len(Body(f)), Body(f)[k].op = "call", NEW i \in Range(Body(f)[k].is)
               PROVE  i \in DOMAIN f.mem /\ Usable(Body(f)[k].fn, f.mem[i])
    BY <1>8
  <2> QED
    BY <1>1, <1>8, <1>9, CallFramePasses
<1>19. FrameInOrder(1)'
  <2>1. f.pc \in 1..Len(Body(f))
    BY <1>9 DEF AtStep
  <2>2. f = [fn |-> f.fn, pc |-> f.pc, args |-> f.args, mem |-> f.mem, obj |-> f.obj,
             addr |-> f.addr, n |-> f.n, t |-> f.t, flag |-> f.flag]
    BY <1>8
  <2>3. f.fn \in Functions /\ ~(1 < depth') /\ ~(1 > 1)
    BY <1>8, <1>11
  <2>4. frames'[1] = f
    BY <1>11
  <2> QED
    BY <1>12, <1>16, <1>17, <1>18, <2>1, <2>2, <2>3, <2>4 DEF FrameInOrder
<1>20. ArgumentsFit(1)'
  <2>1. frames'[1] = f /\ f.fn = fn /\ fn # "set_args"
    BY <1>8, <1>11, FunctionsAssumption, FixedNames
  <2>2. fn \in {"RVBarray", "RVBsexp"} => f.n \in Nat
    BY <1>8, <1>12, <1>13
  <2>3. fn \in {"LmakeString", "LmakeArray", "Lfread"} => f.args = << >>
    BY <1>12, <1>13, <1>14 DEF OwnWords
  <2>4. fn = "Lsubstring" => Len(f.args) >= 1 /\ \A k \in DOMAIN f.args : f.args[k][1] = 0
    <3> SUFFICES ASSUME fn = "Lsubstring" PROVE Len(as) >= 1 /\ \A k \in DOMAIN as : as[k][1] = 0
      BY <1>12
    <3>1. as = [k \in DOMAIN ws |-> <<0, k>>]
      BY <1>14 DEF OwnWords
    <3>2. ws \in Seq(Word) /\ Len(ws) = 3
      BY <1>13
    <3>3. DOMAIN ws = 1..3
      BY <3>2
    <3> QED
      BY <3>1, <3>3
  <2>5. fn = "Lclone" => f.args = <<<<0, 1>>>> /\ (f.t # "int" => actual'[1].kind = "object")
    <3> SUFFICES ASSUME fn = "Lclone" PROVE as = <<<<0, 1>>>> /\ (f.t # "int" => actual'[1].kind = "object")
      BY <1>12
    <3>1. as = [k \in DOMAIN ws |-> <<0, k>>] /\ DOMAIN ws = 1..1 /\ actual' = ws
      <4>1. as = [k \in DOMAIN ws |-> <<0, k>>] /\ actual' = ws
        BY <1>14 DEF OwnWords
      <4>2. ws \in Seq(Word) /\ Len(ws) = 1
        BY <1>13
      <4>3. DOMAIN ws = 1..1
        BY <4>2
      <4> QED
        BY <4>1, <4>3
    <3>2. as = <<<<0, 1>>>>
      BY <3>1
    <3>3. f.t # "int" => ~UNBOXED(ws[1])
      BY <1>8, <1>12
    <3>4. IsValue(ws[1], objs)
      BY <1>13, <3>1
    <3> QED
      BY <3>1, <3>2, <3>3, <3>4 DEF IsValue
  <2> QED
    BY <2>1, <2>2, <2>3, <2>4, <2>5 DEF ArgumentsFit
<1>21. WordsFollow'
  <2>1. \A d \in DOMAIN frames' : /\ \A k \in DOMAIN frames'[d].mem : Follows(frames'[d].mem[k])
                                  /\ Follows(frames'[d].obj) /\ Follows(frames'[d].addr)
    <3>1. Follows(Null)
      BY DEF Follows, Null, Raw, Word
    <3> QED
      BY <1>8, <1>10, <1>11, <3>1
  <2>2. actual' \in Seq(Word) /\ \A k \in DOMAIN actual' : IsValue(actual'[k], objs)
    <3>1. CASE actual' = << >>
      BY <3>1
    <3>2. CASE actual' # << >>
      <4>1. actual' = ws /\ fn # "RVBstring"
        BY <1>14, <3>2 DEF OwnWords
      <4> QED
        BY <1>13, <4>1
    <3> QED
      BY <3>1, <3>2
  <2>3. (WordsFollow /\ UNCHANGED <<vars, objs, global_sysargs>>) => WordsFollow'
    <3>1. \A w : (Follows(w)' <=> Follows(w)) /\ (IsValue(w, objs') <=> IsValue(w, objs))
      BY <1>4 DEF Follows, IsValue
    <3>2. \A i \in DOMAIN objs :
            /\ IsObject(objs[i])
            /\ \A w \in WordsOf(objs[i]) : Follows(w) /\ IsValue(w, objs)
      BY <1>1, <1>3 DEF WordsFollow
    <3>3. \A i \in DOMAIN objs' :
            /\ IsObject(objs'[i])
            /\ \A w \in WordsOf(objs'[i]) : Follows(w)' /\ (Ref(i) \notin Unfilled' => IsValue(w, objs'))
      BY <1>4, <3>1, <3>2
    <3>4. /\ vars' \in [Var -> Word] /\ \A v1 \in Var : IsValue(vars'[v1], objs')
          /\ IsFiniteSet(DOMAIN objs')
      BY <1>1, <1>4 DEF WordsFollow
    <3>5. actual' \in Seq(Word) /\ \A k \in DOMAIN actual' : IsValue(actual'[k], objs')
      BY <2>2, <3>1
    <3>6. Follows(global_sysargs)' /\ (global_sysargs' = Null \/ global_sysargs'.kind = "object")
      <4>1. Follows(global_sysargs) /\ (global_sysargs = Null \/ global_sysargs.kind = "object")
        BY <1>1 DEF WordsFollow
      <4> QED
        BY <1>4, <4>1 DEF Follows
    <3>7. (\A d \in DOMAIN frames : LET g == frames[d]
                                   IN  /\ \A k \in DOMAIN g.mem : Follows(g.mem[k])
                                       /\ Follows(g.obj) /\ Follows(g.addr))'
      BY <2>1, <3>1 DEF Follows
    <3> QED
      BY <3>3, <3>4, <3>5, <3>6, <3>7 DEF WordsFollow
  <2> QED
    BY <1>1, <1>4, <2>3
<1>22. Published' = Published
  BY <1>4 DEF Published
<1> QED
  BY <1>2, <1>3, <1>4, <1>8, <1>9, <1>11, <1>19, <1>20, <1>21, <1>22 DEF Begun, NoBuf

\* So the calls of the program keep the invariant.
LEMMA CallRuntimeKeeps ==
  ASSUME RootsInvariant, CallRuntime
  PROVE  RootsInvariant'
<1>1. Begun'
  BY CallRuntimeBegins
<1>2. (Begun => RootsInvariant)'
  BY BegunInOrder, PTL
<1> QED
  BY <1>1, <1>2

-----------------------------------------------------------------------------
(* The allocation.                                                         *)

\* The pool consists of the cells that the frames between push_extra_root and
\* pop_extra_root have registered, and of the one for global_sysargs.
LEMMA PoolElements ==
  ASSUME FramesFit, PoolIsStack
  PROVE  /\ pool \in Seq(Registered)
         /\ \A d \in 1..depth : Between(frames[d], "push", "pop") => Range(Registers(d)) \subseteq Range(pool)
         /\ global_sysargs # Null => SysargsCell \in Range(pool)
<1>1. depth \in Nat /\ DOMAIN frames = 1..depth
  BY FramesAtStep
<1>2. PICK S : S = Registered
  OBVIOUS
<1>3. PICK n \in Nat : n = depth
  BY <1>1
<1>4. PICK H : H = [d \in DOMAIN frames |-> HeldCells(d)]
  OBVIOUS
<1>5. H = [d \in 1..n |-> HeldCells(d)]
  BY <1>1, <1>3, <1>4
<1>6. \A d \in 1..n : HeldCells(d) \in Seq(S)
  BY <1>2, <1>3, HeldAre
<1>7. H \in Seq(Seq(S)) /\ DOMAIN H = 1..n
  BY <1>3, <1>5, <1>6
<1>8. PICK q : q = FlattenSeq(H)
  OBVIOUS
<1>9. q \in Seq(S) /\ \A d \in 1..n : \A k \in DOMAIN H[d] : \E j \in DOMAIN q : q[j] = H[d][k]
  <2>1. /\ FlattenSeq(H) \in Seq(S)
        /\ \A d \in DOMAIN H : \A k \in DOMAIN H[d] : \E j \in DOMAIN FlattenSeq(H) : FlattenSeq(H)[j] = H[d][k]
    <3>1. H \in Seq(Seq(S))
      BY <1>7
    <3> QED
      BY <3>1, FlattenElements
  <2> QED
    BY <1>7, <1>8, <2>1
<1>10. PICK p : p = Published
  OBVIOUS
<1>11. p \in Seq(S) /\ (global_sysargs # Null => p = <<SysargsCell>>)
  <2>1. SysargsCell \in S
    BY <1>2 DEF Registered
  <2>2. << >> \in Seq(S) /\ <<SysargsCell>> \in Seq(S)
    BY <2>1
  <2> QED
    BY <1>10, <2>2 DEF Published
<1>12. pool = p \o q
  BY <1>4, <1>8, <1>10 DEF PoolIsStack
<1>13. /\ p \o q \in Seq(S) /\ Len(p \o q) = Len(p) + Len(q)
       /\ \A i \in 1..Len(p) : (p \o q)[i] = p[i]
       /\ \A i \in 1..Len(q) : (p \o q)[Len(p) + i] = q[i]
  BY <1>9, <1>11, Joined
<1>14. PICK a \in Nat, b \in Nat : a = Len(p) /\ b = Len(q) /\ DOMAIN q = 1..b
  BY <1>9, <1>11
<1>15. DOMAIN pool = 1..a + b /\ \A i \in 1..a : pool[i] = p[i]
  BY <1>12, <1>13, <1>14
<1>16. \A i \in 1..b : pool[a + i] = q[i]
  BY <1>12, <1>13, <1>14
<1>17. ASSUME NEW d \in 1..n, Between(frames[d], "push", "pop"), NEW c \in Range(Registers(d))
       PROVE  c \in Range(pool)
  <2>1. H[d] = Registers(d)
    BY <1>5, <1>17 DEF HeldCells
  <2>2. PICK k \in DOMAIN H[d] : c = H[d][k]
    BY <1>17, <2>1 DEF Range
  <2>3. PICK j \in 1..b : q[j] = c
    BY <1>9, <1>14, <2>2
  <2>4. a + j \in 1..a + b
    BY <1>14, <2>3
  <2>5. pool[a + j] = c
    BY <1>16, <2>3
  <2> QED
    BY <1>15, <2>4, <2>5 DEF Range
<1>18. ASSUME global_sysargs # Null
       PROVE  SysargsCell \in Range(pool)
  <2>1. p = <<SysargsCell>>
    BY <1>11, <1>18
  <2>2. a = 1 /\ p[1] = SysargsCell
    BY <1>14, <2>1
  <2>3. 1 \in 1..a /\ 1 \in 1..a + b
    BY <1>14, <2>2
  <2>4. pool[1] = SysargsCell
    BY <1>15, <2>2, <2>3
  <2> QED
    BY <1>15, <2>3, <2>4 DEF Range
<1> QED
  BY <1>2, <1>3, <1>12, <1>13, <1>17, <1>18

\* What the collector finds leads to objects that are there.
LEMMA RootsFollow ==
  ASSUME FramesFit, PoolIsStack, TopIsOutermost, WordsFollow
  PROVE  (\A w \in RootWords : Follows(w)) /\ (\A w \in OtherWords : Follows(w))
<1>1. depth \in Nat /\ DOMAIN frames = 1..depth
  BY FramesAtStep
<1>2. /\ Follows(global_sysargs) /\ actual \in Seq(Word) /\ \A k \in DOMAIN actual : IsValue(actual[k], objs)
      /\ \A v \in Var : IsValue(vars[v], objs)
  BY DEF WordsFollow
<1>3. \A d \in 1..depth : /\ \A k \in DOMAIN frames[d].mem : Follows(frames[d].mem[k])
                          /\ Follows(frames[d].obj) /\ Follows(frames[d].addr)
  BY <1>1 DEF WordsFollow
<1>4. \A w : IsValue(w, objs) => Follows(w)
  BY DEF IsValue, Follows, UNBOXED
<1>5. ASSUME NEW c \in Registered
      PROVE  Follows(At(c))
  <2>1. CASE c = SysargsCell
    BY <1>2, <2>1 DEF At
  <2>2. CASE c # SysargsCell
    <3>1. c \in Reachable(depth)
      BY <1>5, <2>2 DEF Registered
    <3>2. \/ \E k \in DOMAIN actual : c = <<0, k>> /\ At(c) = actual[k]
          \/ \E e \in 1..depth : \E k \in DOMAIN frames[e].mem : c = <<e, k>> /\ At(c) = frames[e].mem[k]
      BY <1>1, <1>2, <3>1, CellValue
    <3> QED
      BY <1>2, <1>3, <1>4, <3>2
  <2> QED
    BY <2>1, <2>2
<1>6. Fixed \subseteq Registered
  <2>1. Range(pool) \subseteq Registered
    <3>1. pool \in Seq(Registered)
      BY PoolElements
    <3> QED
      BY <3>1 DEF Range
  <2>2. top = 0 \/ top \in 1..depth
    BY <1>1 DEF TopIsOutermost
  <2>3. \A d \in 1..(top - 1) : d \in 1..depth
    BY <1>1, <2>2
  <2>4. ASSUME NEW d \in 1..depth, NEW k \in DOMAIN frames[d].mem
        PROVE  <<d, k>> \in Registered
    BY DEF Registered, Reachable
  <2>5. UNION {{<<d, k>> : k \in DOMAIN frames[d].mem} : d \in {e \in 1..(top - 1) : frames[e].fn \notin MallocWords}}
          \subseteq Registered
    BY <2>3, <2>4
  <2>6. {<<0, k>> : k \in DOMAIN actual} \subseteq Registered
    BY DEF Registered, Reachable
  <2> QED
    BY <2>1, <2>5, <2>6 DEF Fixed
<1>7. \A w \in RootWords : Follows(w)
  BY <1>2, <1>4, <1>5, <1>6 DEF RootWords
<1>8. ASSUME NEW w \in OtherWords
      PROVE  Follows(w)
  <2>1. CASE w = global_sysargs
    BY <1>2, <2>1
  <2>2. CASE w # global_sysargs
    <3>1. PICK d \in DOMAIN frames : w \in Range(frames[d].mem) \cup {frames[d].obj, frames[d].addr}
      BY <1>8, <2>2 DEF OtherWords
    <3> QED
      BY <1>1, <1>3, <3>1 DEF Range
  <2> QED
    BY <2>1, <2>2
<1> QED
  BY <1>7, <1>8

\* The least unused identity.
LEMMA LeastIsOne ==
  ASSUME NEW S, S \subseteq Nat, S # {}
  PROVE  Min(S) \in S
BY LeastNumber DEF Min

\* The program's stack and the pool are where the collector looks.
LEMMA FixedCells ==
  Range(pool) \subseteq Fixed /\ \A k \in DOMAIN actual : <<0, k>> \in Fixed
BY DEF Fixed

\* When an object is allocated, what a function will still read is registered, or is
\* no reference; the argument of set_args that will receive the strings is registered.
LEMMA ReadsAre ==
  ASSUME FramesFit, PoolIsStack, At_op("alloc"), NEW d \in 1..depth
  PROVE  LET f == frames[d]
         IN  /\ ~Later(f, "same")
             /\ Later(f, "fill") => \A c \in Range(f.args) : c \in Fixed
             /\ \A k \in f.pc..Len(Body(f)) :
                  Body(f)[k].op = "call" =>
                    \A i \in Range(Body(f)[k].is) : i \in DOMAIN f.mem => f.mem[i].kind = "raw"
             /\ f.fn = "set_args" /\ Earlier(f, "hold") => <<d, 1>> \in Fixed
<1>1. depth \in Nat /\ DOMAIN frames = 1..depth
  BY FramesAtStep
<1>2. PICK f : f = frames[d]
  OBVIOUS
<1>3. PICK B : B = Body(f)
  OBVIOUS
<1>4. FrameInOrder(d) /\ ArgumentsFit(d) /\ AtStep(f)
  BY <1>1, <1>2, FramesAtStep DEF FramesFit
<1>5. /\ f.pc \in 1..Len(B) /\ Len(B) \in Nat
      /\ AllocInOrder(B, f.fn) /\ CallInOrder(B, f.fn) /\ FillInOrder(B, f.fn) /\ Ends(B)
  BY <1>3, <1>4 DEF AtStep, InOrder, Ends
<1>6. CASE d = depth
  <2>1. B[f.pc].op = "alloc"
    BY <1>2, <1>3, <1>6 DEF At_op, cur
  <2>2. /\ ~From(B, f.pc, "call") /\ ~From(B, f.pc, "same")
        /\ From(B, f.pc, "fill") =>
             f.fn \in {"LmakeArray", "Lsubstring"} \/ (f.fn # "set_args" /\ Before(B, f.pc, "push") /\ From(B, f.pc, "pop"))
        /\ B[f.pc + 1].op = "fill" \/ f.fn \in {"LmakeString", "Lsubstring", "Li__Infix_4343"}
    BY <1>5, <2>1 DEF AllocInOrder
  <2>3. f.fn # "set_args"
    <3> SUFFICES ASSUME f.fn = "set_args" PROVE FALSE
      OBVIOUS
    <3>1. f.pc # Len(B)
      BY <1>5, <2>1 DEF Ends
    <3>2. f.pc + 1 \in 1..Len(B)
      BY <1>5, <3>1
    <3> QED
      BY <1>5, <2>2, <3>2 DEF FillInOrder, Filling
  <2>4. ASSUME Later(f, "fill"), NEW c \in Range(f.args)
        PROVE  c \in Fixed
    <3>1. f.fn \in {"LmakeArray", "Lsubstring"} \/ (f.fn # "set_args" /\ Between(f, "push", "pop"))
      BY <1>3, <2>2, <2>4, FrameTerms DEF Inside
    <3>2. CASE f.fn = "LmakeArray"
      BY <1>2, <1>4, <2>4, <3>2 DEF ArgumentsFit, Range
    <3>3. CASE f.fn = "Lsubstring"
      <4>1. c[1] = 0 /\ c \in Reachable(d)
        BY <1>2, <1>4, <2>4, <3>3 DEF ArgumentsFit, FrameInOrder, Range
      <4>2. c \notin UNION {{<<e, k>> : k \in DOMAIN frames[e].mem} : e \in 1..d}
        BY <4>1
      <4> QED
        BY <4>1, <4>2, FixedCells DEF Reachable
    <3>4. CASE f.fn \notin {"set_args", "Lsubstring"} /\ Between(f, "push", "pop")
      <4>1. Registers(d) = f.args
        BY <1>2, <3>4 DEF Registers
      <4>2. Range(Registers(d)) \subseteq Range(pool)
        BY <1>2, <3>4, PoolElements
      <4> QED
        BY <2>4, <4>1, <4>2, FixedCells
    <3> QED
      BY <3>1, <3>2, <3>3, <3>4
  <2>5. ~Later(f, "same")
    BY <1>3, <2>2, FrameTerms
  <2>6. \A k \in f.pc..Len(B) : B[k].op # "call"
    BY <2>2 DEF From
  <2> QED
    BY <1>2, <1>3, <2>3, <2>4, <2>5, <2>6
<1>7. CASE d # depth
  <2>1. d < depth /\ d \in Nat
    BY <1>1, <1>7
  <2>2. PICK j \in 1..Len(B) : j = f.pc - 1 /\ B[j].op = "call" /\ j + 1 = f.pc
    BY <1>2, <1>3, <1>4, <1>5, <2>1 DEF FrameInOrder
  <2>3. /\ ~From(B, f.pc, "same")
        /\ From(B, f.pc, "call") => f.fn = "set_args"
        /\ From(B, f.pc, "fill") =>
             f.fn = "Lfread" \/ (f.fn \notin {"Lsubstring", "set_args"} /\ Before(B, j, "push") /\ From(B, f.pc, "pop"))
    BY <1>5, <2>2 DEF CallInOrder
  <2>4. \A o : Before(B, j, o) => Before(B, f.pc, o)
    BY <2>2, Passing, <1>5
  <2>5. ASSUME Later(f, "fill"), NEW c \in Range(f.args)
        PROVE  c \in Fixed
    <3>1. f.fn = "Lfread" \/ (f.fn \notin {"Lsubstring", "set_args"} /\ Between(f, "push", "pop"))
      BY <1>3, <2>3, <2>4, <2>5, FrameTerms DEF Inside
    <3>2. CASE f.fn = "Lfread"
      BY <1>2, <1>4, <2>5, <3>2 DEF ArgumentsFit, Range
    <3>3. CASE f.fn \notin {"set_args", "Lsubstring"} /\ Between(f, "push", "pop")
      <4>1. Registers(d) = f.args
        BY <1>2, <3>3 DEF Registers
      <4>2. Range(Registers(d)) \subseteq Range(pool)
        BY <1>2, <3>3, PoolElements
      <4> QED
        BY <2>5, <4>1, <4>2, FixedCells
    <3> QED
      BY <3>1, <3>2, <3>3
  <2>6. ~Later(f, "same")
    BY <1>3, <2>3, FrameTerms
  <2>7. ASSUME NEW k \in f.pc..Len(B), B[k].op = "call", NEW i \in Range(B[k].is), i \in DOMAIN f.mem
        PROVE  f.mem[i].kind = "raw"
    <3>1. f.fn = "set_args"
      BY <2>3, <2>7 DEF From
    <3>2. SetArgsInOrder(B, f.n) /\ SysargsFit(f) /\ f.n \in Nat
      BY <1>2, <1>3, <1>4, <3>1, SetArgsAt, SetArgsOutermost
    <3>3. k \in 1..Len(B)
      BY <1>5, <2>7
    <3>4. B[k].fn = "LmakeArray" \/ i \in 2..f.n + 1
      BY <2>7, <3>2, <3>3 DEF SetArgsInOrder
    <3>5. B[k].fn = "LmakeArray" => B[k].is = << >>
      BY <1>5, <2>7, <3>3 DEF CallInOrder, IsCall
    <3>6. i \in 2..f.n + 1
      BY <2>7, <3>4, <3>5 DEF Range
    <3> QED
      BY <3>2, <3>6 DEF SysargsFit
  <2>8. ASSUME f.fn = "set_args", Earlier(f, "hold")
        PROVE  <<d, 1>> \in Fixed
    <3>1. SetArgsInOrder(B, f.n)
      BY <1>2, <1>3, <1>4, <2>8, SetArgsAt
    <3>2. Before(B, f.pc, "hold")
      BY <1>3, <2>8, FrameTerms
    <3>3. Before(B, j, "hold")
      BY <1>5, <2>2, <3>2, Passing
    <3>4. Before(B, j, "push") /\ From(B, f.pc, "pop")
      BY <2>2, <3>1, <3>3 DEF SetArgsInOrder
    <3>5. Between(f, "push", "pop")
      BY <1>3, <2>4, <3>4, FrameTerms DEF Inside
    <3>6. Registers(d) = <<<<d, 1>>>>
      BY <1>2, <2>8 DEF Registers
    <3>7. Range(Registers(d)) \subseteq Range(pool)
      BY <1>2, <3>5, PoolElements
    <3>8. <<d, 1>> \in Range(Registers(d))
      BY <3>6 DEF Range
    <3> QED
      BY <3>7, <3>8, FixedCells
  <2> QED
    BY <1>2, <1>3, <2>5, <2>6, <2>7, <2>8
<1> QED
  BY <1>6, <1>7

\* A record after a collection.
MovedRecord(f, g, d, fixed) ==
  /\ SameCall(f, g) /\ g.pc = f.pc /\ g.flag = f.flag
  /\ g.obj = Unfixed(f.obj) /\ g.addr = Unfixed(f.addr)
  /\ \A k \in DOMAIN f.mem : g.mem[k] = IF <<d, k>> \in fixed THEN f.mem[k] ELSE Unfixed(f.mem[k])

\* Moved makes it.
LEMMA MovedIs ==
  ASSUME NEW f, SameCall(f, f), NEW d, NEW fixed
  PROVE  MovedRecord(f, Moved(f, d, fixed), d, fixed)
<1>1. PICK m : m = [k \in DOMAIN f.mem |-> IF <<d, k>> \in fixed THEN f.mem[k] ELSE Unfixed(f.mem[k])]
  OBVIOUS
<1>2. PICK u, v : u = Unfixed(f.obj) /\ v = Unfixed(f.addr)
  OBVIOUS
<1>3. PICK g : g = [f EXCEPT !.mem = m, !.obj = u, !.addr = v]
  OBVIOUS
<1>4. g = Moved(f, d, fixed)
  BY <1>1, <1>2, <1>3 DEF Moved
<1>5. f = [fn |-> f.fn, pc |-> f.pc, args |-> f.args, mem |-> f.mem, obj |-> f.obj,
           addr |-> f.addr, n |-> f.n, t |-> f.t, flag |-> f.flag]
  BY DEF SameCall
<1>6. g = [fn |-> f.fn, pc |-> f.pc, args |-> f.args, mem |-> m, obj |-> u,
           addr |-> v, n |-> f.n, t |-> f.t, flag |-> f.flag]
  BY <1>3, <1>5
<1>7. /\ g.fn = f.fn /\ g.args = f.args /\ g.n = f.n /\ g.t = f.t /\ g.pc = f.pc /\ g.flag = f.flag
      /\ g.mem = m /\ g.obj = u /\ g.addr = v
      /\ g = [fn |-> g.fn, pc |-> g.pc, args |-> g.args, mem |-> g.mem, obj |-> g.obj,
              addr |-> g.addr, n |-> g.n, t |-> g.t, flag |-> g.flag]
  BY <1>6
<1>8. DOMAIN m = DOMAIN f.mem /\ \A k \in DOMAIN f.mem : m[k] = IF <<d, k>> \in fixed THEN f.mem[k] ELSE Unfixed(f.mem[k])
  BY <1>1
<1>9. SameCall(f, g)
  BY <1>7, <1>8 DEF SameCall
<1>10. /\ g.obj = Unfixed(f.obj) /\ g.addr = Unfixed(f.addr)
       /\ \A k \in DOMAIN f.mem : g.mem[k] = IF <<d, k>> \in fixed THEN f.mem[k] ELSE Unfixed(f.mem[k])
  BY <1>2, <1>7, <1>8
<1>11. g.pc = f.pc /\ g.flag = f.flag
  BY <1>7
<1>12. MovedRecord(f, g, d, fixed)
  BY <1>9, <1>10, <1>11 DEF MovedRecord
<1> QED
  BY <1>4, <1>12

\* A record that goes on with a new object.
LEMMA SteppedIs ==
  ASSUME NEW f, NEW g, SameCall(f, g), NEW r
  PROVE  LET h == [Step(g) EXCEPT !.obj = r]
         IN  /\ SameCall(f, h) /\ h.pc = g.pc + 1 /\ h.flag = g.flag /\ h.mem = g.mem
             /\ h.obj = r /\ h.addr = g.addr
<1> DEFINE h == [Step(g) EXCEPT !.obj = r]
<1>1. g = [fn |-> g.fn, pc |-> g.pc, args |-> g.args, mem |-> g.mem, obj |-> g.obj,
           addr |-> g.addr, n |-> g.n, t |-> g.t, flag |-> g.flag]
  BY DEF SameCall
<1>2. PICK p : p = g.pc + 1
  OBVIOUS
<1>3. h = [fn |-> g.fn, pc |-> p, args |-> g.args, mem |-> g.mem, obj |-> r,
           addr |-> g.addr, n |-> g.n, t |-> g.t, flag |-> g.flag]
  <2>1. PICK s : s = Step(g)
    OBVIOUS
  <2>2. s = [fn |-> g.fn, pc |-> p, args |-> g.args, mem |-> g.mem, obj |-> g.obj,
             addr |-> g.addr, n |-> g.n, t |-> g.t, flag |-> g.flag]
    BY <1>1, <1>2, <2>1 DEF Step
  <2>3. h = [s EXCEPT !.obj = r]
    BY <2>1
  <2> HIDE DEF h
  <2> QED
    BY <2>2, <2>3
<1> HIDE DEF h
<1>4. /\ h.fn = g.fn /\ h.args = g.args /\ h.n = g.n /\ h.t = g.t /\ h.pc = p /\ h.flag = g.flag
      /\ h.mem = g.mem /\ h.obj = r /\ h.addr = g.addr
      /\ h = [fn |-> h.fn, pc |-> h.pc, args |-> h.args, mem |-> h.mem, obj |-> h.obj,
              addr |-> h.addr, n |-> h.n, t |-> h.t, flag |-> h.flag]
  BY <1>3
<1>5. SameCall(f, h)
  BY <1>4 DEF SameCall
<1> QED
  BY <1>2, <1>4, <1>5 DEF h

\* A word of the runtime keeps its object, if K are the objects that are kept, or goes stale.
Survives(w, x, K) == (x = w /\ (w.kind = "object" => w.n \in K)) \/ x = Unfixed(w)

\* What an allocation does: i is the new object.
Allocated(i, K) ==
  /\ i \in Nat /\ i \notin K /\ K \subseteq DOMAIN objs /\ IsFiniteSet(K)
  /\ DOMAIN objs' = K \cup {i} /\ objs'[i] = NewObject /\ \A j \in K : objs'[j] = objs[j]
  /\ \A j \in K : \A w \in WordsOf(objs[j]) : w.kind = "object" => w.n \in K
  /\ \A w \in RootWords : w.kind = "object" => w.n \in K
  /\ Forward("alloc") /\ frames'[depth].obj = Ref(i)
  /\ \A d \in 1..depth :
       /\ frames'[d].flag = frames[d].flag
       /\ \A k \in DOMAIN frames[d].mem : /\ Survives(frames[d].mem[k], frames'[d].mem[k], K)
                                          /\ <<d, k>> \in Fixed => frames'[d].mem[k] = frames[d].mem[k]
       /\ Survives(frames[d].addr, frames'[d].addr, K)
       /\ d # depth => Survives(frames[d].obj, frames'[d].obj, K)
  /\ Survives(global_sysargs, global_sysargs', K)
  /\ SysargsCell \in Fixed => global_sysargs' = global_sysargs

\* alloc does this.
LEMMA AllocDoes ==
  ASSUME RootsInvariant, alloc
  PROVE  \E i, K : Allocated(i, K)
<1>1. FramesFit /\ PoolIsStack /\ TopIsOutermost /\ WordsFollow
  BY Conjuncts
<1>2. At_op("alloc")
  BY DEF alloc
<1>3. /\ depth \in Nat \ {0} /\ depth \in 1..depth /\ DOMAIN frames = 1..depth
      /\ \A d \in 1..depth : SameCall(frames[d], frames[d])
  BY <1>1, <1>2, Running, FramesAtStep
<1>4. PICK collect \in BOOLEAN :
        LET fixed == Fixed
            kept  == Keep(objs, IF collect THEN RootWords ELSE RootWords \cup OtherWords)
            moved == IF collect THEN [d \in DOMAIN frames |-> Moved(frames[d], d, fixed)] ELSE frames
            i     == Min(Ids \ DOMAIN kept)
        IN  /\ Ids \ DOMAIN kept # {}
            /\ objs' = With(i, NewObject, kept)
            /\ frames' = [moved EXCEPT ![depth] = [Step(@) EXCEPT !.obj = Ref(i)]]
            /\ global_sysargs' = IF collect /\ SysargsCell \notin fixed THEN Unfixed(global_sysargs)
                                 ELSE global_sysargs
  BY DEF alloc
<1>5. PICK ws : ws = IF collect THEN RootWords ELSE RootWords \cup OtherWords
  OBVIOUS
<1>6. PICK st : st = Keep(objs, ws)
  OBVIOUS
<1>7. PICK K : K = DOMAIN st
  OBVIOUS
<1>8. PICK i : i = Min(Ids \ K)
  OBVIOUS
<1>9. PICK m : m = IF collect THEN [d \in DOMAIN frames |-> Moved(frames[d], d, Fixed)] ELSE frames
  OBVIOUS
<1>10. /\ Ids \ K # {} /\ objs' = With(i, NewObject, st)
       /\ frames' = [m EXCEPT ![depth] = [Step(@) EXCEPT !.obj = Ref(i)]]
       /\ global_sysargs' = IF collect /\ SysargsCell \notin Fixed THEN Unfixed(global_sysargs) ELSE global_sysargs
  BY <1>4, <1>5, <1>6, <1>7, <1>8, <1>9
<1>11. RootWords \subseteq ws /\ (~collect => OtherWords \subseteq ws) /\ \A w \in ws : Follows(w)
  BY <1>1, <1>5, RootsFollow
<1>12. /\ K \subseteq DOMAIN objs /\ IsFiniteSet(K)
       /\ \A j \in K : st[j] = objs[j]
       /\ \A j \in K : \A w \in WordsOf(objs[j]) : w.kind = "object" => w.n \in K
       /\ \A w \in ws : w.kind = "object" => w.n \in K
  <2>1. \A w \in ws : Follows(w)
    BY <1>11
  <2> QED
    BY <1>1, <1>6, <1>7, <2>1, Kept
<1>13. i \in Nat /\ i \notin K
  <2>1. Ids \ K \subseteq Nat /\ Ids \ K # {}
    BY <1>10, RuntimeAssumption
  <2>2. Min(Ids \ K) \in Ids \ K
    BY <2>1, LeastIsOne
  <2> QED
    BY <1>8, <2>1, <2>2
<1>14. DOMAIN objs' = K \cup {i} /\ objs'[i] = NewObject /\ \A j \in K : objs'[j] = objs[j]
  <2>1. objs' = [j \in K \cup {i} |-> IF j = i THEN NewObject ELSE st[j]]
    BY <1>7, <1>10 DEF With
  <2> QED
    BY <1>12, <1>13, <2>1
<1>15. DOMAIN m = 1..depth
  BY <1>3, <1>9
<1>16. ASSUME NEW d \in 1..depth
       PROVE  /\ SameCall(frames[d], m[d]) /\ m[d].pc = frames[d].pc /\ m[d].flag = frames[d].flag
              /\ \A k \in DOMAIN frames[d].mem :
                   /\ Survives(frames[d].mem[k], m[d].mem[k], K)
                   /\ <<d, k>> \in Fixed => m[d].mem[k] = frames[d].mem[k]
              /\ Survives(frames[d].addr, m[d].addr, K) /\ Survives(frames[d].obj, m[d].obj, K)
  <2>1. PICK f : f = frames[d]
    OBVIOUS
  <2>2. SameCall(f, f)
    BY <1>3, <2>1
  <2>3. \A k \in DOMAIN f.mem : <<d, k>> \in Fixed => (f.mem[k].kind = "object" => f.mem[k].n \in K)
    <3> SUFFICES ASSUME NEW k \in DOMAIN f.mem, <<d, k>> \in Fixed, f.mem[k].kind = "object"
                 PROVE  f.mem[k].n \in K
      OBVIOUS
    <3>1. PICK c : c = <<d, k>>
      OBVIOUS
    <3>2. c # SysargsCell /\ c[1] # 0 /\ c[1] = d /\ c[2] = k
      BY <1>3, <3>1 DEF SysargsCell
    <3>3. At(c) = f.mem[k]
      BY <2>1, <3>2 DEF At
    <3>4. At(c) \in RootWords
      BY <3>1 DEF RootWords
    <3> QED
      BY <1>11, <1>12, <3>3, <3>4
  <2>4. CASE collect
    <3>1. m[d] = Moved(f, d, Fixed)
      BY <1>3, <1>9, <2>1, <2>4
    <3>2. MovedRecord(f, m[d], d, Fixed)
      BY <2>2, <3>1, MovedIs
    <3> QED
      BY <2>1, <2>3, <3>2 DEF Survives, MovedRecord
  <2>5. CASE ~collect
    <3>1. m[d] = f
      BY <1>9, <2>1, <2>5
    <3>2. Range(f.mem) \cup {f.obj, f.addr} \subseteq OtherWords
      BY <1>3, <2>1 DEF OtherWords
    <3>3. \A w \in Range(f.mem) \cup {f.obj, f.addr} : w.kind = "object" => w.n \in K
      BY <1>11, <1>12, <2>5, <3>2
    <3>4. \A k \in DOMAIN f.mem : f.mem[k] \in Range(f.mem)
      BY DEF Range
    <3> QED
      BY <2>1, <2>2, <3>1, <3>3, <3>4 DEF Survives
  <2> QED
    BY <2>4, <2>5
<1>17. \A d \in 1..depth : d # depth => frames'[d] = m[d]
  BY <1>10, <1>15
<1>18. frames'[depth] = [Step(m[depth]) EXCEPT !.obj = Ref(i)] /\ DOMAIN frames' = 1..depth
  BY <1>3, <1>10, <1>15
<1>19. /\ SameCall(frames[depth], frames'[depth]) /\ frames'[depth].pc = frames[depth].pc + 1
       /\ frames'[depth].flag = m[depth].flag /\ frames'[depth].mem = m[depth].mem
       /\ frames'[depth].obj = Ref(i) /\ frames'[depth].addr = m[depth].addr
  <2>1. SameCall(frames[depth], m[depth]) /\ m[depth].pc = frames[depth].pc
    BY <1>3, <1>16
  <2> QED
    BY <1>18, <2>1, SteppedIs
<1>20. Forward("alloc")
  <2>1. frames' = [d \in 1..depth |-> frames'[d]]
    BY <1>10, <1>15
  <2>2. frames' \in Seq(Range(frames')) /\ Len(frames') = depth
    <3>1. PICK s, n : s = frames' /\ n = depth
      OBVIOUS
    <3>2. s = [d \in 1..n |-> s[d]] /\ n \in Nat
      BY <1>3, <2>1, <3>1
    <3>3. s \in Seq(Range(s)) /\ Len(s) = n
      <4>1. \A d \in 1..n : s[d] \in Range(s)
        BY <3>2 DEF Range
      <4> QED
        BY <3>2, <4>1
    <3> QED
      BY <3>1, <3>3
  <2>3. depth' = depth
    BY <2>2 DEF depth
  <2>4. \A d \in 1..depth : SameCall(frames[d], frames'[d])
    BY <1>16, <1>17, <1>19
  <2>5. \A d \in 1..depth : frames'[d].pc = IF d = depth THEN frames[d].pc + 1 ELSE frames[d].pc
    BY <1>16, <1>17, <1>19
  <2> QED
    BY <1>2, <1>3, <1>18, <2>2, <2>3, <2>4, <2>5 DEF Forward
<1>21. Survives(global_sysargs, global_sysargs', K) /\ (SysargsCell \in Fixed => global_sysargs' = global_sysargs)
  <2>1. SysargsCell \in Fixed => global_sysargs \in RootWords
    <3>1. At(SysargsCell) = global_sysargs
      BY DEF At
    <3> QED
      BY <3>1 DEF RootWords
  <2>2. global_sysargs \in OtherWords
    BY DEF OtherWords
  <2>3. ~collect \/ SysargsCell \in Fixed => (global_sysargs.kind = "object" => global_sysargs.n \in K)
    BY <1>11, <1>12, <2>1, <2>2
  <2> QED
    BY <1>10, <2>3 DEF Survives
<1>22. \A d \in 1..depth :
         /\ frames'[d].flag = frames[d].flag
         /\ \A k \in DOMAIN frames[d].mem : /\ Survives(frames[d].mem[k], frames'[d].mem[k], K)
                                            /\ <<d, k>> \in Fixed => frames'[d].mem[k] = frames[d].mem[k]
         /\ Survives(frames[d].addr, frames'[d].addr, K)
         /\ d # depth => Survives(frames[d].obj, frames'[d].obj, K)
  BY <1>16, <1>17, <1>19
<1>23. \A w \in RootWords : w.kind = "object" => w.n \in K
  BY <1>11, <1>12
<1>24. Allocated(i, K)
  BY <1>12, <1>13, <1>14, <1>19, <1>20, <1>21, <1>22, <1>23 DEF Allocated
<1> QED
  BY <1>24

\* The arguments of the program are registered as soon as they are published.
LEMMA AllocSysargs ==
  ASSUME FramesFit, PoolIsStack, NEW i, NEW K, Allocated(i, K)
  PROVE  global_sysargs' = global_sysargs
<1>1. /\ Survives(global_sysargs, global_sysargs', K)
      /\ SysargsCell \in Fixed => global_sysargs' = global_sysargs
  BY DEF Allocated
<1>2. CASE global_sysargs = Null
  BY <1>1, <1>2 DEF Survives, Unfixed, Null, Raw
<1>3. CASE global_sysargs # Null
  BY <1>1, <1>3, PoolElements, FixedCells
<1> QED
  BY <1>2, <1>3

\* A cell that the collector finds keeps its word.
LEMMA AllocCells ==
  ASSUME actual \in Seq(Word), actual' = actual, NEW i, NEW K, Allocated(i, K), depth \in Nat,
         NEW c \in Reachable(depth), c \in Fixed
  PROVE  At(c)' = At(c)
<1>1. CASE c \in {<<0, k>> : k \in DOMAIN actual}
  <2>1. PICK k \in DOMAIN actual : c = <<0, k>>
    BY <1>1
  <2>2. k # 0
    <3>1. DOMAIN actual = 1..Len(actual) /\ Len(actual) \in Nat
      OBVIOUS
    <3> QED
      BY <3>1
  <2>3. c # SysargsCell /\ c[1] = 0 /\ c[2] = k
    BY <2>1, <2>2 DEF SysargsCell
  <2> QED
    BY <2>3 DEF At
<1>2. CASE c \notin {<<0, k>> : k \in DOMAIN actual}
  <2>1. PICK e \in 1..depth : c \in {<<e, k>> : k \in DOMAIN frames[e].mem}
    BY <1>2 DEF Reachable
  <2>2. PICK k \in DOMAIN frames[e].mem : c = <<e, k>>
    BY <2>1
  <2>3. e # 0
    OBVIOUS
  <2>4. c # SysargsCell /\ c[1] # 0 /\ c[1] = e /\ c[2] = k
    BY <2>2, <2>3 DEF SysargsCell
  <2>5. frames'[e].mem[k] = frames[e].mem[k]
    BY <2>2 DEF Allocated
  <2> QED
    BY <2>4, <2>5 DEF At
<1> QED
  BY <1>1, <1>2

\* The frames stay in order: what they will still read has not moved.
LEMMA AllocFramesFit ==
  ASSUME FramesFit, PoolIsStack, WordsFollow, At_op("alloc"), actual' = actual, NEW i, NEW K, Allocated(i, K)
  PROVE  FramesFit'
<1>1. Forward("alloc")
  BY DEF Allocated
<1>2. PICK o : o = "alloc"
  OBVIOUS
<1>3. Forward(o) /\ o # "return" /\ o # "hold" /\ o # "fill"
  BY <1>1, <1>2
<1>4. depth \in Nat \ {0} /\ DOMAIN frames = 1..depth
  BY <1>3, ForwardFrames
<1>5. actual \in Seq(Word)
  BY DEF WordsFollow
<1>6. ASSUME NEW d \in 1..depth
      PROVE  ReadsKept(d) /\ (frames[d].fn = "set_args" => SysargsFit(frames[d])')
  <2>1. PICK f : f = frames[d]
    OBVIOUS
  <2>2. PICK g : g = frames'[d]
    OBVIOUS
  <2>3. PICK B : B = Body(f)
    OBVIOUS
  <2>4. /\ ~Later(f, "same")
        /\ Later(f, "fill") => \A c \in Range(f.args) : c \in Fixed
        /\ \A k \in f.pc..Len(B) :
             B[k].op = "call" => \A j \in Range(B[k].is) : j \in DOMAIN f.mem => f.mem[j].kind = "raw"
        /\ f.fn = "set_args" /\ Earlier(f, "hold") => <<d, 1>> \in Fixed
    BY <2>1, <2>3, ReadsAre
  <2>5. /\ \A x : Later(g, x) => Later(f, x)
        /\ \A x : x # o => (Earlier(g, x) <=> Earlier(f, x))
    BY <1>3, <2>1, <2>2, ForwardFrames, ForwardStep
  <2>6. g.pc = f.pc \/ g.pc = f.pc + 1
    BY <1>1, <2>1, <2>2 DEF Forward
  <2>7. f.pc \in 1..Len(B) /\ Len(B) \in Nat
    BY <1>4, <2>1, <2>3, FramesAtStep DEF AtStep, InOrder, Ends
  <2>8. \A k \in g.pc..Len(B) : k \in f.pc..Len(B)
    BY <2>6, <2>7
  <2>9. \A k \in DOMAIN f.mem : /\ Survives(f.mem[k], g.mem[k], K)
                                /\ <<d, k>> \in Fixed => g.mem[k] = f.mem[k]
    BY <2>1, <2>2 DEF Allocated
  <2>10. \A k \in DOMAIN f.mem : f.mem[k].kind = "raw" => g.mem[k] = f.mem[k]
    BY <2>9 DEF Survives, Unfixed
  <2>11. ReadsKept(d)
    <3>1. ASSUME Later(g, "fill") \/ Later(g, "same"), NEW c \in Range(f.args)
          PROVE  At(c)' = At(c)
      <4>1. c \in Fixed
        BY <2>4, <2>5, <3>1
      <4>2. FrameInOrder(d)
        BY <1>4 DEF FramesFit
      <4>3. c \in Reachable(d)
        BY <2>1, <3>1, <4>2 DEF FrameInOrder, Range
      <4>4. 1..d \subseteq 1..depth
        BY <1>4
      <4>5. c \in Reachable(depth)
        BY <4>3, <4>4 DEF Reachable
      <4>6. depth \in Nat
        BY <1>4
      <4> QED
        BY <1>5, <4>1, <4>5, <4>6, AllocCells
    <3>2. \A k \in g.pc..Len(B) :
            B[k].op = "call" => \A j \in Range(B[k].is) : j \in DOMAIN f.mem => g.mem[j] = f.mem[j]
      BY <2>4, <2>8, <2>10
    <3> QED
      BY <2>1, <2>2, <2>3, <3>1, <3>2 DEF ReadsKept
  <2>12. ASSUME f.fn = "set_args"
         PROVE  SysargsFit(g)'
    <3>1. SysargsFit(f)
      BY <2>1, <2>12, SetArgsOutermost
    <3>2. f.n \in Nat
      BY <1>4, <2>1, <2>12, FramesAtStep, SetArgsAt
    <3>3. DOMAIN g.mem = DOMAIN f.mem /\ g.n = f.n
      BY <1>1, <2>1, <2>2 DEF Forward, SameCall
    <3>4. \A k \in 2..f.n + 1 : g.mem[k].kind = "raw"
      <4>1. \A k \in 2..f.n + 1 : k \in DOMAIN f.mem /\ f.mem[k].kind = "raw"
        BY <3>1, <3>2 DEF SysargsFit
      <4> QED
        BY <2>10, <4>1
    <3>5. d = 1 /\ 1 \in DOMAIN f.mem
      BY <2>1, <2>12, <3>1, <3>2, SetArgsOutermost DEF SysargsFit
    <3>6. IF Earlier(g, "hold") THEN g.mem[1].kind = "object" ELSE g.mem[1] = Null
      <4>1. CASE Earlier(f, "hold")
        <5>1. g.mem[1] = f.mem[1]
          BY <2>4, <2>9, <2>12, <3>5, <4>1
        <5> QED
          BY <1>3, <2>5, <3>1, <4>1, <5>1 DEF SysargsFit
      <4>2. CASE ~Earlier(f, "hold")
        <5>1. f.mem[1] = Null
          BY <3>1, <4>2 DEF SysargsFit
        <5>2. g.mem[1] = Null
          BY <2>10, <3>5, <5>1 DEF Null, Raw
        <5> QED
          BY <1>3, <2>5, <4>2, <5>2
      <4> QED
        BY <4>1, <4>2
    <3>7. Later(g, "publish") => global_sysargs' = Null
      BY <2>5, <3>1, AllocSysargs DEF SysargsFit
    <3> QED
      BY <3>1, <3>3, <3>4, <3>6, <3>7 DEF SysargsFit
  <2> QED
    BY <2>1, <2>2, <2>11, <2>12
<1> QED
  BY <1>3, <1>6, FramesFitStep

\* A word leads to an object of the next state, if to any.
FollowsNext(w) == w \in Word /\ (w.kind = "object" => w.n \in DOMAIN objs')

\* A word that survives leads to an object that has been kept.
LEMMA SurvivorsFollow ==
  ASSUME NEW w, NEW x, NEW K, Follows(w), Survives(w, x, K), K \subseteq DOMAIN objs'
  PROVE  FollowsNext(x)
BY DEF Follows, FollowsNext, Survives, Unfixed, Word

\* The new object has no words yet, except where a function is about to fill it.
LEMMA NewObjectIs ==
  /\ IsObject(NewObject)
  /\ \A w \in WordsOf(NewObject) : w = Null
  /\ cur.fn \in {"LmakeString", "Lsubstring", "Li__Infix_4343"} => WordsOf(NewObject) = {}
<1>1. \A k, t, es : Obj(k, t, es).kind = k /\ Obj(k, t, es).elems = es /\ IsObject(Obj(k, t, es))
  BY DEF Obj, IsObject
<1>2. PICK es : es = [j \in 1..cur.n |-> Null]
  OBVIOUS
<1>3. \A w \in Range(es) : w = Null
  BY <1>2 DEF Range
<1>4. CASE cur.fn \in {"LmakeString", "Lsubstring", "Li__Infix_4343"}
  <2>1. NewObject = Obj("STRING", 0, Zeros(cur.n))
    BY <1>4 DEF NewObject
  <2> QED
    BY <1>1, <2>1 DEF WordsOf
<1>5. CASE cur.fn \notin {"LmakeString", "Lsubstring", "Li__Infix_4343"}
  <2>1. \E k : NewObject = Obj(k, 0, es)
    BY <1>2, <1>5 DEF NewObject
  <2> QED
    BY <1>1, <1>3, <1>5, <2>1 DEF WordsOf
<1> QED
  BY <1>4, <1>5

\* It is filled next, or it is a string.
LEMMA AllocNext ==
  ASSUME FramesFit, At_op("alloc"), NEW i, NEW K, Allocated(i, K), status' = "running"
  PROVE  /\ depth' = depth /\ depth \in Nat \ {0} /\ depth \in DOMAIN frames'
         /\ cur' = frames'[depth] /\ cur'.obj = Ref(i) /\ cur'.fn = cur.fn
         /\ At_op("fill")' \/ cur.fn \in {"LmakeString", "Lsubstring", "Li__Infix_4343"}
         /\ Between(cur, "PRE_GC", "POST_GC")
<1>1. Forward("alloc") /\ frames'[depth].obj = Ref(i)
  BY DEF Allocated
<1>2. PICK o : o = "alloc"
  OBVIOUS
<1>3. Forward(o) /\ o # "return"
  BY <1>1, <1>2
<1>4. /\ depth \in Nat \ {0} /\ depth \in 1..depth /\ DOMAIN frames = 1..depth /\ DOMAIN frames' = 1..depth
      /\ Body(frames'[depth]) = Body(frames[depth])
  BY <1>3, ForwardFrames
<1>5. /\ depth' = depth /\ SameCall(frames[depth], frames'[depth]) /\ frames'[depth].pc = frames[depth].pc + 1
  BY <1>1, <1>4 DEF Forward
<1>6. cur = frames[depth] /\ cur' = frames'[depth]
  BY <1>5 DEF cur
<1>7. PICK B : B = Body(cur)
  OBVIOUS
<1>8. B[cur.pc].op = "alloc" /\ cur.pc \in 1..Len(B) /\ AllocInOrder(B, cur.fn)
  BY <1>4, <1>6, <1>7, FramesAtStep DEF At_op, AtStep, InOrder
<1>9. B[cur.pc + 1].op = "fill" \/ cur.fn \in {"LmakeString", "Lsubstring", "Li__Infix_4343"}
  BY <1>8 DEF AllocInOrder
<1>10. Before(B, cur.pc, "PRE_GC") /\ From(B, cur.pc, "POST_GC")
  BY <1>8 DEF AllocInOrder
<1>11. Between(cur, "PRE_GC", "POST_GC")
  BY <1>7, <1>10, FrameTerms DEF Inside
<1>12. At_op("fill")' <=> B[cur.pc + 1].op = "fill"
  <2>1. depth' > 0
    BY <1>4, <1>5
  <2>2. Body(cur') = B /\ cur'.pc = cur.pc + 1
    BY <1>4, <1>5, <1>6, <1>7
  <2> QED
    BY <2>1, <2>2 DEF At_op
<1> QED
  BY <1>1, <1>4, <1>5, <1>6, <1>9, <1>11, <1>12 DEF SameCall

\* Every word leads to an object of the new heap, or is stale.
LEMMA AllocWords ==
  ASSUME FramesFit, PoolIsStack, WordsFollow, At_op("alloc"), NEW i, NEW K, Allocated(i, K), status' = "running",
         vars' = vars, actual' = actual
  PROVE  WordsFollow'
<1>1. /\ i \in Nat /\ i \notin K /\ K \subseteq DOMAIN objs /\ IsFiniteSet(K)
      /\ DOMAIN objs' = K \cup {i} /\ objs'[i] = NewObject /\ \A j \in K : objs'[j] = objs[j]
      /\ \A j \in K : \A w \in WordsOf(objs[j]) : w.kind = "object" => w.n \in K
      /\ \A w \in RootWords : w.kind = "object" => w.n \in K
  BY DEF Allocated
<1>2. /\ depth' = depth /\ depth \in Nat \ {0} /\ depth \in DOMAIN frames'
      /\ cur' = frames'[depth] /\ cur'.obj = Ref(i)
      /\ At_op("fill")' \/ cur.fn \in {"LmakeString", "Lsubstring", "Li__Infix_4343"}
  BY AllocNext
<1>3. Unfilled = {}
  BY DEF At_op, Unfilled
<1>4. /\ vars \in [Var -> Word] /\ \A v \in Var : IsValue(vars[v], objs)
      /\ actual \in Seq(Word) /\ \A k \in DOMAIN actual : IsValue(actual[k], objs)
      /\ \A j \in DOMAIN objs : IsObject(objs[j]) /\ \A w \in WordsOf(objs[j]) : IsValue(w, objs)
      /\ Follows(global_sysargs) /\ (global_sysargs = Null \/ global_sysargs.kind = "object")
      /\ \A d \in DOMAIN frames : /\ \A k \in DOMAIN frames[d].mem : Follows(frames[d].mem[k])
                                  /\ Follows(frames[d].obj) /\ Follows(frames[d].addr)
  BY <1>3 DEF WordsFollow
<1>5. \A w : IsValue(w, objs) /\ (w.kind = "object" => w.n \in K) => IsValue(w, objs')
  BY <1>1 DEF IsValue
<1>6. \A w : IsValue(w, objs') => Follows(w)'
  BY DEF Follows, IsValue, UNBOXED
<1>7. \A v \in Var : IsValue(vars'[v], objs')
  <2>1. \A v \in Var : vars[v] \in RootWords
    BY DEF RootWords
  <2> QED
    BY <1>1, <1>4, <1>5, <2>1
<1>8. ASSUME NEW k \in DOMAIN actual
      PROVE  IsValue(actual'[k], objs')
  <2>1. PICK c : c = <<0, k>>
    OBVIOUS
  <2>2. k # 0
    <3>1. DOMAIN actual = 1..Len(actual) /\ Len(actual) \in Nat
      BY <1>4
    <3> QED
      BY <3>1
  <2>3. c # SysargsCell /\ c[1] = 0 /\ c[2] = k
    BY <2>1, <2>2 DEF SysargsCell
  <2>4. At(c) = actual[k]
    BY <2>3 DEF At
  <2>5. c \in Fixed
    BY <2>1, FixedCells
  <2>6. actual[k] \in RootWords
    BY <2>4, <2>5 DEF RootWords
  <2> QED
    BY <1>1, <1>4, <1>5, <2>6
<1>9. IsFiniteSet(DOMAIN objs')
  BY <1>1, FS_AddElement
<1>10. ASSUME NEW j \in DOMAIN objs'
       PROVE  /\ IsObject(objs'[j])
              /\ \A w \in WordsOf(objs'[j]) : Follows(w)' /\ (Ref(j) \notin Unfilled' => IsValue(w, objs'))
  <2>1. CASE j \in K
    BY <1>1, <1>4, <1>5, <1>6, <2>1
  <2>2. CASE j = i
    <3>1. IsObject(objs'[i]) /\ \A w \in WordsOf(objs'[i]) : w = Null
      BY <1>1, NewObjectIs
    <3>2. Follows(Null)'
      BY DEF Follows, Null, Raw, Word
    <3>3. CASE At_op("fill")'
      <4>1. Ref(i) \in Unfilled'
        BY <1>2, <3>3 DEF Unfilled
      <4> QED
        BY <2>2, <3>1, <3>2, <4>1
    <3>4. CASE cur.fn \in {"LmakeString", "Lsubstring", "Li__Infix_4343"}
      <4>1. WordsOf(objs'[i]) = {}
        BY <1>1, <3>4, NewObjectIs
      <4> QED
        BY <2>2, <3>1, <4>1
    <3> QED
      BY <1>2, <3>3, <3>4
  <2> QED
    BY <1>1, <2>1, <2>2
<1>11. Follows(global_sysargs)' /\ (global_sysargs' = Null \/ global_sysargs'.kind = "object")
  <2>1. global_sysargs' = global_sysargs
    BY AllocSysargs
  <2>2. CASE global_sysargs = Null
    BY <2>1, <2>2 DEF Follows, Null, Raw, Word
  <2>3. CASE global_sysargs # Null
    <3>1. SysargsCell \in Fixed
      BY <2>3, PoolElements, FixedCells
    <3>2. At(SysargsCell) = global_sysargs
      BY DEF At
    <3>3. global_sysargs \in RootWords
      BY <3>1, <3>2 DEF RootWords
    <3> QED
      BY <1>1, <1>4, <2>1, <3>3 DEF Follows
  <2> QED
    BY <2>2, <2>3
<1>12. DOMAIN frames = 1..depth /\ DOMAIN frames' = 1..depth
  BY FramesAtStep DEF Allocated, Forward
<1>13. K \subseteq DOMAIN objs'
  BY <1>1
<1>14. ASSUME NEW d \in 1..depth
       PROVE  /\ \A k \in DOMAIN frames'[d].mem : FollowsNext(frames'[d].mem[k])
              /\ FollowsNext(frames'[d].obj) /\ FollowsNext(frames'[d].addr)
  <2>1. /\ \A k \in DOMAIN frames[d].mem : Follows(frames[d].mem[k])
        /\ Follows(frames[d].obj) /\ Follows(frames[d].addr)
    BY <1>4, <1>12
  <2>2. /\ \A k \in DOMAIN frames[d].mem : Survives(frames[d].mem[k], frames'[d].mem[k], K)
        /\ Survives(frames[d].addr, frames'[d].addr, K)
        /\ d # depth => Survives(frames[d].obj, frames'[d].obj, K)
    BY DEF Allocated
  <2>3. DOMAIN frames'[d].mem = DOMAIN frames[d].mem
    BY DEF Allocated, Forward, SameCall
  <2>4. \A w, x : Follows(w) /\ Survives(w, x, K) => FollowsNext(x)
    BY <1>13, SurvivorsFollow
  <2>5. d = depth => FollowsNext(frames'[d].obj)
    <3>1. i \in DOMAIN objs' /\ i \in Int
      BY <1>1
    <3>2. FollowsNext(Ref(i))
      BY <3>1 DEF FollowsNext, Ref, Word
    <3> QED
      BY <1>2, <3>2
  <2> QED
    BY <2>1, <2>2, <2>3, <2>4, <2>5
<1>15. (\A d \in DOMAIN frames : LET f == frames[d]
                                IN  /\ \A k \in DOMAIN f.mem : Follows(f.mem[k])
                                    /\ Follows(f.obj) /\ Follows(f.addr))'
  BY <1>12, <1>14 DEF Follows, FollowsNext
<1> QED
  BY <1>4, <1>7, <1>8, <1>9, <1>10, <1>11, <1>15 DEF WordsFollow

\* The new object is at hand, and is none of those that there were.
LEMMA AllocObject ==
  ASSUME FramesFit, WordsFollow, At_op("alloc"), NEW i, NEW K, Allocated(i, K), status' = "running",
         actual' = actual
  PROVE  ObjectAtHand'
<1>1. /\ depth' = depth /\ depth \in Nat \ {0} /\ cur' = frames'[depth] /\ cur'.obj = Ref(i) /\ cur'.fn = cur.fn
  BY AllocNext
<1>2. i \in Nat /\ i \notin K /\ i \in DOMAIN objs' /\ \A w \in RootWords : w.kind = "object" => w.n \in K
  BY DEF Allocated
<1>3. IsValue(Ref(i), objs') /\ ~Stale(Ref(i)) /\ Ref(i).kind = "object" /\ Ref(i).n = i
  <2>1. i \in Int
    BY <1>2
  <2> QED
    BY <1>2, <2>1 DEF IsValue, Stale, Ref, Word
<1>4. cur.fn = "Lclone" => Ref(i) # actual[1]
  <2> SUFFICES ASSUME cur.fn = "Lclone", Ref(i) = actual[1]
               PROVE  FALSE
    OBVIOUS
  <2>1. depth \in 1..depth /\ depth \in DOMAIN frames /\ cur = frames[depth]
    BY Running
  <2>2. FrameInOrder(depth) /\ ArgumentsFit(depth)
    BY <2>1 DEF FramesFit
  <2>3. cur.args = <<<<0, 1>>>> /\ cur.args \in Seq(Reachable(depth))
    BY <2>1, <2>2 DEF FrameInOrder, ArgumentsFit
  <2>4. PICK c : c = <<0, 1>>
    OBVIOUS
  <2>5. c \in Reachable(depth)
    BY <2>3, <2>4
  <2>6. c[1] = 0 /\ c[2] = 1 /\ c # SysargsCell
    BY <2>4 DEF SysargsCell
  <2>7. c \notin UNION {{<<e, k>> : k \in DOMAIN frames[e].mem} : e \in 1..depth}
    BY <2>6
  <2>8. c \in {<<0, k>> : k \in DOMAIN actual}
    BY <2>5, <2>7 DEF Reachable
  <2>9. c \in Fixed
    BY <2>8, FixedCells
  <2>10. At(c) = actual[1]
    BY <2>6 DEF At
  <2>11. actual[1] \in RootWords
    BY <2>9, <2>10 DEF RootWords
  <2> QED
    BY <1>2, <1>3, <2>11
<1> QED
  BY <1>1, <1>3, <1>4 DEF ObjectAtHand

\* alloc.
LEMMA AllocKeeps ==
  ASSUME RootsInvariant, alloc
  PROVE  RootsInvariant'
<1>1. /\ status \in {"running", "failed"} /\ Len(pool) <= MAX_EXTRA_ROOTS_NUMBER
      /\ FramesFit /\ PoolIsStack /\ TopIsOutermost /\ BufferInUse /\ WordsFollow /\ ObjectAtHand
  BY Conjuncts
<1>2. /\ At_op("alloc") /\ vars' = vars /\ actual' = actual /\ pool' = pool /\ top' = top /\ buf' = buf
      /\ status' = IF top = 0 THEN "broken" ELSE status
  BY DEF alloc
<1>3. status = "running" /\ top # 0
  <2>1. cur = frames[depth] /\ depth \in 1..depth /\ AtStep(cur) /\ OpOf(cur) = "alloc" /\ DOMAIN frames = 1..depth
    BY <1>1, <1>2, Running, FramesAtStep
  <2>2. Before(Body(cur), cur.pc, "PRE_GC") /\ From(Body(cur), cur.pc, "POST_GC")
    BY <2>1 DEF AtStep, InOrder, AllocInOrder, OpOf
  <2>3. Between(frames[depth], "PRE_GC", "POST_GC")
    BY <2>1, <2>2, FrameTerms DEF Inside
  <2> QED
    BY <1>1, <1>2, <2>1, <2>3 DEF TopIsOutermost, At_op
<1>4. status' = "running"
  BY <1>2, <1>3
<1>5. PICK i, K : Allocated(i, K)
  BY AllocDoes
<1>6. Forward("alloc") /\ \A d \in 1..depth : frames'[d].flag = frames[d].flag
  BY <1>5 DEF Allocated
<1>7. global_sysargs' = global_sysargs
  BY <1>1, <1>5, AllocSysargs
<1>8. Published' = Published
  BY <1>7 DEF Published
<1>9. FramesFit'
  BY <1>1, <1>2, <1>5, AllocFramesFit
<1>10. WordsFollow'
  BY <1>1, <1>2, <1>4, <1>5, AllocWords
<1>11. ObjectAtHand'
  BY <1>1, <1>2, <1>4, <1>5, AllocObject
<1>12. PICK o : o = "alloc"
  OBVIOUS
<1>13. Forward(o) /\ o \notin {"return", "PRE_GC", "POST_GC", "push", "pop", "print", "delete"}
  BY <1>6, <1>12
<1>14. PoolIsStack'
  BY <1>1, <1>2, <1>8, <1>13, PoolKept
<1>15. TopIsOutermost'
  BY <1>1, <1>2, <1>6, <1>13, TopKept
<1>16. BufferInUse'
  BY <1>1, <1>2, <1>13, BufferKept
<1>17. status' \in {"running", "failed"} /\ Len(pool') <= MAX_EXTRA_ROOTS_NUMBER
  BY <1>1, <1>2, <1>4
<1>18. (/\ status \in {"running", "failed"} /\ Len(pool) <= MAX_EXTRA_ROOTS_NUMBER
        /\ FramesFit /\ PoolIsStack /\ TopIsOutermost /\ BufferInUse /\ WordsFollow /\ ObjectAtHand)'
  BY <1>9, <1>10, <1>11, <1>14, <1>15, <1>16, <1>17
<1> QED
  BY <1>18, Conjuncts, PTL

-----------------------------------------------------------------------------
(* The beginning.                                                          *)

\* The values that the program has made before are those of a heap.
LEMMA StartedWords ==
  ASSUME NEW h \in Started, vars = h.vars, objs = h.objs, actual = << >>, global_sysargs = Null,
         \A d \in DOMAIN frames : /\ \A k \in DOMAIN frames[d].mem : Follows(frames[d].mem[k])
                                  /\ Follows(frames[d].obj) /\ Follows(frames[d].addr)
  PROVE  WordsFollow
<1>1. h.vars \in [Var -> Word] /\ IsStore(h.objs) /\ \A v \in Var : IsValue(h.vars[v], h.objs)
  BY RuntimeAssumption
<1>2. /\ IsFiniteSet(DOMAIN objs)
      /\ \A i \in DOMAIN objs : IsObject(objs[i]) /\ \A w \in WordsOf(objs[i]) : IsValue(w, objs)
  BY <1>1 DEF IsStore
<1>3. \A w : IsValue(w, objs) => Follows(w)
  BY DEF IsValue, Follows, UNBOXED
<1>4. Follows(global_sysargs)
  BY DEF Follows, Null, Raw, Word
<1> QED
  BY <1>1, <1>2, <1>3, <1>4 DEF WordsFollow

\* The words of set_args: p, and the strings that main was given.
LEMMA SetArgsWords ==
  ASSUME NEW m, m = <<Null>> \o [i \in DOMAIN Argv |-> Raw(Argv[i])], NEW n, n = Len(Argv)
  PROVE  /\ n \in Nat /\ DOMAIN m = 1..n + 1 /\ m[1] = Null
         /\ \A k \in 1..n + 1 : m[k] \in Word /\ m[k].kind = "raw"
<1>1. Argv \in Seq(Int) /\ n \in Nat /\ DOMAIN Argv = 1..n
  BY RuntimeAssumption
<1>2. \A j \in Int : Raw(j) \in Word /\ Raw(j).kind = "raw"
  BY DEF Raw, Word
<1>3. PICK R : R = {Raw(j) : j \in Int}
  OBVIOUS
<1>4. \A r \in R : r \in Word /\ r.kind = "raw"
  BY <1>2, <1>3
<1>5. PICK s : s = [i \in DOMAIN Argv |-> Raw(Argv[i])]
  OBVIOUS
<1>6. \A j \in 1..n : s[j] \in R
  <2>1. \A j \in 1..n : Argv[j] \in Int
    BY <1>1
  <2> QED
    BY <1>1, <1>3, <1>5, <2>1
<1>7. s \in Seq(R) /\ Len(s) = n
  <2>1. s = [j \in 1..n |-> s[j]]
    BY <1>1, <1>5
  <2> QED
    BY <1>1, <1>6, <2>1
<1>8. PICK r : r = Null
  OBVIOUS
<1>9. r \in R /\ <<r>> \in Seq(R) /\ Len(<<r>>) = 1
  <2>1. r \in R
    BY <1>3, <1>8 DEF Null
  <2> QED
    BY <2>1
<1>10. m = <<r>> \o s
  BY <1>5, <1>8
<1>11. m \in Seq(R) /\ Len(m) = 1 + n /\ m[1] = r
  <2>1. PICK a : a = <<r>>
    OBVIOUS
  <2>2. a \in Seq(R) /\ Len(a) = 1 /\ a[1] = r
    BY <1>9, <2>1
  <2>3. PICK l : l = Len(s)
    OBVIOUS
  <2>4. l = n
    BY <1>7, <2>3
  <2>5. a \o s \in Seq(R) /\ Len(a \o s) = Len(a) + Len(s) /\ (a \o s)[1] = a[1]
    <3>1. s \in Seq(R) /\ a \in Seq(R)
      BY <1>7, <2>2
    <3>2. 1 \in 1..Len(a)
      BY <2>2
    <3> QED
      BY <3>1, <3>2, Joined
  <2>6. m = a \o s
    BY <1>10, <2>1
  <2> QED
    BY <1>7, <2>2, <2>5, <2>6
<1>12. DOMAIN m = 1..n + 1 /\ \A k \in 1..n + 1 : m[k] \in R
  <2>1. m \in Seq(R) /\ Len(m) = n + 1
    BY <1>1, <1>11
  <2>2. DOMAIN m = 1..Len(m) /\ \A k \in 1..Len(m) : m[k] \in R
    <3>1. PICK x : x = m
      OBVIOUS
    <3>2. x \in Seq(R)
      BY <2>1, <3>1
    <3>3. DOMAIN x = 1..Len(x)
      BY <3>2
    <3>4. \A k \in 1..Len(x) : x[k] \in R
      BY <3>2
    <3> QED
      BY <3>1, <3>3, <3>4
  <2> QED
    BY <2>1, <2>2
<1> QED
  BY <1>1, <1>4, <1>8, <1>11, <1>12

\* set_args begins in order.
LEMMA SetArgsBegins ==
  ASSUME NEW f, f = Frame("set_args", 1, << >>, << >>, Len(Argv), 0), frames = <<f>>,
         global_sysargs = Null, WordsFollow
  PROVE  AtStep(f) /\ FrameInOrder(1) /\ ArgumentsFit(1)
<1>1. PICK m, n : m = OwnMem("set_args", << >>, 0) /\ n = Len(Argv)
  OBVIOUS
<1>2. m = <<Null>> \o [i \in DOMAIN Argv |-> Raw(Argv[i])]
  BY <1>1 DEF OwnMem, OwnWords
<1>3. /\ n \in Nat /\ DOMAIN m = 1..n + 1 /\ m[1] = Null
      /\ \A k \in 1..n + 1 : m[k] \in Word /\ m[k].kind = "raw"
  BY <1>1, <1>2, SetArgsWords
<1>4. Size("set_args", << >>, n, 0) = n
  BY DEF Size
<1>5. f = [fn |-> "set_args", pc |-> 1, args |-> << >>, mem |-> m, obj |-> Null, addr |-> Null,
           n |-> n, t |-> 0, flag |-> FALSE]
  BY <1>1, <1>4 DEF Frame, OwnWords
<1>6. /\ f = [fn |-> f.fn, pc |-> f.pc, args |-> f.args, mem |-> f.mem, obj |-> f.obj,
              addr |-> f.addr, n |-> f.n, t |-> f.t, flag |-> f.flag]
      /\ f.fn = "set_args" /\ f.pc = 1 /\ f.args = << >> /\ f.mem = m /\ f.n = n
  BY <1>5
<1>7. Known(f)
  BY <1>3, <1>6 DEF Known
<1>8. PICK B : B = Body(f)
  OBVIOUS
<1>9. InOrder(B, "set_args") /\ B = set_args_body(n)
  BY <1>6, <1>7, <1>8, BodyInOrder, BodyOf
<1>10. Len(B) \in Nat \ {0} /\ CallInOrder(B, "set_args")
  BY <1>9 DEF InOrder, Ends
<1>11. AtStep(f)
  BY <1>6, <1>7, <1>8, <1>9, <1>10 DEF AtStep
<1>12. SetArgsInOrder(B, n)
  BY <1>6, <1>8, <1>11, SetArgsAt
<1>13. ASSUME NEW k \in 1..Len(B), B[k].op = "call", NEW i \in Range(B[k].is)
       PROVE  i \in DOMAIN m /\ Usable(B[k].fn, m[i])
  <2>1. B[k].fn = "LmakeArray" \/ (B[k].fn = "Bstring" /\ i \in 2..n + 1)
    BY <1>12, <1>13 DEF SetArgsInOrder
  <2>2. B[k].fn = "LmakeArray" => B[k].is = << >>
    BY <1>10, <1>13 DEF CallInOrder, IsCall
  <2>3. B[k].fn = "Bstring" /\ i \in 1..n + 1
    BY <1>3, <1>13, <2>1, <2>2 DEF Range
  <2> QED
    BY <1>3, <2>3 DEF Usable, Stale
<1>14. frames[1] = f /\ depth = 1
  BY DEF depth
<1>15. FrameInOrder(1)
  <2>1. DOMAIN f.args = {} /\ f.args \in Seq(Reachable(1))
    <3>1. PICK R : R = Reachable(1)
      OBVIOUS
    <3>2. << >> \in Seq(R) /\ DOMAIN << >> = {}
      OBVIOUS
    <3>3. f.args = << >>
      BY <1>6
    <3> QED
      BY <3>1, <3>2, <3>3
  <2>2. f.pc \in 1..Len(B)
    BY <1>6, <1>10
  <2> QED
    BY <1>6, <1>8, <1>13, <1>14, <2>1, <2>2 DEF FrameInOrder
<1>16. ~Earlier(f, "hold")
  BY <1>6 DEF Earlier
<1>17. ArgumentsFit(1)
  <2>1. \A k \in 2..n + 1 : m[k].kind = "raw"
    BY <1>3
  <2> QED
    BY <1>3, <1>6, <1>14, <1>16, <2>1 DEF ArgumentsFit
<1> QED
  BY <1>11, <1>15, <1>17

\* The program begins, or set_args begins before it.
LEMMA InitKeeps ==
  ASSUME RuntimeInit
  PROVE  RootsInvariant
<1>1. PICK h \in Started : vars = h.vars /\ objs = h.objs
  BY DEF RuntimeInit
<1>2. /\ actual = << >> /\ pool = << >> /\ top = 0 /\ buf = NoBuf
      /\ global_sysargs = Null /\ status = "running"
  BY DEF RuntimeInit
<1>3. pool = Published
  BY <1>2 DEF Published
<1>4. CASE frames = << >>
  <2>1. depth = 0 /\ DOMAIN frames = {} /\ frames \in Seq(Range(frames))
    BY <1>4 DEF depth
  <2>2. FramesFit /\ ObjectAtHand
    BY <1>2, <2>1 DEF FramesFit, ObjectAtHand
  <2>3. PoolIsStack
    <3>1. PICK s, p : s = [d \in DOMAIN frames |-> HeldCells(d)] /\ p = Published
      OBVIOUS
    <3>2. s = [i \in 1..0 |-> << >>]
      BY <2>1, <3>1
    <3>3. FlattenSeq(s) = << >>
      BY <3>2, FlattenNothing
    <3>4. p \o << >> = p
      BY <3>1 DEF Published
    <3>5. pool = p \o FlattenSeq(s)
      BY <1>3, <3>1, <3>3, <3>4
    <3> QED
      BY <3>1, <3>5 DEF PoolIsStack
  <2>4. TopIsOutermost /\ BufferInUse
    BY <1>2, <2>1 DEF TopIsOutermost, BufferInUse
  <2>5. WordsFollow
    BY <1>1, <1>2, <2>1, StartedWords
  <2>6. Len(pool) <= MAX_EXTRA_ROOTS_NUMBER
    BY <1>2, RuntimeAssumption
  <2> QED
    BY <1>2, <2>2, <2>3, <2>4, <2>5, <2>6, Conjuncts
<1>5. CASE frames = <<Frame("set_args", 1, << >>, << >>, Len(Argv), 0)>>
  <2>1. PICK f : f = Frame("set_args", 1, << >>, << >>, Len(Argv), 0)
    OBVIOUS
  <2>2. frames = <<f>>
    BY <1>5, <2>1
  <2>3. frames[1] = f /\ DOMAIN frames = {1} /\ frames = <<frames[1]>>
    BY <2>2
  <2>4. PICK m : m = OwnMem("set_args", << >>, 0)
    OBVIOUS
  <2>5. m = <<Null>> \o [i \in DOMAIN Argv |-> Raw(Argv[i])]
    BY <2>4 DEF OwnMem, OwnWords
  <2>6. f.mem = m /\ f.obj = Null /\ f.addr = Null /\ f.pc = 1 /\ f.flag = FALSE
    BY <2>1, <2>4 DEF Frame, OwnWords
  <2>7. PICK n : n = Len(Argv)
    OBVIOUS
  <2>8. DOMAIN m = 1..n + 1 /\ \A k \in 1..n + 1 : m[k] \in Word /\ m[k].kind = "raw"
    BY <2>5, <2>7, SetArgsWords
  <2>9. /\ \A k \in DOMAIN f.mem : Follows(f.mem[k])
        /\ Follows(f.obj) /\ Follows(f.addr)
    BY <2>6, <2>8 DEF Follows, Null, Raw, Word
  <2>10. WordsFollow
    BY <1>1, <1>2, <2>3, <2>9, StartedWords
  <2>11. AtStep(f) /\ FrameInOrder(1) /\ ArgumentsFit(1)
    BY <1>2, <2>1, <2>2, <2>10, SetArgsBegins
  <2>12. Begun
    BY <1>2, <1>3, <2>3, <2>6, <2>10, <2>11 DEF Begun
  <2> QED
    BY <2>12, BegunInOrder
<1> QED
  BY <1>4, <1>5 DEF RuntimeInit

\* Nothing happens.
LEMMA StutterKeeps ==
  ASSUME RootsInvariant, UNCHANGED rvars
  PROVE  RootsInvariant'
<1>1. /\ status \in {"running", "failed"} /\ Len(pool) <= MAX_EXTRA_ROOTS_NUMBER
      /\ FramesFit /\ PoolIsStack /\ TopIsOutermost /\ BufferInUse /\ WordsFollow /\ ObjectAtHand
  BY Conjuncts
<1>2. /\ vars' = vars /\ actual' = actual /\ frames' = frames /\ pool' = pool /\ top' = top
      /\ objs' = objs /\ buf' = buf /\ global_sysargs' = global_sysargs /\ status' = status
  BY DEF rvars
<1>3. depth' = depth /\ cur' = cur
  BY <1>2 DEF depth, cur
<1>4. FramesFit'
  <2>1. \A d \in DOMAIN frames : Reachable(d)' = Reachable(d)
    BY <1>2 DEF Reachable
  <2>2. ASSUME NEW d \in DOMAIN frames
        PROVE  FrameInOrder(d)'
    <3>1. FrameInOrder(d)
      BY <1>1 DEF FramesFit
    <3> QED
      BY <1>1, <1>2, <1>3, <2>1, <3>1 DEF FrameInOrder, At
  <2>3. \A d \in DOMAIN frames : ArgumentsFit(d)'
    BY <1>1, <1>2 DEF FramesFit, ArgumentsFit
  <2> QED
    BY <1>1, <1>2, <1>3, <2>2, <2>3 DEF FramesFit
<1>5. PoolIsStack'
  <2>1. \A d \in DOMAIN frames : HeldCells(d)' = HeldCells(d)
    BY <1>2 DEF HeldCells, Registers
  <2>2. [d \in DOMAIN frames |-> HeldCells(d)]' = [d \in DOMAIN frames |-> HeldCells(d)]
    BY <1>2, <2>1
  <2>3. Published' = Published
    BY <1>2 DEF Published, Null, Raw, SysargsCell
  <2> QED
    BY <1>1, <1>2, <2>2, <2>3 DEF PoolIsStack
<1>6. TopIsOutermost' /\ BufferInUse'
  BY <1>1, <1>2 DEF TopIsOutermost, BufferInUse, NoBuf
<1>7. WordsFollow'
  <2>1. Unfilled' = Unfilled
    BY <1>2, <1>3 DEF Unfilled, At_op
  <2> QED
    BY <1>1, <1>2, <2>1 DEF WordsFollow, IsValue, Follows
<1>8. ObjectAtHand'
  BY <1>1, <1>2, <1>3 DEF ObjectAtHand, At_op, IsValue
<1>9. status' \in {"running", "failed"} /\ Len(pool') <= MAX_EXTRA_ROOTS_NUMBER
  BY <1>1, <1>2
<1>10. (/\ status \in {"running", "failed"} /\ Len(pool) <= MAX_EXTRA_ROOTS_NUMBER
        /\ FramesFit /\ PoolIsStack /\ TopIsOutermost /\ BufferInUse /\ WordsFollow /\ ObjectAtHand)'
  BY <1>4, <1>5, <1>6, <1>7, <1>8, <1>9
<1> QED
  BY <1>10, Conjuncts, PTL

\* The extra roots stay a stack, __gc_stack_top stays the outermost function, and
\* every word leads to an object that is there, whichever functions the program
\* calls and wherever the collector moves the objects meanwhile.
THEOREM RootsInvariantHolds == RuntimeSpec => []RootsInvariant
<1>1. RuntimeInit => RootsInvariant
  BY InitKeeps
<1>2. RootsInvariant /\ [RuntimeNext]_rvars => RootsInvariant'
  <2> SUFFICES ASSUME RootsInvariant, [RuntimeNext]_rvars PROVE RootsInvariant'
    OBVIOUS
  <2>1. CASE CallRuntime
    BY <2>1, CallRuntimeKeeps
  <2>2. CASE Assign
    BY <2>2, AssignKeeps
  <2>3. CASE PRE_GC
    BY <2>3, PreGCKeeps
  <2>4. CASE POST_GC
    BY <2>4, PostGCKeeps
  <2>5. CASE push_extra_root
    BY <2>5, PushKeeps
  <2>6. CASE pop_extra_root
    BY <2>6, PopKeeps
  <2>7. CASE alloc
    BY <2>7, AllocKeeps
  <2>8. CASE fill
    BY <2>8, FillKeeps
  <2>9. CASE CallInner
    BY <2>9, CallKeeps
  <2>10. CASE Return
    BY <2>10, ReturnKeeps
  <2>11. CASE check
    BY <2>11, CheckKeeps
  <2>12. CASE same
    BY <2>12, SameKeeps
  <2>13. CASE print \/ deleteStringBuf
    BY <2>13, BufferKeeps
  <2>14. CASE hold
    BY <2>14, HoldKeeps
  <2>15. CASE address
    BY <2>15, AddressKeeps
  <2>16. CASE store
    BY <2>16, StoreKeeps
  <2>17. CASE publish
    BY <2>17, PublishKeeps
  <2>18. CASE UNCHANGED rvars
    BY <2>18, StutterKeeps
  <2> QED
    BY <2>1, <2>2, <2>3, <2>4, <2>5, <2>6, <2>7, <2>8, <2>9, <2>10, <2>11, <2>12, <2>13, <2>14, <2>15,
       <2>16, <2>17, <2>18 DEF RuntimeNext
<1> QED
  BY <1>1, <1>2, PTL DEF RuntimeSpec

\* The invariant is what the comment above extra_roots_pool and the assertions of
\* PRE_GC, POST_GC and gc_alloc say.
LEMMA RootsAreDisciplined == RootsInvariant => RootsDisciplined
<1> SUFFICES ASSUME RootsInvariant PROVE RootsDisciplined
  OBVIOUS
<1>1. /\ status \in {"running", "failed"} /\ Len(pool) <= MAX_EXTRA_ROOTS_NUMBER
      /\ FramesFit /\ PoolIsStack /\ TopIsOutermost /\ BufferInUse /\ WordsFollow /\ ObjectAtHand
  BY Conjuncts
<1>2. depth \in Nat /\ DOMAIN frames = 1..depth
  BY <1>1, FramesAtStep
<1>3. \A k \in DOMAIN pool : CellExists(pool[k])
  <2>1. pool \in Seq(Registered)
    BY <1>1, PoolElements
  <2>2. \A k \in DOMAIN pool : pool[k] \in Registered
    BY <2>1
  <2>3. \A c \in Registered : CellExists(c)
    BY <1>2 DEF Registered, Reachable, CellExists
  <2> QED
    BY <2>2, <2>3
<1>4. {d \in DOMAIN frames : Resets(frames[d])} = {top} \ {0}
  BY <1>1 DEF TopIsOutermost
<1>5. At_op("alloc") => top \in DOMAIN frames
  <2> SUFFICES ASSUME At_op("alloc") PROVE top \in DOMAIN frames
    OBVIOUS
  <2>1. cur = frames[depth] /\ depth \in 1..depth /\ AtStep(cur) /\ OpOf(cur) = "alloc" /\ DOMAIN frames = 1..depth
    BY <1>1, Running, FramesAtStep
  <2>2. Before(Body(cur), cur.pc, "PRE_GC") /\ From(Body(cur), cur.pc, "POST_GC")
    BY <2>1 DEF AtStep, InOrder, AllocInOrder, OpOf
  <2>3. Between(frames[depth], "PRE_GC", "POST_GC")
    BY <2>1, <2>2, FrameTerms DEF Inside
  <2>4. top # 0
    BY <1>1, <2>1, <2>3 DEF TopIsOutermost
  <2>5. top \in {d \in DOMAIN frames : Resets(frames[d])}
    BY <1>4, <2>4
  <2> QED
    BY <2>5
<1>6. Idle => pool \in {<< >>, <<SysargsCell>>} /\ top = 0 /\ buf = NoBuf
  BY AtIdle DEF Idle, Published
<1>7. \A v \in Var : vars[v] \in Word /\ (vars[v].kind = "object" => vars[v].n \in DOMAIN objs)
  BY <1>1 DEF WordsFollow, IsValue, UNBOXED
<1> QED
  BY <1>1, <1>3, <1>4, <1>5, <1>6, <1>7 DEF RootsDisciplined

\* The pool of extra roots is a stack of cells that exist, no call leaves one
\* behind but set_args, __gc_stack_top is set during every allocation and cleared
\* at the end, and no function touches an object where it no longer is.
THEOREM RootsStayDisciplined == RuntimeSpec => []RootsDisciplined
BY RootsInvariantHolds, RootsAreDisciplined, PTL
=============================================================================
