------------------------------ MODULE LamaRuntime ------------------------------
(***************************************************************************)
(* The functions of runtime/runtime.c that make new values, step by step:  *)
(* PRE_GC, push_extra_root, the calls of each other, the allocation in     *)
(* which the collector may move every object, pop_extra_root, POST_GC.     *)
(* Addresses are abstracted to identities: a collection keeps the          *)
(* references in the words that it scans and in the registered ones, and   *)
(* makes every other reference stale.  What a collection does inside is in *)
(* LamaCompact.                                                            *)
(***************************************************************************)
EXTENDS LamaValues

CONSTANTS
  NoCall,
  Var,            \* the variables of the program
  Outside,        \* C strings outside the heap: literals, getenv, scanf, files
  Argv,           \* the indices of the program's arguments in Outside
  External,       \* those that getenv, scanf and fread give
  Absent,         \* ... or what stands for none: no variable, no input, no file
  Functions,      \* the functions that the program calls
  Started,        \* values that the program has made before: vars and objs
  Ints,           \* the integers it uses
  Tags,           \* hashes of names and addresses of code
  MAX_EXTRA_ROOTS_NUMBER,
  Ids,            \* bound: identities of objects
  MaxSize,        \* bound: calls are made while objects and elements together are no more
  MaxSizeAfter,   \* bound: ... after set_args
  MadeIds,        \* bound: ... and only with these objects and with Ints, not with Started
  MaxLen,         \* bound: the lengths of substrings
  MaxArgs         \* bound: the arguments of a constructor

\* A value of the program in a store, and a store in which all fields are values.
IsValue(w, st) == w \in Word /\ (UNBOXED(w) \/ (w.kind = "object" /\ w.n \in DOMAIN st))
IsStore(st) ==
  /\ IsFiniteSet(DOMAIN st)
  /\ \A i \in DOMAIN st : IsObject(st[i]) /\ \A w \in WordsOf(st[i]) : IsValue(w, st)

ASSUME RuntimeAssumption ==
  /\ MAX_EXTRA_ROOTS_NUMBER \in Nat \ {0}
  /\ Argv \in Seq(DOMAIN Outside)
  /\ External \subseteq DOMAIN Outside
  /\ Absent \notin DOMAIN Outside
  /\ DOMAIN Outside \cup {Absent} \cup Ints \subseteq Int
  /\ Ids \subseteq Nat
  /\ \A h \in Started : /\ h.vars \in [Var -> Word] /\ IsStore(h.objs)
                        /\ \A v \in Var : IsValue(h.vars[v], h.objs)

VARIABLES
  vars,           \* Var -> word: words of the program's stack
  actual,         \* the arguments of the running call, above them on the stack
  dst,            \* the variable that gets its result
  frames,         \* the activation records of the runtime, the innermost last
  pool,           \* extra_roots: registered cells
  top,            \* __gc_stack_top: the frame whose address it is, or 0
  objs,           \* the heap: identity -> object
  buf,            \* stringBuf.contents
  global_sysargs,
  status          \* "running", "failed" (the program has ended), "broken"

rvars == <<vars, actual, dst, frames, pool, top, objs, buf, global_sysargs, status>>

NoBuf  == <<NUL>>
Buffer == Raw(-1)

-----------------------------------------------------------------------------
(* The bodies of the functions.                                            *)

Do(o)        == [op |-> o, fn |-> "", is |-> << >>]
Calls(g, is) == [op |-> "call", fn |-> g, is |-> is]   \* is: which own words are the arguments
Ret          == <<Do("return")>>
Guarded(ops) == <<Do("PRE_GC")>> \o ops \o <<Do("POST_GC")>>
Rooted(ops)  == <<Do("push")>> \o ops \o <<Do("pop")>>

LmakeString_body    == Guarded(<<Do("alloc")>>) \o Ret
LmakeArray_body     == Guarded(<<Do("alloc"), Do("fill")>>) \o Ret
\* Mistaken variant: the argument of Bstring is taken for a C string outside the heap.
BstringUnrooted     == Guarded(<<Calls("LmakeString", << >>), Do("fill")>>) \o Ret
Bstring_body        == Guarded(Rooted(<<Calls("LmakeString", << >>)>>) \o <<Do("fill")>>) \o Ret
Lsubstring_body     == <<Do("check")>> \o Guarded(Rooted(<<Do("alloc")>>) \o <<Do("fill")>>) \o Ret
Li__Infix_4343_body == Lsubstring_body
Constructor_body    == Guarded(<<Do("push"), Do("alloc"), Do("fill"), Do("pop")>>) \o Ret
Lstring_body        == Guarded(<<Do("print")>> \o Rooted(<<Calls("Bstring", <<1>>)>>) \o <<Do("delete")>>) \o Ret
Bsprintf_body       == <<Do("check"), Do("print")>>
                       \o Guarded(Rooted(<<Calls("Bstring", <<2>>)>>)) \o <<Do("delete")>> \o Ret
LgetEnv_body(t)     == IF t = Absent THEN <<Do("same")>> \o Ret
                       ELSE Guarded(<<Calls("Bstring", <<1>>)>>) \o Ret
LreadLine_body(t)   == IF t = Absent THEN <<Do("check"), Do("same")>> \o Ret
                       ELSE <<Calls("Bstring", <<1>>)>> \o Ret
Lfread_body         == <<Calls("LmakeString", << >>), Do("check"), Do("fill")>> \o Ret
Ls__Infix_58_body   == Guarded(<<Calls("Bsexp", <<1, 2>>)>>) \o Ret

\* RVBstring, RVLstring, RVBarray, RVBsexp: the arguments are passed on in memory.
Wrapper_body(g, n) == <<Calls(g, [i \in 1..n |-> i])>> \o Ret

Lclone_body(t) ==
  IF t = "int" THEN <<Do("same")>> \o Ret
  ELSE IF t = "STRING" THEN Guarded(Rooted(<<Calls("Bstring", <<1>>)>>)) \o Ret
  ELSE Guarded(Rooted(<<Do("alloc"), Do("fill")>>)) \o Ret

\* Own word 1 is p.  In ((aint *)p)[i] = (aint)Bstring(...) p is read before the
\* call or after it.
set_args_body(n) ==
  Guarded(<<Calls("LmakeArray", << >>), Do("hold"), Do("push")>>
          \o FlattenSeq([i \in 1..n |-> <<Do("address"), Calls("Bstring", <<i + 1>>), [Do("store") EXCEPT !.is = <<i>>]>>])
          \o <<Do("pop")>>)
  \o <<Do("publish")>> \o Ret

\* The bodies that do not depend on the arguments.
FixedBodies ==
  [LmakeString |-> LmakeString_body, LmakeArray |-> LmakeArray_body, Bstring |-> Bstring_body,
   Lsubstring |-> Lsubstring_body, Li__Infix_4343 |-> Li__Infix_4343_body,
   Barray |-> Constructor_body, Bsexp |-> Constructor_body, Bclosure |-> Constructor_body,
   Lstring |-> Lstring_body, Lstringcat |-> Lstring_body, Bsprintf |-> Bsprintf_body,
   Lfread |-> Lfread_body, Ls__Infix_58 |-> Ls__Infix_58_body,
   RVBstring |-> Wrapper_body("Bstring", 1), RVLstring |-> Wrapper_body("Lstring", 1)]

Body(f) ==
  IF f.fn \in DOMAIN FixedBodies THEN FixedBodies[f.fn]
  ELSE CASE f.fn = "RVBarray" -> Wrapper_body("Barray", f.n)
         [] f.fn = "RVBsexp" -> Wrapper_body("Bsexp", f.n)
         [] f.fn = "Lclone" -> Lclone_body(f.t)
         [] f.fn = "LgetEnv" -> LgetEnv_body(f.t)
         [] f.fn = "LreadLine" -> LreadLine_body(f.t)
         [] f.fn = "set_args" -> set_args_body(f.n)

ASSUME FunctionsAssumption ==
  Functions \subseteq DOMAIN FixedBodies \cup {"RVBarray", "RVBsexp", "Lclone", "LgetEnv", "LreadLine"}

-----------------------------------------------------------------------------
(* Memory cells: <<0, k>> argument k of the program's call, <<d, k>> own   *)
(* word k of frame d, and the one global.                                  *)

SysargsCell == <<0, 0>>
depth == Len(frames)
cur   == frames[depth]
Idle  == frames = << >> /\ status = "running"
At_op(o) == status = "running" /\ depth > 0 /\ Body(cur)[cur.pc].op = o

At(c) ==
  IF c = SysargsCell THEN global_sysargs
  ELSE IF c[1] = 0 THEN actual[c[2]] ELSE frames[c[1]].mem[c[2]]

Arg(k)    == At(cur.args[k])
ArgWords  == [k \in DOMAIN cur.args |-> Arg(k)]
Object(w) == objs[w.n]
Text(w) ==
  IF w.kind = "object" THEN CStr(Object(w).elems)
  ELSE IF w = Buffer THEN CStr(buf) ELSE CStr(Outside[w.n])

\* The functions that keep their arguments in words of their own, and those
\* whose words malloc returned: no scan of the stack meets them.
OwnWords == {"RVBstring", "RVLstring", "RVBarray", "RVBsexp", "Ls__Infix_58", "Bsprintf"}
MallocWords == {"RVBarray", "RVBsexp"}

OwnMem(fn, ws, t) ==
  CASE fn = "Bsprintf" -> Append(ws, Buffer)
    [] fn \in OwnWords \ {"Bsprintf"} -> ws
    [] fn \in {"Lstring", "Lstringcat"} -> <<Buffer>>
    [] fn = "Lclone" -> ws
    [] fn \in {"LgetEnv", "LreadLine"} -> <<Raw(t)>>
    [] fn = "set_args" -> <<Null>> \o [i \in DOMAIN Argv |-> Raw(Argv[i])]
    [] OTHER -> << >>

\* The length that the function computes from its arguments before anything else.
Size(fn, ws, n, t) ==
  CASE fn = "Bstring" -> Len(Text(ws[1]))
    [] fn = "Lsubstring" -> UNBOX(ws[3])
    [] fn = "Li__Infix_4343" ->
         IF \A k \in 1..2 : ws[k].kind = "object"
         THEN Len(Object(ws[1]).elems) + Len(Object(ws[2]).elems) ELSE 0
    [] fn = "Lclone" -> IF UNBOXED(ws[1]) THEN 0 ELSE Len(Object(ws[1]).elems)
    [] fn \in {"Barray", "RVBarray", "Bsexp", "RVBsexp", "Bclosure"} -> Len(ws)
    [] fn = "Lfread" -> IF t = Absent THEN 0 ELSE Len(Outside[t])
    [] OTHER -> n

\* A new activation record, the d-th, of fn with its arguments in the given cells.
Frame(fn, d, cells, ws, n, t) ==
  [fn   |-> fn,
   pc   |-> 1,
   args |-> IF fn = "Bsprintf" THEN <<<<d, 1>>>>
            ELSE IF fn \in OwnWords THEN [k \in DOMAIN ws |-> <<d, k>>] ELSE cells,
   mem  |-> OwnMem(fn, ws, t),
   obj  |-> Null,     \* the local variable for the new object
   addr |-> Null,     \* set_args: p, when it is read early
   n    |-> Size(fn, ws, n, t),
   t    |-> IF fn # "Lclone" THEN t ELSE IF UNBOXED(ws[1]) THEN "int" ELSE Object(ws[1]).kind,
   flag |-> FALSE]

Step(f)    == [f EXCEPT !.pc = @ + 1]
SetCur(f)  == frames' = [frames EXCEPT ![depth] = f]
Advance    == SetCur(Step(cur))

-----------------------------------------------------------------------------
(* PRE_GC, POST_GC and the extra roots.                                    *)

\* Mistaken variant: the flag is not kept, POST_GC always resets.
AlwaysOutermost == TRUE

outermost == top = 0

PRE_GC ==
  /\ At_op("PRE_GC")
  /\ top' = IF top = 0 THEN depth ELSE top
  /\ SetCur([Step(cur) EXCEPT !.flag = outermost])
  /\ UNCHANGED <<vars, actual, dst, pool, objs, buf, global_sysargs, status>>

POST_GC ==
  /\ At_op("POST_GC")
  /\ top' = IF cur.flag THEN 0 ELSE top
  /\ Advance
  /\ UNCHANGED <<vars, actual, dst, pool, objs, buf, global_sysargs, status>>

\* The cells that the function of frame d registers, in this order.
Registers(d) ==
  CASE frames[d].fn = "set_args" -> <<<<d, 1>>>>
    [] frames[d].fn = "Lsubstring" -> <<frames[d].args[1]>>
    [] OTHER -> frames[d].args

RootCells == Registers(depth)

push_extra_root ==
  /\ At_op("push")
  /\ IF Len(pool) + Len(RootCells) <= MAX_EXTRA_ROOTS_NUMBER
     THEN pool' = pool \o RootCells /\ Advance /\ UNCHANGED status
     ELSE status' = "failed" /\ UNCHANGED <<pool, frames>>
  /\ UNCHANGED <<vars, actual, dst, top, objs, buf, global_sysargs>>

\* Each pop compares its argument with the last cell of the pool.
pop_extra_root ==
  /\ At_op("pop")
  /\ LET popped == Reverse(RootCells)
         rest   == Len(pool) - Len(popped)
     IN  IF rest >= 0 /\ \A k \in DOMAIN popped : pool[Len(pool) - k + 1] = popped[k]
         THEN pool' = SubSeq(pool, 1, rest) /\ Advance /\ UNCHANGED status
         ELSE status' = "broken" /\ UNCHANGED <<pool, frames>>
  /\ UNCHANGED <<vars, actual, dst, top, objs, buf, global_sysargs>>

-----------------------------------------------------------------------------
(* Allocation.                                                             *)

NewObject ==
  CASE cur.fn \in {"LmakeString", "Lsubstring", "Li__Infix_4343"} -> Obj("STRING", 0, Zeros(cur.n))
    [] cur.fn = "Lclone" -> Obj(cur.t, 0, [i \in 1..cur.n |-> Null])
    [] cur.fn = "Bsexp" -> Obj("SEXP", 0, [i \in 1..cur.n |-> Null])
    [] cur.fn = "Bclosure" -> Obj("CLOSURE", 0, [i \in 1..cur.n |-> Null])
    [] OTHER -> Obj("ARRAY", 0, [i \in 1..cur.n |-> Null])

\* The words that the collector finds: the program's stack and the frames
\* above __gc_stack_top, and the registered cells, none of which is the word at
\* __gc_stack_top itself, which LamaCompact shows to be left out.
Fixed ==
  {<<0, k>> : k \in DOMAIN actual}
  \cup (UNION {{<<d, k>> : k \in DOMAIN frames[d].mem} : d \in {e \in 1..(top - 1) : frames[e].fn \notin MallocWords}})
  \cup Range(pool)

RootWords == {vars[v] : v \in Var} \cup {At(c) : c \in Fixed}

OtherWords ==
  {global_sysargs} \cup UNION {Range(frames[d].mem) \cup {frames[d].obj, frames[d].addr} : d \in DOMAIN frames}

Unfixed(w) == IF w.kind = "object" THEN [kind |-> "stale", n |-> 0] ELSE w

Moved(f, d, fixed) ==
  [f EXCEPT !.mem = [k \in DOMAIN f.mem |-> IF <<d, k>> \in fixed THEN f.mem[k] ELSE Unfixed(f.mem[k])],
            !.obj = Unfixed(@), !.addr = Unfixed(@)]

With(i, o, st) == [j \in DOMAIN st \cup {i} |-> IF j = i THEN o ELSE st[j]]

\* alloc_string, alloc_array, alloc_sexp, alloc_closure: gc_alloc may have to
\* collect first.  Without a collection nothing moves; what nothing refers to is
\* forgotten all the same.
alloc ==
  /\ At_op("alloc")
  /\ \E collect \in BOOLEAN :
       LET fixed == Fixed
           kept  == Keep(objs, IF collect THEN RootWords ELSE RootWords \cup OtherWords)
           moved == IF collect THEN [d \in DOMAIN frames |-> Moved(frames[d], d, fixed)] ELSE frames
           i     == Min(Ids \ DOMAIN kept)
       IN  /\ Ids \ DOMAIN kept # {}
           /\ objs' = With(i, NewObject, kept)
           /\ frames' = [moved EXCEPT ![depth] = [Step(@) EXCEPT !.obj = Ref(i)]]
           /\ global_sysargs' = IF collect /\ SysargsCell \notin fixed THEN Unfixed(global_sysargs)
                                ELSE global_sysargs
  /\ status' = IF top = 0 THEN "broken" ELSE status
  /\ UNCHANGED <<vars, actual, dst, pool, top, buf>>

Stale(w) == w.kind = "stale"

\* What the function writes to the new object, from its arguments as they are now.
Filled ==
  CASE cur.fn = "LmakeArray" -> Obj("ARRAY", 0, [i \in 1..cur.n |-> BOX(0)])
    [] cur.fn = "Bstring" -> Obj("STRING", 0, Text(Arg(1)))
    [] cur.fn = "Lfread" -> Obj("STRING", 0, Outside[cur.t])
    [] cur.fn = "Lsubstring" ->
         Obj("STRING", 0, Strncpy(SubSeq(Object(Arg(1)).elems, UNBOX(Arg(2)) + 1, UNBOX(Arg(2)) + cur.n)))
    [] cur.fn = "Li__Infix_4343" ->
         Obj("STRING", 0, Strncpy(Object(Arg(1)).elems) \o Strncpy(Object(Arg(2)).elems))
    [] cur.fn = "Lclone" -> Object(Arg(1))
    [] cur.fn = "Barray" -> Obj("ARRAY", 0, ArgWords)
    [] cur.fn = "Bsexp" -> Obj("SEXP", cur.t, ArgWords)
    [] cur.fn = "Bclosure" -> Obj("CLOSURE", cur.t, ArgWords)

fill ==
  /\ At_op("fill")
  /\ IF Stale(cur.obj) \/ \E k \in DOMAIN cur.args : Stale(Arg(k))
     THEN status' = "broken" /\ UNCHANGED <<objs, frames>>
     ELSE objs' = [objs EXCEPT ![cur.obj.n] = Filled] /\ Advance /\ UNCHANGED status
  /\ UNCHANGED <<vars, actual, dst, pool, top, buf, global_sysargs>>

-----------------------------------------------------------------------------
(* Calls and returns.                                                      *)

\* One function of the runtime calls another one.
CallInner ==
  /\ At_op("call")
  /\ LET o     == Body(cur)[cur.pc]
         cells == [k \in DOMAIN o.is |-> <<depth, o.is[k]>>]
         ws    == [k \in DOMAIN cells |-> At(cells[k])]
         t     == IF cur.fn = "Ls__Infix_58" THEN ConsTag ELSE cur.t
     IN  IF \E k \in DOMAIN ws : Stale(ws[k])
         THEN status' = "broken" /\ UNCHANGED frames
         ELSE /\ frames' = Append([frames EXCEPT ![depth] = Step(cur)],
                                  Frame(o.fn, depth + 1, cells, ws, cur.n, t))
              /\ UNCHANGED status
  /\ UNCHANGED <<vars, actual, dst, pool, top, objs, buf, global_sysargs>>

\* The new object goes to a local variable of the caller, or to the program.
\* What nothing refers to any more is forgotten here, the code leaves it to the
\* next collection.
Return ==
  /\ At_op("return")
  /\ frames' = IF depth = 1 THEN << >>
               ELSE [SubSeq(frames, 1, depth - 1) EXCEPT ![depth - 1].obj = cur.obj]
  /\ vars' = IF depth = 1 /\ cur.fn # "set_args" THEN [vars EXCEPT ![dst] = cur.obj] ELSE vars
  /\ actual' = IF depth = 1 THEN << >> ELSE actual
  /\ dst' = IF depth = 1 THEN "" ELSE dst
  /\ objs' = IF depth = 1 THEN Keep(objs, {vars'[v] : v \in Var} \cup {global_sysargs}) ELSE objs
  /\ UNCHANGED <<pool, top, buf, global_sysargs, status>>

IsString(w) == w.kind = "object" /\ Object(w).kind = "STRING"

strings_expected ==
  CASE cur.fn = "Li__Infix_4343" -> {1, 2}
    [] cur.fn \in {"LreadLine", "Lfread"} -> {}
    [] OTHER -> {1}

\* What is checked before anything else happens to the heap.
accepted ==
  /\ \A k \in strings_expected : IsString(Arg(k))
  /\ cur.fn = "Lsubstring" => UNBOX(Arg(2)) + cur.n <= Len(Object(Arg(1)).elems)
  /\ cur.fn = "Lfread" => cur.t # Absent

\* ASSERT_STRING, the bounds of Lsubstring, the file that cannot be read.  At the
\* end of the input LreadLine ends the program when errno is set, by whichever
\* call of libc has set it.
check ==
  /\ At_op("check")
  /\ \/ accepted /\ Advance /\ UNCHANGED status
     \/ /\ ~accepted \/ cur.fn = "LreadLine"
        /\ status' = "failed" /\ UNCHANGED frames
  /\ UNCHANGED <<vars, actual, dst, pool, top, objs, buf, global_sysargs>>

\* Lclone of an unboxed value, and BOX(0) for what there is not.
same ==
  /\ At_op("same")
  /\ SetCur([Step(cur) EXCEPT !.obj = IF cur.fn = "Lclone" THEN Arg(1) ELSE BOX(0)])
  /\ UNCHANGED <<vars, actual, dst, pool, top, objs, buf, global_sysargs, status>>

\* createStringBuf and printValue, stringcat or vprintStringBuf.
print ==
  /\ At_op("print")
  /\ buf' = (CASE cur.fn = "Lstring" -> printValue(objs, Arg(1))
               [] cur.fn = "Lstringcat" -> stringcat(objs, Arg(1))
               [] cur.fn = "Bsprintf" -> Text(Arg(1))) \o NoBuf
  /\ Advance
  /\ UNCHANGED <<vars, actual, dst, pool, top, objs, global_sysargs, status>>

deleteStringBuf ==
  /\ At_op("delete")
  /\ buf' = NoBuf
  /\ Advance
  /\ UNCHANGED <<vars, actual, dst, pool, top, objs, global_sysargs, status>>

-----------------------------------------------------------------------------
(* set_args.                                                               *)

hold ==
  /\ At_op("hold")
  /\ SetCur([Step(cur) EXCEPT !.mem[1] = cur.obj])
  /\ UNCHANGED <<vars, actual, dst, pool, top, objs, buf, global_sysargs, status>>

\* C does not say whether the address is computed before the call or after it.
address ==
  /\ At_op("address")
  /\ \E early \in BOOLEAN :
       SetCur([Step(cur) EXCEPT !.addr = IF early THEN cur.mem[1] ELSE Null])
  /\ UNCHANGED <<vars, actual, dst, pool, top, objs, buf, global_sysargs, status>>

\* A store to the chunk that has been unmapped is lost at best.
store ==
  /\ At_op("store")
  /\ LET p == IF cur.addr = Null THEN cur.mem[1] ELSE cur.addr
         i == Body(cur)[cur.pc].is[1]
     IN  objs' = IF Stale(p) THEN objs ELSE [objs EXCEPT ![p.n].elems[i] = cur.obj]
  /\ SetCur([Step(cur) EXCEPT !.addr = Null])
  /\ UNCHANGED <<vars, actual, dst, pool, top, buf, global_sysargs, status>>

publish ==
  /\ At_op("publish")
  /\ global_sysargs' = cur.mem[1]
  /\ pool' = Append(pool, SysargsCell)
  /\ Advance
  /\ UNCHANGED <<vars, actual, dst, top, objs, buf, status>>

-----------------------------------------------------------------------------
(* The program.                                                            *)

Held == {vars[v] : v \in Var}

WithinBounds ==
  /\ Reach(objs, Held) \subseteq MadeIds
  /\ \A w \in Held : UNBOXED(w) => UNBOX(w) \in Ints
  /\ MapThenSumSet(LAMBDA i : 1 + Len(objs[i].elems), Reach(objs, Held))
       <= IF global_sysargs = Null THEN MaxSize ELSE MaxSizeAfter

\* A list ends with an unboxed value: printValue and stringcat read the second
\* field of whatever else they find there.
IsList(w) == UNBOXED(w) \/ (Object(w).kind = "SEXP" /\ Object(w).tag = ConsTag)

Objects == {w \in Held : w.kind = "object"}
Strings == {w \in Objects : IsString(w)}

Fields ==
  (UNION {[1..k -> Held] : k \in 0..MaxArgs}) \cup {[k \in 1..MAX_EXTRA_ROOTS_NUMBER |-> BOX(0)]}

\* The arguments, the number and the tag of the calls that are made of fn.
Inputs(fn) ==
  CASE fn \in {"LmakeString", "LmakeArray"} -> {[ws |-> << >>, n |-> n, t |-> 0] : n \in 0..1}
    [] fn \in {"LgetEnv", "LreadLine", "Lfread"} ->
         {[ws |-> << >>, n |-> 0, t |-> t] : t \in External \cup {Absent}}
    [] fn = "Bstring" -> {[ws |-> <<w>>, n |-> 0, t |-> 0] : w \in Strings}
    [] fn = "RVBstring" -> {[ws |-> <<Raw(b)>>, n |-> 0, t |-> 0] : b \in DOMAIN Outside \ External}
    [] fn = "Bsprintf" -> {[ws |-> <<w>>, n |-> 0, t |-> 0] : w \in Objects}
    [] fn \in {"Lclone", "Lstring", "RVLstring", "Lstringcat"} -> {[ws |-> <<w>>, n |-> 0, t |-> 0] : w \in Held}
    [] fn = "Lsubstring" ->
         {[ws |-> <<w, BOX(p), BOX(l)>>, n |-> 0, t |-> 0] : w \in Objects, p \in 0..1, l \in 0..MaxLen}
    [] fn = "Li__Infix_4343" -> {[ws |-> <<v, w>>, n |-> 0, t |-> 0] : v \in Objects, w \in Objects}
    [] fn = "Ls__Infix_58" -> {[ws |-> <<v, w>>, n |-> 0, t |-> 0] : v \in Held, w \in {x \in Held : IsList(x)}}
    [] fn \in {"Barray", "RVBarray"} ->
         {[ws |-> ws, n |-> 0, t |-> 0] : ws \in Fields}
    [] OTHER ->
         {[ws |-> ws, n |-> 0, t |-> t] : ws \in Fields, t \in Tags}

\* The wrappers get their arguments in registers, the others find them in the
\* memory of the program.
CallRuntime ==
  /\ Idle
  /\ WithinBounds
  /\ \E fn \in Functions, d \in Var : \E in \in Inputs(fn) :
       /\ actual' = IF fn \in OwnWords \ {"Ls__Infix_58"} THEN << >> ELSE in.ws
       /\ dst' = d
       /\ frames' = <<Frame(fn, 1, [k \in DOMAIN in.ws |-> <<0, k>>], in.ws, in.n, in.t)>>
  /\ UNCHANGED <<vars, pool, top, objs, buf, global_sysargs, status>>

\* A variable gets an integer, or a field that Belem reads.
Assign ==
  /\ Idle
  /\ \E d \in Var :
       \/ \E n \in Ints : vars' = [vars EXCEPT ![d] = BOX(n)]
       \/ \E w \in Objects : \E k \in DOMAIN Object(w).elems :
            ~IsString(w) /\ vars' = [vars EXCEPT ![d] = Object(w).elems[k]]
  /\ objs' = Keep(objs, {vars'[v] : v \in Var} \cup {global_sysargs})
  /\ UNCHANGED <<actual, dst, frames, pool, top, buf, global_sysargs, status>>

RuntimeInit ==
  /\ \E h \in Started : vars = h.vars /\ objs = h.objs
  /\ actual = << >>
  /\ dst = ""
  /\ pool = << >>
  /\ top = 0
  /\ buf = NoBuf
  /\ global_sysargs = Null
  /\ status = "running"
  /\ \/ frames = << >>
     \/ objs = << >> /\ frames = <<Frame("set_args", 1, << >>, << >>, Len(Argv), 0)>>

RuntimeNext ==
  \/ CallRuntime \/ Assign
  \/ PRE_GC \/ POST_GC \/ push_extra_root \/ pop_extra_root
  \/ alloc \/ fill \/ CallInner \/ Return
  \/ check \/ same \/ print \/ deleteStringBuf
  \/ hold \/ address \/ store \/ publish

RuntimeSpec == RuntimeInit /\ [][RuntimeNext]_rvars

-----------------------------------------------------------------------------
(* What the runtime owes to the program.                                   *)

CellExists(c) ==
  \/ c = SysargsCell
  \/ c[1] = 0 /\ c[2] \in DOMAIN actual
  \/ c[1] \in DOMAIN frames /\ c[2] \in DOMAIN frames[c[1]].mem

\* The function is between its PRE_GC, which has set __gc_stack_top, and its POST_GC.
Resets(f) == f.flag /\ \E k \in f.pc..Len(Body(f)) : Body(f)[k].op = "POST_GC"

\* The comment in gc.h above extra_roots_pool, and the assertions of PRE_GC,
\* POST_GC and gc_alloc: the pool is a stack of cells that exist, no call leaves
\* one behind but set_args, __gc_stack_top is the outermost function that called
\* PRE_GC, it is set during every allocation and cleared at the end, and no
\* function touches an object where it no longer is.
RootsDisciplined ==
  /\ status \in {"running", "failed"}
  /\ \A k \in DOMAIN pool : CellExists(pool[k])
  /\ Len(pool) <= MAX_EXTRA_ROOTS_NUMBER
  /\ {d \in DOMAIN frames : Resets(frames[d])} = {top} \ {0}
  /\ At_op("alloc") => top \in DOMAIN frames
  /\ Idle => /\ pool \in {<< >>, <<SysargsCell>>}
             /\ top = 0
             /\ buf = NoBuf
  /\ \A v \in Var : vars[v] \in Word /\ (vars[v].kind = "object" => vars[v].n \in DOMAIN objs)

-----------------------------------------------------------------------------
(* Why the extra roots stay a stack: the inductive invariant.              *)

Earlier(f, o)    == \E k \in 1..f.pc - 1 : Body(f)[k].op = o
Later(f, o)      == \E k \in f.pc..Len(Body(f)) : Body(f)[k].op = o
Between(f, o, p) == Earlier(f, o) /\ Later(f, p)

\* What frame d has registered and not yet removed.
HeldCells(d) == IF Between(frames[d], "push", "pop") THEN Registers(d) ELSE << >>
Published    == IF global_sysargs = Null THEN << >> ELSE <<SysargsCell>>

PoolIsStack == pool = Published \o FlattenSeq([d \in DOMAIN frames |-> HeldCells(d)])

\* The outermost function inside its PRE_GC and POST_GC has set __gc_stack_top.
TopIsOutermost ==
  /\ {d \in DOMAIN frames : Resets(frames[d])} = {top} \ {0}
  /\ \A d \in DOMAIN frames :
       /\ Between(frames[d], "PRE_GC", "POST_GC") => top # 0 /\ top <= d
       /\ ~Earlier(frames[d], "PRE_GC") => ~frames[d].flag

BufferInUse ==
  buf # NoBuf => \E d \in DOMAIN frames : Between(frames[d], "print", "delete")

\* A word is stale, or leads to an object that is there.
Follows(w) == w \in Word /\ (w.kind = "object" => w.n \in DOMAIN objs)

\* An object that a function is about to fill has fields without a value.
Unfilled == IF At_op("fill") THEN {cur.obj} ELSE {}

WordsFollow ==
  /\ vars \in [Var -> Word] /\ \A v \in Var : IsValue(vars[v], objs)
  /\ actual \in Seq(Word) /\ \A k \in DOMAIN actual : IsValue(actual[k], objs)
  /\ IsFiniteSet(DOMAIN objs)
  /\ \A i \in DOMAIN objs :
       /\ IsObject(objs[i])
       /\ \A w \in WordsOf(objs[i]) : Follows(w) /\ (Ref(i) \notin Unfilled => IsValue(w, objs))
  /\ Follows(global_sysargs) /\ (global_sysargs = Null \/ global_sysargs.kind = "object")
  /\ \A d \in DOMAIN frames : LET f == frames[d]
                              IN  /\ \A k \in DOMAIN f.mem : Follows(f.mem[k])
                                  /\ Follows(f.obj) /\ Follows(f.addr)

\* A word that function g may copy into an object: a value, for Bstring also the
\* address of a C string.
Usable(g, w) == IF g = "Bstring" THEN ~Stale(w) ELSE w.kind \in {"int", "object"}

Callees == {"LmakeString", "LmakeArray", "Bstring", "Bsexp", "Barray", "Lstring"}

\* The cells that frame d may read: arguments and words of the frames below it.
Reachable(d) ==
  {<<0, k>> : k \in DOMAIN actual} \cup UNION {{<<e, k>> : k \in DOMAIN frames[e].mem} : e \in 1..d}

FrameInOrder(d) ==
  LET f == frames[d]
  IN  /\ f = [fn |-> f.fn, pc |-> f.pc, args |-> f.args, mem |-> f.mem, obj |-> f.obj,
              addr |-> f.addr, n |-> f.n, t |-> f.t, flag |-> f.flag]
      /\ f.fn \in Functions \cup Callees \cup {"set_args"}
      /\ d > 1 => f.fn \in Callees
      /\ f.pc \in 1..Len(Body(f))
      /\ d < depth => f.pc > 1 /\ Body(f)[f.pc - 1].op = "call"
      /\ f.args \in Seq(Reachable(d))
      /\ Later(f, "fill") \/ Later(f, "same") => \A k \in DOMAIN f.args : Usable(f.fn, At(f.args[k]))
      /\ \A k \in f.pc..Len(Body(f)) :
           Body(f)[k].op = "call" =>
             \A i \in Range(Body(f)[k].is) : i \in DOMAIN f.mem /\ Usable(Body(f)[k].fn, f.mem[i])

\* What is particular to one function.
ArgumentsFit(d) ==
  LET f == frames[d]
  IN  /\ f.fn \in {"RVBarray", "RVBsexp", "set_args"} => f.n \in Nat
      /\ f.fn \in {"LmakeString", "LmakeArray", "Lfread", "set_args"} => f.args = << >>
      /\ f.fn = "Lsubstring" => Len(f.args) >= 1 /\ \A k \in DOMAIN f.args : f.args[k][1] = 0
      /\ f.fn = "Lclone" => f.args = <<<<0, 1>>>> /\ (f.t # "int" => actual[1].kind = "object")
      /\ f.fn = "set_args" =>
           /\ DOMAIN f.mem = 1..f.n + 1 /\ \A k \in 2..f.n + 1 : f.mem[k].kind = "raw"
           /\ IF Earlier(f, "hold") THEN f.mem[1].kind = "object" ELSE f.mem[1] = Null
           /\ Later(f, "publish") => global_sysargs = Null

\* The running function has its object as soon as there is one, and it is new.
ObjectAtHand ==
  depth > 0 =>
    /\ ~Stale(cur.obj)
    /\ Earlier(cur, "same") => IsValue(cur.obj, objs)
    /\ Earlier(cur, "alloc") \/ Earlier(cur, "call") => cur.obj.kind = "object"
    /\ At_op("fill") /\ cur.fn = "Lclone" => cur.obj # actual[1]

RootsInvariant ==
  /\ status \in {"running", "failed"}
  /\ Len(pool) <= MAX_EXTRA_ROOTS_NUMBER
  /\ frames \in Seq(Range(frames)) /\ (depth = 0 => actual = << >>)
  /\ PoolIsStack /\ TopIsOutermost /\ BufferInUse /\ WordsFollow
  /\ \A d \in DOMAIN frames : FrameInOrder(d) /\ ArgumentsFit(d)
  /\ ObjectAtHand

-----------------------------------------------------------------------------
\* A call that is running, as its caller sees it.
called ==
  IF frames = << >> THEN NoCall
  ELSE LET f == frames[1]
       IN  [fn |-> f.fn, n |-> f.n, t |-> f.t, dst |-> dst,
            words |-> IF f.fn = "set_args" THEN << >> ELSE [k \in DOMAIN f.args |-> At(f.args[k])]]

published == IF called # NoCall /\ called.fn = "set_args" THEN Null ELSE global_sysargs

visible ==
  Keep(objs, {vars[v] : v \in Var} \cup {published}
             \cup (IF called = NoCall THEN {} ELSE Range(called.words)))

\* Every function returns what it was called for, computed from the arguments as
\* they were, and changes nothing else that the program can see, wherever the
\* collector moves the objects meanwhile; it ends the program only for arguments
\* that it refuses.
Promise == INSTANCE RuntimeCalls
           WITH env <- vars, call <- called, store <- visible, sysargs <- published,
                Room <- MAX_EXTRA_ROOTS_NUMBER

ImplementsRuntimeCalls == Promise!Spec

-----------------------------------------------------------------------------
(* What comparison, hashing and the patterns owe to each other.            *)

HeldWords ==
  Held \cup UNION {Range(Object(w).elems) : w \in {v \in Objects : ~IsString(v)}}

Sign(n) == IF n > 0 THEN 1 ELSE IF n < 0 THEN -1 ELSE 0

HalfRange(w) == UNBOXED(w) => UNBOX(w) \in -(2^(IntBits-2))..(2^(IntBits-2) - 1)
Ordered(w) ==
  HalfRange(w) /\ \A i \in Reach(objs, {w}) : IsString(Ref(i)) \/ \A x \in Range(objs[i].elems) : HalfRange(x)

\* Lcompare decides a total preorder, whatever it compares, that agrees with
\* Bstring_patt: lists are sorted and searched with it (stdlib).  For integers of
\* the upper half of the range the difference does not fit.
CompareOrders ==
  Idle =>
    LET W == {w \in HeldWords : Ordered(w)}
        sign == [p \in W \X W |-> Sign(Lcompare(objs, p[1], p[2]))]
    IN  /\ \A x, y \in W : sign[<<x, y>>] = -sign[<<y, x>>]
        /\ \A x, y, z \in W :
             sign[<<x, y>>] <= 0 /\ sign[<<y, z>>] <= 0 => sign[<<x, z>>] <= 0
        /\ \A x \in W, y \in {w \in W : IsString(w)} :
             Bstring_patt(objs, x, y) <=> sign[<<x, y>>] = 0

NoNUL(w) == \A i \in Reach(objs, {w}) : IsString(Ref(i)) => NUL \notin Range(objs[i].elems)

\* Values that Lcompare calls equal have the same Lhash, on which the hash tables
\* of the library depend; strings with a NUL among their characters have not, as
\* Lhash takes their whole length.
EqualValuesHashAlike ==
  Idle =>
    \A x, y \in {w \in HeldWords : NoNUL(w)} :
      Lcompare(objs, x, y) = 0 => Lhash(objs, x) = Lhash(objs, y)

Names == UNION {[1..l -> 0..(Base - 1)] : l \in 1..(MAX_SEXP_TAGLEN + 1)}
Compiled == {s \in Names : hash_checked(s) /\ 2 * LtagHash(s) + 1 < 2^(ImmBits - 1)}
Patterns == {s \in Compiled : Len(s) <= MAX_SEXP_TAGLEN}
Encoded  == {[name |-> s, tag |-> compiled_tag(s)] : s \in Patterns}
NamesEncoded ==
  /\ \A s \in Names : s[1] # 0 => hash_checked(s)
  /\ \A e \in Encoded : de_hash(e.tag) = e.name
  /\ \E e \in Encoded : e.tag = ConsTag

\* A constructor's name survives LtagHash, the immediate of li, Bsexp and de_hash,
\* and a value is matched by the pattern of one name only, the one it prints: the
\* lists that the runtime makes itself too.  Names whose hash does not fit in an
\* immediate are exempt.
TagsFaithful ==
  /\ NamesEncoded
  /\ Idle => \A w \in {v \in HeldWords : v.kind = "object" /\ Object(v).kind = "SEXP"} :
       \E e \in Encoded :
         /\ {p \in Encoded : Btag(objs, w, p.tag, Len(Object(w).elems))} = {e}
         /\ LET text == printValue(objs, w)
            IN  IF e.tag = ConsTag THEN text[1] = OpenList
                ELSE SubSeq(text, 1, Len(e.name)) = [k \in DOMAIN e.name |-> Letter(e.name[k])]
=============================================================================
