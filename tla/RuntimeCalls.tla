----------------------------- MODULE RuntimeCalls -----------------------------
(***************************************************************************)
(* What the functions of the runtime that make new values promise to the   *)
(* program that calls them.  A call takes words and returns one new        *)
(* object, whose contents depend on what the arguments were when it was    *)
(* called; nothing else that the program can see changes.  There is no     *)
(* collector here: the store holds what the program can reach.             *)
(***************************************************************************)
EXTENDS LamaValues

CONSTANTS Var, Ids,
          Outside,   \* the C strings that lie outside the heap
          Argv,      \* those among them that are the program's arguments
          Room,      \* extra roots that one constructor can register
          Absent,    \* stands for the text that the outside does not give
          Started,   \* the values that the program may have at the beginning
          NoCall

VARIABLES env,      \* Var -> word
          call,     \* the function that is running, with its arguments
          store,    \* what the program can reach
          sysargs,  \* the array of the program's arguments, when there is one
          status

vars == <<env, call, store, sysargs, status>>

Running == status = "running"
Roots(e, a, s) == {e[v] : v \in Var} \cup {a[k] : k \in DOMAIN a} \cup {s}

Init ==
  /\ [vars |-> env, objs |-> store] \in Started
  /\ \/ call = NoCall
     \/ store = << >> /\ call = [fn |-> "set_args", words |-> << >>, n |-> Len(Argv), t |-> 0, dst |-> ""]
  /\ sysargs = Null
  /\ status = "running"

Begin ==
  /\ Running /\ call = NoCall
  /\ call' # NoCall
  /\ \A k \in DOMAIN call'.words :
        \/ call'.words[k] \in {env[v] : v \in Var}
        \/ call'.words[k].kind \in {"int", "raw"}
  /\ UNCHANGED <<env, store, sysargs, status>>

\* Variables are assigned integers and fields of objects that variables hold.
Load ==
  /\ Running /\ call = NoCall
  /\ \E d \in Var :
       /\ env' = [env EXCEPT ![d] = env'[d]]
       /\ \/ UNBOXED(env'[d])
          \/ \E v \in Var : \E i \in Referred({env[v]}) :
               \E k \in DOMAIN store[i].elems : env'[d] = store[i].elems[k]
  /\ store' = Keep(store, Roots(env', << >>, sysargs))
  /\ UNCHANGED <<call, sysargs, status>>

-----------------------------------------------------------------------------
W(k)    == call.words[k]
At(k)   == store[W(k).n]
Str(s)  == Obj("STRING", 0, s)
Text(k) == IF W(k).kind = "raw" THEN CStr(Outside[W(k).n]) ELSE CStr(At(k).elems)

IsString(k) == W(k).kind = "object" /\ At(k).kind = "STRING"

\* The object that the call is to return.
Made ==
  CASE call.fn = "LmakeString" -> Str(Zeros(call.n))
    [] call.fn = "LmakeArray" -> Obj("ARRAY", 0, Zeros(call.n))
    [] call.fn \in {"Bstring", "RVBstring", "Bsprintf"} -> Str(Text(1))
    [] call.fn \in {"LgetEnv", "LreadLine"} -> Str(CStr(Outside[call.t]))
    [] call.fn = "Lfread" -> Str(Outside[call.t])
    [] call.fn = "Lclone" -> IF IsString(1) THEN Str(Text(1)) ELSE At(1)
    [] call.fn = "Lsubstring" ->
         Str(Strncpy(SubSeq(At(1).elems, UNBOX(W(2)) + 1, UNBOX(W(2)) + UNBOX(W(3)))))
    [] call.fn = "Li__Infix_4343" -> Str(Strncpy(At(1).elems) \o Strncpy(At(2).elems))
    [] call.fn \in {"Lstring", "RVLstring"} -> Str(printValue(store, W(1)))
    [] call.fn = "Lstringcat" -> Str(stringcat(store, W(1)))
    [] call.fn \in {"Barray", "RVBarray"} -> Obj("ARRAY", 0, call.words)
    [] call.fn \in {"Bsexp", "RVBsexp"} -> Obj("SEXP", call.t, call.words)
    [] call.fn = "Bclosure" -> Obj("CLOSURE", call.t, call.words)
    [] call.fn = "Ls__Infix_58" -> Obj("SEXP", ConsTag, call.words)

\* The calls that end the program.
Refused ==
  \/ call.fn = "Lfread" /\ call.t = Absent
  \/ call.fn = "Li__Infix_4343" /\ ~(IsString(1) /\ IsString(2))
  \/ call.fn = "Bsprintf" /\ ~IsString(1)
  \/ call.fn = "Lsubstring"
     /\ (IsString(1) => UNBOX(W(2)) + UNBOX(W(3)) > Len(At(1).elems))
  \/ call.fn \in {"Barray", "RVBarray", "Bsexp", "RVBsexp", "Bclosure", "Ls__Infix_58"}
     /\ Len(call.words) > Room - (IF sysargs = Null THEN 0 ELSE 1)

\* The calls that return an unboxed value.
Unmade ==
  \/ call.fn = "Lclone" /\ UNBOXED(W(1))
  \/ call.fn \in {"LgetEnv", "LreadLine"} /\ call.t = Absent

With(i, o, st) == [j \in DOMAIN st \cup {i} |-> IF j = i THEN o ELSE st[j]]

Return ==
  /\ Running /\ call # NoCall /\ call.fn # "set_args"
  /\ ~Refused
  /\ \/ /\ Unmade
        /\ env' = [env EXCEPT ![call.dst] = IF call.fn = "Lclone" THEN W(1) ELSE BOX(0)]
        /\ store' = Keep(store, Roots(env', << >>, sysargs))
     \/ /\ ~Unmade
        /\ \E i \in Ids \ DOMAIN store :
             /\ env' = [env EXCEPT ![call.dst] = Ref(i)]
             /\ store' = Keep(With(i, Made, store), Roots(env', << >>, sysargs))
  /\ call' = NoCall
  /\ UNCHANGED <<sysargs, status>>

\* Every argument is a string of the array, or is lost: its place keeps the 0
\* that LmakeArray stored there.
ReturnSysargs ==
  /\ Running /\ call # NoCall /\ call.fn = "set_args"
  /\ \E a \in Ids, is \in [DOMAIN Argv -> Ids], lost \in SUBSET DOMAIN Argv :
       /\ a \notin {is[k] : k \in DOMAIN Argv}
       /\ \A j, k \in DOMAIN Argv : j # k => is[j] # is[k]
       /\ sysargs' = Ref(a)
       /\ store' = Keep([i \in {a} \cup {is[k] : k \in DOMAIN Argv} |->
                           IF i = a
                           THEN Obj("ARRAY", 0, [k \in DOMAIN Argv |-> IF k \in lost THEN BOX(0) ELSE Ref(is[k])])
                           ELSE Str(Outside[Argv[CHOOSE k \in DOMAIN Argv : is[k] = i]])],
                        {sysargs'})
  /\ call' = NoCall
  /\ UNCHANGED <<env, status>>

Fail ==
  /\ Running /\ call # NoCall
  /\ \/ Refused
     \/ call.fn = "LreadLine" /\ call.t = Absent
  /\ status' = "failed"
  /\ UNCHANGED <<env, call, store, sysargs>>

Next == Begin \/ Load \/ Return \/ ReturnSysargs \/ Fail

Spec == Init /\ [][Next]_vars
=============================================================================
