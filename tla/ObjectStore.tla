----------------------------- MODULE ObjectStore -----------------------------
(***************************************************************************)
(* What the runtime's memory promises to a Lama program: variables that    *)
(* hold values, objects that keep their identity and their fields, and an  *)
(* unlimited supply of new objects.  There are no addresses here and no    *)
(* collector: an object that no variable reaches may be forgotten at any   *)
(* time, and nothing else ever happens to an object unless the program     *)
(* does it.                                                                *)
(***************************************************************************)
EXTENDS Naturals, Sequences

CONSTANTS Var,      \* the variables of the program
          Ids,      \* identities of objects
          Shape,    \* kind, length and number of fields of the objects it makes
          Plain,    \* values that are no objects
          Zero,     \* the value that LmakeArray stores in every field
          NoCall

VARIABLES env,    \* Var -> value
          call,   \* the constructor that is running: the object it is to make
          store   \* identity -> object

vars == <<env, call, store>>

Ref(i) == <<"object", i>>

ReferencesOf(flds) == {i \in Ids : \E k \in 1..Len(flds) : flds[k] = Ref(i)}

\* A set of objects that holds everything the program can reach.
Sufficient(K) ==
  /\ \A v \in Var : \A i \in Ids : env[v] = Ref(i) => i \in K
  /\ call # NoCall => ReferencesOf(call.flds) \subseteq K
  /\ \A j \in K : ReferencesOf(store[j].flds) \subseteq K

Init ==
  /\ env \in [Var -> Plain]
  /\ call = NoCall
  /\ store = << >>

\* A constructor is called with the values of some variables.
Call ==
  /\ call = NoCall
  /\ \E s \in Shape, v \in Var, z \in BOOLEAN : \E ls \in [1..s.fields -> Var] :
       call' = [kind |-> s.kind, len |-> s.len, var |-> v,
                flds |-> [k \in 1..s.fields |-> IF z THEN Zero ELSE env[ls[k]]]]
  /\ UNCHANGED <<env, store>>

\* It returns an object like no other, and the program stores it.
Return ==
  /\ call # NoCall
  /\ \E i \in Ids \ DOMAIN store :
       /\ store' = [j \in DOMAIN store \cup {i} |->
                      IF j = i THEN [kind |-> call.kind, len |-> call.len, flds |-> call.flds]
                      ELSE store[j]]
       /\ env' = [env EXCEPT ![call.var] = Ref(i)]
  /\ call' = NoCall

\* The values the program can get at in one step.
Loadable ==
  Plain \cup {env[v] : v \in Var}
        \cup UNION {{store[i].flds[k] : k \in 1..Len(store[i].flds)} :
                      i \in {j \in DOMAIN store : \E v \in Var : env[v] = Ref(j)}}

\* One variable gets the value of another, of a field or of a constant.
Assign ==
  /\ \E v \in Var, x \in Loadable : env' = [env EXCEPT ![v] = x]
  /\ UNCHANGED <<call, store>>

\* One field of an object that a variable holds gets the value of a variable.
SetField ==
  /\ \E i \in DOMAIN store, o \in Var, v \in Var :
       /\ env[o] = Ref(i)
       /\ \E k \in 1..Len(store[i].flds) : store' = [store EXCEPT ![i].flds[k] = env[v]]
  /\ UNCHANGED <<env, call>>

Forget ==
  /\ \E K \in SUBSET DOMAIN store :
       /\ Sufficient(K)
       /\ store' = [i \in K |-> store[i]]
  /\ UNCHANGED <<env, call>>

Next == Call \/ Return \/ Assign \/ SetField \/ Forget

Spec == Init /\ [][Next]_vars
=============================================================================
