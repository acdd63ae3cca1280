------------------------------ MODULE LamaValues ------------------------------
(***************************************************************************)
(* What the runtime computes from values and does not change: comparison,  *)
(* hashing, printing, the patterns, and the hash of the names of           *)
(* constructors, which comp/src/runtime.cpp computes a second time.  A     *)
(* word is an unboxed integer, a reference to an object of a store, or an  *)
(* address outside the heap; a store is a function from identities to      *)
(* objects.                                                                *)
(***************************************************************************)
EXTENDS Integers, SequencesExt

CONSTANTS
  IntBits,          \* bits of an unboxed integer
  ImmBits,          \* bits of the immediate of li in the compiler: an int
  CharBits,         \* bits of one character of a hashed name
  MAX_SEXP_TAGLEN,
  HASH_DEPTH,
  ConsTag           \* LtagHash("cons")

ASSUME ValuesAssumption ==
  /\ {IntBits, ImmBits, CharBits, MAX_SEXP_TAGLEN, ConsTag} \subseteq Nat \ {0}
  /\ HASH_DEPTH \in Nat

Kinds == {"STRING", "ARRAY", "SEXP", "CLOSURE"}
Word  == [kind : {"int", "object", "raw", "stale"}, n : Int]

BOX(n)     == [kind |-> "int", n |-> n]
UNBOX(w)   == w.n
UNBOXED(w) == w.kind = "int"
Ref(i)     == [kind |-> "object", n |-> i]
Raw(b)     == [kind |-> "raw", n |-> b]
Null       == Raw(0)

\* tag: the hash of a constructor's name, or the code of a closure.
Obj(k, t, es) == [kind |-> k, tag |-> t, elems |-> es]
IsObject(o)   == o = Obj(o.kind, o.tag, o.elems)

\* n as a signed integer of b bits.
Wrapped(n, b) == ((n + 2^(b-1)) % 2^b) - 2^(b-1)

-----------------------------------------------------------------------------
(* Strings: sequences of characters, each a boxed code.  A C string ends   *)
(* before the first NUL, and LmakeString makes strings of NULs.            *)

NUL == BOX(0)
Zeros(n) == [i \in 1..n |-> NUL]

CStr(s) ==
  LET k == SelectInSeq(s, LAMBDA c : c = NUL)
  IN  IF k = 0 THEN s ELSE SubSeq(s, 1, k - 1)

\* What strncpy(_, s, Len(s)) writes.
Strncpy(s) == CStr(s) \o Zeros(Len(s) - Len(CStr(s)))

strcmp(s, t) ==
  LET at(u, i) == IF i <= Len(u) THEN UNBOX(u[i]) ELSE 0
      differ   == {i \in 1..(Len(s) + Len(t)) : at(s, i) # at(t, i)}
  IN  IF differ = {} THEN 0 ELSE at(s, Min(differ)) - at(t, Min(differ))

-----------------------------------------------------------------------------
(* Lcompare, for values that are integers or objects.                      *)

TAG(k) == CASE k = "STRING" -> 1 [] k = "ARRAY" -> 3 [] k = "SEXP" -> 5 [] k = "CLOSURE" -> 7

FirstNonZero(ds) ==
  LET k == SelectInSeq(ds, LAMBDA d : d # 0) IN IF k = 0 THEN 0 ELSE ds[k]

\* Mistaken variant: constructors are told apart by the number of fields only.
KindAndLength(a, b) ==
  IF a.kind = "STRING" /\ b.kind = "STRING" THEN strcmp(CStr(a.elems), CStr(b.elems))
  ELSE FirstNonZero(<<TAG(a.kind) - TAG(b.kind), Len(a.elems) - Len(b.elems)>>)

\* COMPARE_AND_RETURN of kinds, then of tags or code pointers, then of lengths.
compare_headers(a, b) ==
  IF a.kind = "STRING" /\ b.kind = "STRING" THEN strcmp(CStr(a.elems), CStr(b.elems))
  ELSE FirstNonZero(<<TAG(a.kind) - TAG(b.kind), a.tag - b.tag, Len(a.elems) - Len(b.elems)>>)

\* Mistaken variant: the case of an unboxed second argument is left out.
UnboxedIsLess(p, q) ==
  IF UNBOXED(p) /\ UNBOXED(q) THEN Wrapped(UNBOX(p) - UNBOX(q), IntBits) ELSE -1

\* One of the two is unboxed.
compare_unboxed(p, q) ==
  IF UNBOXED(p) /\ UNBOXED(q) THEN Wrapped(UNBOX(p) - UNBOX(q), IntBits)
  ELSE IF UNBOXED(p) THEN -1 ELSE 1

Lcompare(st, x, y) ==
  LET compare[p \in Word, q \in Word] ==
        IF p = q THEN 0
        ELSE IF UNBOXED(p) \/ UNBOXED(q) THEN compare_unboxed(p, q)
        ELSE LET a == st[p.n]
                 b == st[q.n]
                 h == compare_headers(a, b)
             IN  IF h # 0 \/ a.kind = "STRING" THEN h
                 ELSE FirstNonZero([i \in DOMAIN a.elems |-> compare[a.elems[i], b.elems[i]]])
  IN  compare[x, y]

-----------------------------------------------------------------------------
(* inner_hash: the numbers that HASH_APPEND mixes in, in order.            *)

Lhash(st, x) ==
  LET hashed[d \in Nat, p \in Word] ==
        IF d > HASH_DEPTH THEN << >>
        ELSE IF UNBOXED(p) THEN <<UNBOX(p)>>
        ELSE LET a == st[p.n]
             IN  <<TAG(a.kind), Len(a.elems)>>
                 \o (IF a.kind \in {"SEXP", "CLOSURE"} THEN <<a.tag>> ELSE << >>)
                 \o (IF a.kind = "STRING" THEN [i \in DOMAIN CStr(a.elems) |-> UNBOX(a.elems[i])]
                     ELSE FlattenSeq([i \in DOMAIN a.elems |-> hashed[d + 1, a.elems[i]]]))
  IN  hashed[0, x]

-----------------------------------------------------------------------------
(* The names of constructors: sequences of positions in the string chars.  *)

Base == 2^CharBits

LtagHash(s) ==
  FoldLeft(LAMBDA h, c : h * Base + c, 0,
           SubSeq(s, 1, IF Len(s) < MAX_SEXP_TAGLEN THEN Len(s) ELSE MAX_SEXP_TAGLEN))

de_hash(h) ==
  LET digits[n \in Nat] == IF n = 0 THEN << >> ELSE Append(digits[n \div Base], n % Base)
  IN  digits[h]

\* LtagHash ends the program unless this holds.
hash_checked(s) ==
  LET l == IF Len(s) < MAX_SEXP_TAGLEN THEN Len(s) ELSE MAX_SEXP_TAGLEN
  IN  de_hash(LtagHash(s)) = SubSeq(s, 1, l)

\* Mistaken variant: the compiler passes the hash unboxed.
UnboxedTag(s) == Wrapped(LtagHash(s), ImmBits) \div 2

\* SExpression and Tag pass BOX(hash) as the immediate of li, Bsexp and Btag
\* unbox it.
compiled_tag(s) == (Wrapped(2 * LtagHash(s) + 1, ImmBits) - 1) \div 2

Btag(st, d, t, n) ==
  /\ ~UNBOXED(d)
  /\ st[d.n].kind = "SEXP" /\ st[d.n].tag = t /\ Len(st[d.n].elems) = n

Bstring_patt(st, x, y) ==
  /\ ~UNBOXED(x)
  /\ st[x.n].kind = "STRING"
  /\ strcmp(CStr(st[x.n].elems), CStr(st[y.n].elems)) = 0

-----------------------------------------------------------------------------
(* printValue and stringcat: the characters they append to the buffer.     *)
(* An integer, a bracket, a separator or a letter of a name is one         *)
(* character.                                                              *)

Digit(n)   == BOX(100 + n)
Letter(c)  == BOX(40 + c)
Quote      == BOX(30)
Comma      == BOX(31)
Open(k)    == BOX(20 + TAG(k))
Close(k)   == BOX(21 + TAG(k))
OpenList   == BOX(32)
CloseList  == BOX(33)
Invalid    == BOX(34)

Separated(ss) ==
  FlattenSeq([i \in DOMAIN ss |-> IF i = 1 THEN ss[i] ELSE <<Comma>> \o ss[i]])

\* The elements of a list: the loops go on while the second field is boxed.
ListCells(st, i) ==
  LET cells[w \in Word] == IF UNBOXED(w) THEN << >> ELSE <<w.n>> \o cells[st[w.n].elems[2]]
  IN  cells[Ref(i)]

printValue(st, x) ==
  LET shown[p \in Word] ==
        IF UNBOXED(p) THEN <<Digit(UNBOX(p))>>
        ELSE
          LET a == st[p.n]
              parts == [i \in DOMAIN a.elems |-> shown[a.elems[i]]]
          IN  CASE a.kind = "STRING" -> <<Quote>> \o CStr(a.elems) \o <<Quote>>
                [] a.kind \in {"ARRAY", "CLOSURE"} ->
                     <<Open(a.kind)>>
                     \o (IF a.kind = "CLOSURE" THEN <<Digit(a.tag)>> \o (IF parts = << >> THEN << >> ELSE <<Comma>>)
                         ELSE << >>)
                     \o Separated(parts) \o <<Close(a.kind)>>
                [] a.kind = "SEXP" /\ a.tag = ConsTag ->
                     <<OpenList>>
                     \o Separated([k \in DOMAIN ListCells(st, p.n) |->
                                     shown[st[ListCells(st, p.n)[k]].elems[1]]])
                     \o <<CloseList>>
                [] OTHER ->
                     [k \in DOMAIN de_hash(a.tag) |-> Letter(de_hash(a.tag)[k])]
                     \o (IF parts = << >> THEN << >>
                         ELSE <<Open("SEXP")>> \o Separated(parts) \o <<Close("SEXP")>>)
  IN  shown[x]

stringcat(st, x) ==
  LET joined[p \in Word] ==
        IF UNBOXED(p) THEN << >>
        ELSE LET a == st[p.n]
             IN  CASE a.kind = "STRING" -> CStr(a.elems)
                   [] a.kind = "SEXP" /\ a.tag = ConsTag ->
                        FlattenSeq([k \in DOMAIN ListCells(st, p.n) |->
                                      joined[st[ListCells(st, p.n)[k]].elems[1]]])
                   [] OTHER -> <<Invalid>>
  IN  joined[x]

-----------------------------------------------------------------------------
(* Reachability in a store, for the collector and for the properties.      *)

Referred(ws) == {w.n : w \in {v \in ws : v.kind = "object"}}

\* The words of an object that the field iterator visits: none of a string.
WordsOf(o) == IF o.kind = "STRING" THEN {} ELSE Range(o.elems)

Reach(st, ws) ==
  LET close[S \in SUBSET DOMAIN st] ==
        LET T == S \cup UNION {Referred(WordsOf(st[i])) : i \in S}
        IN  IF T = S THEN S ELSE close[T]
  IN  close[Referred(ws)]

Keep(st, ws) == [i \in Reach(st, ws) |-> st[i]]
=============================================================================
