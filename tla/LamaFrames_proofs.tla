-------------------------- MODULE LamaFrames_proofs ---------------------------
(***************************************************************************)
(* The functions of the runtime and their activation records: the order of *)
(* the steps in every body, what a collection keeps, and what a step of    *)
(* the innermost function does to the frames, the pool of extra roots and  *)
(* __gc_stack_top.                                                         *)
(***************************************************************************)
EXTENDS LamaRuntime, SequenceTheorems, FiniteSetTheorems, WellFoundedInduction, TLAPS

-----------------------------------------------------------------------------
(* Induction: every set of natural numbers has a least element.            *)

\* Proofs by induction below take the least number for which a claim fails.
LEMMA LeastNumber ==
  ASSUME NEW T, T \subseteq Nat, T # {}
  PROVE  \E n \in T : \A m \in T : n <= m
<1>1. \A m, n \in Nat : m < n => <<m, n>> \in OpToRel(<, Nat)
  BY DEF OpToRel
<1>2. PICK R : IsWellFoundedOn(R, Nat) /\ \A m, n \in Nat : m < n => <<m, n>> \in R
  BY <1>1, NatLessThanWellFounded, Zenon
<1>3. IsWellFoundedOn(R, Nat)
  BY <1>2
<1>4. PICK n \in T : \A m \in T : ~(<<m, n>> \in R)
  BY <1>3, WFMin, Zenon
<1>5. \A m \in T : m \in Nat /\ n \in Nat /\ ~(m < n)
  BY <1>2, <1>4
<1> QED
  BY <1>5

\* The same, as mathematical induction.
LEMMA Induction ==
  ASSUME NEW S, 0 \in S, \A n \in Nat : n \in S => n + 1 \in S
  PROVE  Nat \subseteq S
<1> DEFINE T == Nat \ S
<1> SUFFICES ASSUME T # {}
             PROVE  FALSE
  OBVIOUS
<1>1. PICK n \in T : \A m \in T : n <= m
  BY LeastNumber
<1>2. n \in Nat /\ n # 0
  BY <1>1
<1>3. n - 1 \in Nat /\ n - 1 \notin T
  BY <1>1, <1>2
<1>4. (n - 1) + 1 \in S
  BY <1>3
<1> QED
  BY <1>1, <1>2, <1>4

-----------------------------------------------------------------------------
(* FlattenSeq: the concatenation of a sequence of sequences.               *)

\* The equation of the function that FlattenSeq is defined by.
Flattens(f, s, n) == f = [i \in 1..n |-> IF i = 1 THEN s[i] ELSE f[i - 1] \o s[i]]

\* There is such a function.
LEMMA FlattensExists ==
  ASSUME NEW s, NEW n \in Nat
  PROVE  \E f : Flattens(f, s, n)
<1> DEFINE S == {m \in Nat : \E f : Flattens(f, s, m)}
<1>1. 0 \in S
  <2> DEFINE f == [i \in 1..0 |-> s[i]]
  <2>1. f = [i \in 1..0 |-> IF i = 1 THEN s[i] ELSE f[i - 1] \o s[i]]
    OBVIOUS
  <2>2. Flattens(f, s, 0)
    BY <2>1 DEF Flattens
  <2> QED
    BY <2>2
<1>2. ASSUME NEW m \in Nat, m \in S
      PROVE  m + 1 \in S
  <2>1. PICK f : Flattens(f, s, m)
    BY <1>2
  <2> DEFINE g == [i \in 1..m + 1 |-> IF i = 1 THEN s[i] ELSE IF i <= m THEN f[i] ELSE f[m] \o s[i]]
  <2>2. \A i \in 1..m : g[i] = f[i]
    BY <2>1 DEF Flattens
  <2>3. ASSUME NEW i \in 1..m + 1, i # 1
        PROVE  g[i] = g[i - 1] \o s[i]
    <3>1. i - 1 \in 1..m /\ i \in Nat
      BY <2>3
    <3>2. g[i - 1] = f[i - 1]
      BY <2>2, <3>1
    <3>3. CASE i <= m
      <4>1. i \in 1..m
        BY <3>1, <3>3
      <4>2. f[i] = f[i - 1] \o s[i]
        BY <2>1, <2>3, <4>1 DEF Flattens
      <4> QED
        BY <2>2, <3>2, <4>1, <4>2
    <3>4. CASE ~(i <= m)
      <4>1. i = m + 1 /\ i - 1 = m
        BY <3>1, <3>4
      <4> QED
        BY <2>3, <3>2, <3>4, <4>1
    <3> QED
      BY <3>3, <3>4
  <2>4. g = [i \in 1..m + 1 |-> IF i = 1 THEN s[i] ELSE g[i - 1] \o s[i]]
    BY <2>3
  <2>5. Flattens(g, s, m + 1)
    BY <2>4 DEF Flattens
  <2> QED
    BY <2>5
<1>3. Nat \subseteq S
  <2> HIDE DEF S
  <2> QED
    BY <1>1, <1>2, Induction
<1> QED
  BY <1>3

\* It depends on the elements only.
LEMMA FlattensUnique ==
  ASSUME NEW s, NEW t, NEW m \in Nat, NEW n \in Nat, NEW f, NEW g,
         Flattens(f, s, m), Flattens(g, t, n), m <= n, \A i \in 1..m : s[i] = t[i]
  PROVE  \A i \in 1..m : f[i] = g[i]
<1> DEFINE T == {i \in 1..m : f[i] # g[i]}
<1> SUFFICES ASSUME T # {}
             PROVE  FALSE
  OBVIOUS
<1>1. PICK i \in T : \A j \in T : i <= j
  <2>1. T \subseteq Nat
    OBVIOUS
  <2> QED
    BY <2>1, LeastNumber
<1>2. i \in 1..m /\ i \in 1..n /\ f[i] # g[i] /\ s[i] = t[i]
  BY <1>1
<1>3. CASE i = 1
  BY <1>2, <1>3 DEF Flattens
<1>4. CASE i # 1
  <2>1. i - 1 \in 1..m /\ i - 1 \notin T
    BY <1>1, <1>2, <1>4
  <2>2. f[i - 1] = g[i - 1]
    BY <2>1
  <2>3. f[i] = f[i - 1] \o s[i] /\ g[i] = g[i - 1] \o t[i]
    BY <1>2, <1>4 DEF Flattens
  <2> QED
    BY <1>2, <2>2, <2>3
<1> QED
  BY <1>3, <1>4

\* FlattenSeq is the last value of any such function.
LEMMA FlattenIs ==
  ASSUME NEW S, NEW s \in Seq(S), NEW n \in Nat, n = Len(s)
  PROVE  /\ n = 0 => FlattenSeq(s) = << >>
         /\ n > 0 => \E f : Flattens(f, s, n) /\ FlattenSeq(s) = f[n]
<1>1. CASE n = 0
  <2>1. s = << >> /\ Len(s) = 0
    BY <1>1, EmptySeq
  <2> QED
    BY <1>1, <2>1 DEF FlattenSeq
<1>2. CASE n > 0
  <2> DEFINE f == CHOOSE f : f = [i \in 1..Len(s) |-> IF i = 1 THEN s[i] ELSE f[i - 1] \o s[i]]
  <2>1. \E h : h = [i \in 1..Len(s) |-> IF i = 1 THEN s[i] ELSE h[i - 1] \o s[i]]
    BY FlattensExists DEF Flattens
  <2>2. f = [i \in 1..Len(s) |-> IF i = 1 THEN s[i] ELSE f[i - 1] \o s[i]]
    BY <2>1
  <2>3. FlattenSeq(s) = f[Len(s)]
    BY <1>2 DEF FlattenSeq
  <2>4. Flattens(f, s, n) /\ FlattenSeq(s) = f[n]
    <3> HIDE DEF f
    <3> QED
      BY <2>2, <2>3 DEF Flattens
  <2>5. \E h : Flattens(h, s, n) /\ FlattenSeq(s) = h[n]
    <3> HIDE DEF f
    <3> QED
      BY <2>4
  <2> QED
    BY <1>2, <2>5
<1> QED
  BY <1>1, <1>2

\* Positions behind the first part.
LEMMA Shifted ==
  ASSUME NEW a \in Nat, NEW b \in Nat, NEW k \in 1..b
  PROVE  a + k \in 1..a + b /\ ~(a + k <= a) /\ (a + k) - a = k
OBVIOUS

\* The partial concatenations contain the elements of what has been concatenated.
LEMMA FlattensParts ==
  ASSUME NEW S, NEW s \in Seq(Seq(S)), NEW n \in Nat, n <= Len(s), NEW f, Flattens(f, s, n)
  PROVE  \A m \in 1..n : /\ f[m] \in Seq(S)
                         /\ \A i \in 1..m : \A k \in DOMAIN s[i] :
                              \E j \in DOMAIN f[m] : f[m][j] = s[i][k]
<1> DEFINE Good(m) == /\ f[m] \in Seq(S)
                      /\ \A i \in 1..m : \A k \in DOMAIN s[i] : \E j \in DOMAIN f[m] : f[m][j] = s[i][k]
           T == {m \in 1..n : ~Good(m)}
<1> SUFFICES ASSUME T # {}
             PROVE  FALSE
  OBVIOUS
<1>1. PICK m \in T : \A j \in T : m <= j
  <2>1. T \subseteq Nat
    OBVIOUS
  <2> HIDE DEF T
  <2> QED
    BY <2>1, LeastNumber
<1>2. m \in 1..n /\ ~Good(m)
  BY <1>1
<1>3. m \in 1..Len(s) /\ s[m] \in Seq(S)
  BY <1>2
<1>4. CASE m = 1
  <2>1. f[m] = s[m]
    BY <1>2, <1>4 DEF Flattens
  <2>2. Good(m)
    BY <1>3, <1>4, <2>1
  <2> QED
    BY <1>2, <2>2
<1>5. CASE m # 1
  <2>1. m - 1 \in 1..n /\ m - 1 \notin T /\ m \in Nat
    <3>1. m \in Nat /\ m - 1 \in 1..n /\ ~(m <= m - 1)
      BY <1>2, <1>5
    <3> HIDE DEF T
    <3> QED
      BY <1>1, <3>1
  <2>2. Good(m - 1)
    BY <2>1
  <2>3. f[m] = f[m - 1] \o s[m]
    BY <1>2, <1>5 DEF Flattens
  <2> DEFINE r == f[m - 1]
             x == s[m]
  <2>4. /\ r \in Seq(S) /\ x \in Seq(S)
        /\ r \o x \in Seq(S) /\ Len(r \o x) = Len(r) + Len(x)
        /\ DOMAIN (r \o x) = 1..Len(r) + Len(x)
        /\ Len(r) \in Nat /\ Len(x) \in Nat
        /\ DOMAIN r = 1..Len(r) /\ DOMAIN x = 1..Len(x)
        /\ \A j \in 1..Len(r) + Len(x) : (r \o x)[j] = IF j <= Len(r) THEN r[j] ELSE x[j - Len(r)]
    <3>1. r \in Seq(S) /\ x \in Seq(S)
      BY <1>3, <2>2
    <3> HIDE DEF r, x
    <3> QED
      BY <3>1
  <2>5. PICK a \in Nat, b \in Nat : a = Len(r) /\ b = Len(x)
    BY <2>4
  <2>6. ASSUME NEW i \in 1..m, NEW k \in DOMAIN s[i]
        PROVE  \E j \in DOMAIN f[m] : f[m][j] = s[i][k]
    <3>1. CASE i = m
      <4>1. k \in 1..b
        BY <2>4, <2>6, <2>5, <3>1
      <4>2. a + k \in 1..a + b /\ ~(a + k <= a) /\ (a + k) - a = k
        BY <4>1, Shifted
      <4>3. k \in 1..Len(x) /\ Len(r) + k \in 1..Len(r) + Len(x)
        BY <2>5, <4>1, <4>2
      <4>4. (r \o x)[Len(r) + k] = x[k]
        <5>1. ~(Len(r) + k <= Len(r)) /\ (Len(r) + k) - Len(r) = k
          BY <2>5, <4>2
        <5> QED
          BY <2>4, <4>3, <5>1
      <4> QED
        BY <2>3, <2>4, <3>1, <4>3, <4>4
    <3>2. CASE i # m
      <4>1. i \in 1..m - 1
        BY <2>1, <3>2
      <4>2. PICK j \in DOMAIN r : r[j] = s[i][k]
        BY <2>2, <2>6, <4>1
      <4>3. j \in 1..Len(r) + Len(x) /\ j <= Len(r)
        <5>1. j \in 1..a
          BY <2>4, <2>5, <4>2
        <5>2. j \in 1..a + b /\ j <= a
          BY <5>1
        <5> QED
          BY <2>5, <5>2
      <4> QED
        BY <2>3, <2>4, <4>2, <4>3
    <3> QED
      BY <3>1, <3>2
  <2>7. f[m] \in Seq(S)
    BY <2>3, <2>4
  <2> QED
    BY <1>2, <2>6, <2>7
<1> QED
  BY <1>4, <1>5

\* The concatenation consists of the elements of the parts.
LEMMA FlattenElements ==
  ASSUME NEW S, NEW s \in Seq(Seq(S))
  PROVE  /\ FlattenSeq(s) \in Seq(S)
         /\ \A i \in DOMAIN s : \A k \in DOMAIN s[i] :
              \E j \in DOMAIN FlattenSeq(s) : FlattenSeq(s)[j] = s[i][k]
<1>1. PICK n \in Nat : n = Len(s) /\ DOMAIN s = 1..n
  OBVIOUS
<1>2. CASE n = 0
  <2>1. FlattenSeq(s) = << >>
    BY <1>1, <1>2, FlattenIs
  <2>2. DOMAIN s = {}
    BY <1>1, <1>2
  <2> QED
    BY <2>1, <2>2
<1>3. CASE n > 0
  <2>1. PICK f : Flattens(f, s, n) /\ FlattenSeq(s) = f[n]
    BY <1>1, <1>3, FlattenIs
  <2>2. n <= Len(s) /\ n \in 1..n
    BY <1>1, <1>3
  <2> QED
    BY <1>1, <2>1, <2>2, FlattensParts
<1> QED
  BY <1>2, <1>3

\* The concatenation, where the provers need not look into it.
Joint(r, x) == r \o x

\* The function for one more part.
LEMMA FlattensMore ==
  ASSUME NEW s, NEW t, NEW n \in Nat, n > 0, NEW k \in Nat, n < k, k <= n + 1,
         NEW f, NEW g, Flattens(f, s, n), Flattens(g, t, k), \A i \in 1..n : t[i] = s[i]
  PROVE  g[k] = Joint(f[n], t[k])
<1>1. n <= k
  OBVIOUS
<1>2. \A i \in 1..n : s[i] = t[i]
  OBVIOUS
<1>3. \A i \in 1..n : f[i] = g[i]
  BY <1>1, <1>2, FlattensUnique
<1>4. k \in 1..k /\ k # 1 /\ k - 1 = n /\ n \in 1..n
  OBVIOUS
<1>5. g[k] = g[n] \o t[k]
  BY <1>4 DEF Flattens
<1> QED
  BY <1>3, <1>4, <1>5 DEF Joint

\* It is associative.
LEMMA JointAssociative ==
  ASSUME NEW S, NEW s \in Seq(S), NEW t \in Seq(S), NEW u \in Seq(S)
  PROVE  Joint(Joint(s, t), u) = Joint(s, Joint(t, u))
BY ConcatAssociative DEF Joint

\* A sequence of sequences, where the provers need not know it.
Parts(s, S) == s \in Seq(Seq(S))

\* Two sequences one behind the other.
LEMMA Joined ==
  ASSUME NEW S, NEW s \in Seq(S), NEW t \in Seq(S)
  PROVE  /\ s \o t \in Seq(S)
         /\ Len(s \o t) = Len(s) + Len(t)
         /\ \A i \in 1..Len(s) : (s \o t)[i] = s[i]
         /\ \A i \in 1..Len(t) : (s \o t)[Len(s) + i] = t[i]
<1>1. Len(s) \in Nat /\ Len(t) \in Nat
  OBVIOUS
<1> QED
  BY <1>1, ConcatProperties

\* One more part goes to the end.
LEMMA FlattenAppend ==
  ASSUME NEW S, NEW s, NEW x, Parts(s, S), Parts(<<x>>, S)
  PROVE  FlattenSeq(Append(s, x)) = Joint(FlattenSeq(s), x)
<1>1. PICK n \in Nat : n = Len(s)
  BY DEF Parts
<1>2. PICK t : t = Append(s, x)
  OBVIOUS
<1>3. x \in Seq(S)
  BY DEF Parts
<1>4. /\ t \in Seq(Seq(S)) /\ Len(t) = n + 1 /\ t[n + 1] = x
      /\ \A i \in 1..n : t[i] = s[i]
  BY <1>1, <1>2, <1>3 DEF Parts
<1>5. PICK k \in Nat : k = n + 1
  OBVIOUS
<1>6. PICK g : Flattens(g, t, k) /\ FlattenSeq(t) = g[k]
  <2>1. k > 0 /\ k = Len(t)
    BY <1>4, <1>5
  <2> QED
    BY <1>4, <2>1, FlattenIs
<1>7. t[k] = x /\ \A i \in 1..n : t[i] = s[i]
  BY <1>4, <1>5
<1>8. CASE n = 0
  <2>1. FlattenSeq(s) = << >>
    BY <1>1, <1>8, FlattenIs DEF Parts
  <2>2. g[k] = t[k]
    BY <1>5, <1>6, <1>8 DEF Flattens
  <2> QED
    BY <1>2, <1>3, <1>6, <1>7, <2>1, <2>2, ConcatEmptySeq DEF Joint
<1>9. CASE n > 0
  <2>1. PICK f : Flattens(f, s, n) /\ FlattenSeq(s) = f[n]
    BY <1>1, <1>9, FlattenIs DEF Parts
  <2>2. n < k /\ k <= n + 1
    BY <1>5
  <2>3. g[k] = Joint(f[n], t[k])
    BY <1>6, <1>7, <1>9, <2>1, <2>2, FlattensMore
  <2> QED
    BY <1>2, <1>6, <1>7, <2>1, <2>3
<1> QED
  BY <1>8, <1>9

\* The last part of a concatenation.
LEMMA FlattenLast ==
  ASSUME NEW S, NEW s, NEW n \in Nat, Parts(s, S), n = Len(s), n > 0
  PROVE  /\ FlattenSeq(s) = Joint(FlattenSeq(SubSeq(s, 1, n - 1)), s[n])
         /\ Parts(SubSeq(s, 1, n - 1), S)
<1>1. s \in Seq(Seq(S)) /\ n \in 1..Len(s)
  BY DEF Parts
<1>2. PICK r, x : r = SubSeq(s, 1, n - 1) /\ x = s[n]
  OBVIOUS
<1>3. r \in Seq(Seq(S)) /\ x \in Seq(S)
  BY <1>1, <1>2
<1>4. s = Append(r, x)
  BY <1>1, <1>2
<1>5. Parts(r, S) /\ Parts(<<x>>, S)
  BY <1>3 DEF Parts
<1> QED
  BY <1>2, <1>4, <1>5, FlattenAppend

\* What the concatenation of n triples is.
Triples(t, s, n) == Len(t) = 3 * n /\ \A i \in 1..n : \A j \in 1..3 : t[3 * (i - 1) + j] = s[i][j]

\* The concatenation of triples.
LEMMA FlattenTriples ==
  ASSUME NEW S, NEW n \in Nat, NEW s, Parts(s, S), n = Len(s), \A i \in 1..n : Len(s[i]) = 3
  PROVE  FlattenSeq(s) \in Seq(S) /\ Triples(FlattenSeq(s), s, n)
<1>1. s \in Seq(Seq(S))
  BY DEF Parts
<1>2. CASE n = 0
  <2>1. FlattenSeq(s) = << >>
    BY <1>1, <1>2, FlattenIs
  <2> QED
    BY <1>2, <2>1 DEF Triples
<1>3. CASE n > 0
  <2>1. PICK f : Flattens(f, s, n) /\ FlattenSeq(s) = f[n]
    BY <1>1, <1>3, FlattenIs
  <2> DEFINE Good(m) == /\ f[m] \in Seq(S) /\ Len(f[m]) = 3 * m
                        /\ \A i \in 1..m : \A j \in 1..3 : f[m][3 * (i - 1) + j] = s[i][j]
             T == {m \in 1..n : ~Good(m)}
  <2>2. T = {}
    <3> SUFFICES ASSUME T # {}
                 PROVE  FALSE
      OBVIOUS
    <3>1. PICK m \in T : \A k \in T : m <= k
      <4>1. T \subseteq Nat
        OBVIOUS
      <4> HIDE DEF T
      <4> QED
        BY <4>1, LeastNumber
    <3>2. m \in 1..n /\ m \in Nat /\ ~Good(m)
      BY <3>1
    <3>3. s[m] \in Seq(S) /\ Len(s[m]) = 3
      BY <1>1, <3>2
    <3>4. CASE m = 1
      <4>1. f[m] = s[m]
        BY <2>1, <3>2, <3>4 DEF Flattens
      <4>2. \A i \in 1..m : i = 1
        BY <3>4
      <4>3. \A j \in 1..3 : 3 * (1 - 1) + j = j
        OBVIOUS
      <4>4. Good(m)
        BY <3>3, <3>4, <4>1, <4>2, <4>3
      <4> QED
        BY <3>2, <4>4
    <3>5. CASE m # 1
      <4>1. m - 1 \in 1..n /\ m - 1 \notin T
        <5>1. m - 1 \in 1..n /\ ~(m <= m - 1)
          BY <3>2, <3>5
        <5> HIDE DEF T
        <5> QED
          BY <3>1, <5>1
      <4>2. Good(m - 1)
        BY <4>1
      <4>3. f[m] = f[m - 1] \o s[m]
        BY <2>1, <3>2, <3>5 DEF Flattens
      <4>4. PICK r, x : r = f[m - 1] /\ x = s[m]
        OBVIOUS
      <4>5. r \in Seq(S) /\ x \in Seq(S) /\ Len(r) = 3 * (m - 1) /\ Len(x) = 3
        BY <3>3, <4>2, <4>4
      <4>6. PICK a \in Nat : a = 3 * (m - 1)
        BY <3>2
      <4>7. /\ f[m] = r \o x /\ r \o x \in Seq(S) /\ Len(r \o x) = 3 * (m - 1) + 3
            /\ \A k \in 1..3 * (m - 1) : (r \o x)[k] = r[k]
            /\ \A j \in 1..3 : (r \o x)[3 * (m - 1) + j] = x[j]
        <5>1. r \in Seq(S) /\ x \in Seq(S) /\ Len(r) = a /\ Len(x) = 3
          BY <4>5, <4>6
        <5>2. /\ r \o x \in Seq(S) /\ Len(r \o x) = Len(r) + Len(x)
              /\ \A k \in 1..Len(r) : (r \o x)[k] = r[k]
              /\ \A k \in 1..Len(x) : (r \o x)[Len(r) + k] = x[k]
          <6>1. r \in Seq(S) /\ x \in Seq(S)
            BY <5>1
          <6> QED
            BY <6>1, Joined
        <5>3. /\ r \o x \in Seq(S) /\ Len(r \o x) = a + 3
              /\ \A k \in 1..a : (r \o x)[k] = r[k]
              /\ \A k \in 1..3 : (r \o x)[a + k] = x[k]
          BY <5>1, <5>2
        <5> QED
          BY <4>3, <4>4, <4>6, <5>3
      <4>8. ASSUME NEW i \in 1..m, NEW j \in 1..3
            PROVE  f[m][3 * (i - 1) + j] = s[i][j]
        <5>1. CASE i = m
          BY <4>4, <4>7, <5>1
        <5>2. CASE i # m
          <6>1. i \in 1..m - 1 /\ 3 * (i - 1) + j \in 1..3 * (m - 1)
            <7>1. PICK w \in Nat : w = m - 1
              BY <3>2
            <7>2. i \in 1..w
              BY <3>2, <5>2, <7>1
            <7>3. 3 * (i - 1) + j \in 1..3 * w
              BY <7>2
            <7> QED
              BY <7>1, <7>2, <7>3
          <6>2. r[3 * (i - 1) + j] = s[i][j]
            BY <4>2, <4>4, <6>1
          <6> QED
            BY <4>7, <6>1, <6>2
        <5> QED
          BY <5>1, <5>2
      <4>9. f[m] \in Seq(S) /\ Len(f[m]) = 3 * m
        BY <3>2, <4>7
      <4> QED
        BY <3>2, <4>8, <4>9
    <3> QED
      BY <3>4, <3>5
  <2>3. Good(n)
    <3>1. n \in 1..n /\ n \notin T
      <4> HIDE DEF T
      <4> QED
        BY <1>3, <2>2
    <3> QED
      BY <3>1
  <2> QED
    BY <2>1, <2>3 DEF Triples
<1> QED
  BY <1>2, <1>3

\* The fields of a step.
LEMMA Operations ==
  /\ \A o : Do(o).op = o
  /\ \A g, is : Calls(g, is).op = "call" /\ Calls(g, is).fn = g /\ Calls(g, is).is = is
  BY DEF Do, Calls
-----------------------------------------------------------------------------
(* The order of the steps in the bodies.                                   *)

Before(B, k, o) == \E i \in 1..k - 1 : B[i].op = o
From(B, k, o)   == \E i \in k..Len(B) : B[i].op = o

\* The last step is the only return.
Ends(B) == Len(B) \in Nat \ {0} /\ \A k \in 1..Len(B) : B[k].op = "return" <=> k = Len(B)

\* No x and no y, or one x and one y behind it.
Bracket(B, x, y) ==
  \/ \A k \in 1..Len(B) : B[k].op # x /\ B[k].op # y
  \/ \E i, j \in 1..Len(B) : /\ i < j
                             /\ \A k \in 1..Len(B) : (B[k].op = x <=> k = i) /\ (B[k].op = y <=> k = j)

Brackets(B) == Bracket(B, "PRE_GC", "POST_GC") /\ Bracket(B, "push", "pop") /\ Bracket(B, "print", "delete")

\* An object is allocated inside the bracket of __gc_stack_top and, if it is filled
\* from the arguments, while they are registered or lie on the program's stack.
AllocInOrder(B, fn) ==
  \A k \in 1..Len(B) : B[k].op = "alloc" =>
    /\ Before(B, k, "PRE_GC") /\ From(B, k, "POST_GC")
    /\ ~From(B, k, "call") /\ ~From(B, k, "same")
    /\ B[k + 1].op = "fill" \/ fn \in {"LmakeString", "Lsubstring", "Li__Infix_4343"}
    /\ From(B, k, "fill") =>
         fn \in {"LmakeArray", "Lsubstring"} \/ (fn # "set_args" /\ Before(B, k, "push") /\ From(B, k, "pop"))

\* A call that the functions make of each other.
IsCall(o) == o.fn \in Callees /\ o.is \in Seq(Nat) /\ (o.fn \in {"LmakeString", "LmakeArray"} => o.is = << >>)

\* So it is with the calls.
CallInOrder(B, fn) ==
  \A k \in 1..Len(B) : B[k].op = "call" =>
    /\ IsCall(B[k])
    /\ ~From(B, k + 1, "same")
    /\ From(B, k + 1, "call") => fn = "set_args"
    /\ From(B, k + 1, "fill") =>
         fn = "Lfread" \/ (fn \notin {"Lsubstring", "set_args"} /\ Before(B, k, "push") /\ From(B, k + 1, "pop"))

Filling ==
  {"LmakeArray", "Bstring", "Lfread", "Lsubstring", "Li__Infix_4343", "Lclone", "Barray", "Bsexp", "Bclosure"}

\* What is filled is there; Lclone has just allocated it.
FillInOrder(B, fn) ==
  \A k \in 1..Len(B) : B[k].op = "fill" =>
    /\ k > 1 /\ fn \in Filling
    /\ Before(B, k, "alloc") \/ Before(B, k, "call")
    /\ fn = "Lclone" => B[k - 1].op = "alloc"

\* The steps that only set_args takes; every other function makes its result.
Own == {"hold", "address", "store", "publish"}

OwnInOrder(B, fn) ==
  /\ fn # "set_args" => \A k \in 1..Len(B) : B[k].op \notin Own
  /\ fn # "set_args" => From(B, 1, "alloc") \/ From(B, 1, "call") \/ From(B, 1, "same")
  /\ fn \in Callees => From(B, 1, "alloc") \/ From(B, 1, "call")

InOrder(B, fn) ==
  /\ Ends(B) /\ Brackets(B) /\ AllocInOrder(B, fn) /\ CallInOrder(B, fn)
  /\ FillInOrder(B, fn) /\ OwnInOrder(B, fn)

\* LmakeString.
LEMMA AllocatedStringInOrder ==
  ASSUME NEW B,
         Len(B) = 4, B[1].op = "PRE_GC", B[2].op = "alloc", B[3].op = "POST_GC", B[4].op = "return"
  PROVE  InOrder(B, "LmakeString")
<1>1. \A k \in 1..Len(B) : k \in 1..4
  OBVIOUS
<1>2. Ends(B)
  BY <1>1 DEF Ends
<1>3. Bracket(B, "PRE_GC", "POST_GC")
  BY <1>1 DEF Bracket
<1>4. Bracket(B, "push", "pop")
  BY <1>1 DEF Bracket
<1>5. Bracket(B, "print", "delete")
  BY <1>1 DEF Bracket
<1>6. AllocInOrder(B, "LmakeString") /\ FillInOrder(B, "LmakeString")
  BY <1>1 DEF AllocInOrder, FillInOrder, Before, From, Filling
<1>7. CallInOrder(B, "LmakeString") /\ OwnInOrder(B, "LmakeString")
  BY <1>1 DEF CallInOrder, OwnInOrder, Own, Before, From, Callees
<1> QED
  BY <1>2, <1>3, <1>4, <1>5, <1>6, <1>7 DEF InOrder, Brackets

\* LmakeArray.
LEMMA AllocatedArrayInOrder ==
  ASSUME NEW B,
         Len(B) = 5, B[1].op = "PRE_GC", B[2].op = "alloc", B[3].op = "fill", B[4].op = "POST_GC",
         B[5].op = "return"
  PROVE  InOrder(B, "LmakeArray")
<1>1. \A k \in 1..Len(B) : k \in 1..5
  OBVIOUS
<1>2. Ends(B)
  BY <1>1 DEF Ends
<1>3. Bracket(B, "PRE_GC", "POST_GC")
  BY <1>1 DEF Bracket
<1>4. Bracket(B, "push", "pop")
  BY <1>1 DEF Bracket
<1>5. Bracket(B, "print", "delete")
  BY <1>1 DEF Bracket
<1>6. AllocInOrder(B, "LmakeArray") /\ FillInOrder(B, "LmakeArray")
  BY <1>1 DEF AllocInOrder, FillInOrder, Before, From, Filling
<1>7. CallInOrder(B, "LmakeArray") /\ OwnInOrder(B, "LmakeArray")
  BY <1>1 DEF CallInOrder, OwnInOrder, Own, Before, From, Callees
<1> QED
  BY <1>2, <1>3, <1>4, <1>5, <1>6, <1>7 DEF InOrder, Brackets

\* Bstring.
LEMMA CopiedStringInOrder ==
  ASSUME NEW B,
         Len(B) = 7, B[1].op = "PRE_GC", B[2].op = "push", B[3].op = "call", B[4].op = "pop",
         B[5].op = "fill", B[6].op = "POST_GC", B[7].op = "return", IsCall(B[3])
  PROVE  InOrder(B, "Bstring")
<1>1. \A k \in 1..Len(B) : k \in 1..7
  OBVIOUS
<1>2. Ends(B)
  BY <1>1 DEF Ends
<1>3. Bracket(B, "PRE_GC", "POST_GC")
  BY <1>1 DEF Bracket
<1>4. Bracket(B, "push", "pop")
  BY <1>1 DEF Bracket
<1>5. Bracket(B, "print", "delete")
  BY <1>1 DEF Bracket
<1>6. AllocInOrder(B, "Bstring") /\ FillInOrder(B, "Bstring")
  BY <1>1 DEF AllocInOrder, FillInOrder, Before, From, Filling
<1>7. CallInOrder(B, "Bstring") /\ OwnInOrder(B, "Bstring")
  BY <1>1 DEF CallInOrder, OwnInOrder, Own, Before, From, Callees
<1> QED
  BY <1>2, <1>3, <1>4, <1>5, <1>6, <1>7 DEF InOrder, Brackets

\* Lsubstring and Li__Infix_4343.
LEMMA JoinedStringsInOrder ==
  ASSUME NEW B, NEW fn \in {"Lsubstring", "Li__Infix_4343"},
         Len(B) = 8, B[1].op = "check", B[2].op = "PRE_GC", B[3].op = "push", B[4].op = "alloc",
         B[5].op = "pop", B[6].op = "fill", B[7].op = "POST_GC", B[8].op = "return"
  PROVE  InOrder(B, fn)
<1>1. \A k \in 1..Len(B) : k \in 1..8
  OBVIOUS
<1>2. Ends(B)
  BY <1>1 DEF Ends
<1>3. Bracket(B, "PRE_GC", "POST_GC")
  BY <1>1 DEF Bracket
<1>4. Bracket(B, "push", "pop")
  BY <1>1 DEF Bracket
<1>5. Bracket(B, "print", "delete")
  BY <1>1 DEF Bracket
<1>6. AllocInOrder(B, fn) /\ FillInOrder(B, fn)
  BY <1>1 DEF AllocInOrder, FillInOrder, Before, From, Filling
<1>7. CallInOrder(B, fn) /\ OwnInOrder(B, fn)
  BY <1>1 DEF CallInOrder, OwnInOrder, Own, Before, From, Callees
<1> QED
  BY <1>2, <1>3, <1>4, <1>5, <1>6, <1>7 DEF InOrder, Brackets

\* Barray, Bsexp, Bclosure, and Lclone of an array, a constructor or a closure.
LEMMA ConstructedInOrder ==
  ASSUME NEW B, NEW fn \in {"Barray", "Bsexp", "Bclosure", "Lclone"},
         Len(B) = 7, B[1].op = "PRE_GC", B[2].op = "push", B[3].op = "alloc", B[4].op = "fill",
         B[5].op = "pop", B[6].op = "POST_GC", B[7].op = "return"
  PROVE  InOrder(B, fn)
<1>1. \A k \in 1..Len(B) : k \in 1..7
  OBVIOUS
<1>2. Ends(B)
  BY <1>1 DEF Ends
<1>3. Bracket(B, "PRE_GC", "POST_GC")
  BY <1>1 DEF Bracket
<1>4. Bracket(B, "push", "pop")
  BY <1>1 DEF Bracket
<1>5. Bracket(B, "print", "delete")
  BY <1>1 DEF Bracket
<1>6. AllocInOrder(B, fn) /\ FillInOrder(B, fn)
  BY <1>1 DEF AllocInOrder, FillInOrder, Before, From, Filling
<1>7. CallInOrder(B, fn) /\ OwnInOrder(B, fn)
  BY <1>1 DEF CallInOrder, OwnInOrder, Own, Before, From, Callees
<1> QED
  BY <1>2, <1>3, <1>4, <1>5, <1>6, <1>7 DEF InOrder, Brackets

\* Lstring and Lstringcat.
LEMMA ShownInOrder ==
  ASSUME NEW B, NEW fn \in {"Lstring", "Lstringcat"},
         Len(B) = 8, B[1].op = "PRE_GC", B[2].op = "print", B[3].op = "push", B[4].op = "call",
         B[5].op = "pop", B[6].op = "delete", B[7].op = "POST_GC", B[8].op = "return", IsCall(B[4])
  PROVE  InOrder(B, fn)
<1>1. \A k \in 1..Len(B) : k \in 1..8
  OBVIOUS
<1>2. Ends(B)
  BY <1>1 DEF Ends
<1>3. Bracket(B, "PRE_GC", "POST_GC")
  BY <1>1 DEF Bracket
<1>4. Bracket(B, "push", "pop")
  BY <1>1 DEF Bracket
<1>5. Bracket(B, "print", "delete")
  BY <1>1 DEF Bracket
<1>6. AllocInOrder(B, fn) /\ FillInOrder(B, fn)
  BY <1>1 DEF AllocInOrder, FillInOrder, Before, From, Filling
<1>7. CallInOrder(B, fn) /\ OwnInOrder(B, fn)
  BY <1>1 DEF CallInOrder, OwnInOrder, Own, Before, From, Callees
<1> QED
  BY <1>2, <1>3, <1>4, <1>5, <1>6, <1>7 DEF InOrder, Brackets

\* Bsprintf.
LEMMA FormattedInOrder ==
  ASSUME NEW B,
         Len(B) = 9, B[1].op = "check", B[2].op = "print", B[3].op = "PRE_GC", B[4].op = "push",
         B[5].op = "call", B[6].op = "pop", B[7].op = "POST_GC", B[8].op = "delete",
         B[9].op = "return", IsCall(B[5])
  PROVE  InOrder(B, "Bsprintf")
<1>1. \A k \in 1..Len(B) : k \in 1..9
  OBVIOUS
<1>2. Ends(B)
  BY <1>1 DEF Ends
<1>3. Bracket(B, "PRE_GC", "POST_GC")
  BY <1>1 DEF Bracket
<1>4. Bracket(B, "push", "pop")
  BY <1>1 DEF Bracket
<1>5. Bracket(B, "print", "delete")
  BY <1>1 DEF Bracket
<1>6. AllocInOrder(B, "Bsprintf") /\ FillInOrder(B, "Bsprintf")
  BY <1>1 DEF AllocInOrder, FillInOrder, Before, From, Filling
<1>7. CallInOrder(B, "Bsprintf") /\ OwnInOrder(B, "Bsprintf")
  BY <1>1 DEF CallInOrder, OwnInOrder, Own, Before, From, Callees
<1> QED
  BY <1>2, <1>3, <1>4, <1>5, <1>6, <1>7 DEF InOrder, Brackets

\* LgetEnv of no variable, Lclone of an integer.
LEMMA AnsweredInOrder ==
  ASSUME NEW B, NEW fn \in {"LgetEnv", "Lclone"},
         Len(B) = 2, B[1].op = "same", B[2].op = "return"
  PROVE  InOrder(B, fn)
<1>1. \A k \in 1..Len(B) : k \in 1..2
  OBVIOUS
<1>2. Ends(B)
  BY <1>1 DEF Ends
<1>3. Bracket(B, "PRE_GC", "POST_GC")
  BY <1>1 DEF Bracket
<1>4. Bracket(B, "push", "pop")
  BY <1>1 DEF Bracket
<1>5. Bracket(B, "print", "delete")
  BY <1>1 DEF Bracket
<1>6. AllocInOrder(B, fn) /\ FillInOrder(B, fn)
  BY <1>1 DEF AllocInOrder, FillInOrder, Before, From, Filling
<1>7. CallInOrder(B, fn) /\ OwnInOrder(B, fn)
  BY <1>1 DEF CallInOrder, OwnInOrder, Own, Before, From, Callees
<1> QED
  BY <1>2, <1>3, <1>4, <1>5, <1>6, <1>7 DEF InOrder, Brackets

\* LreadLine at the end of the input.
LEMMA EndedInOrder ==
  ASSUME NEW B,
         Len(B) = 3, B[1].op = "check", B[2].op = "same", B[3].op = "return"
  PROVE  InOrder(B, "LreadLine")
<1>1. \A k \in 1..Len(B) : k \in 1..3
  OBVIOUS
<1>2. Ends(B)
  BY <1>1 DEF Ends
<1>3. Bracket(B, "PRE_GC", "POST_GC")
  BY <1>1 DEF Bracket
<1>4. Bracket(B, "push", "pop")
  BY <1>1 DEF Bracket
<1>5. Bracket(B, "print", "delete")
  BY <1>1 DEF Bracket
<1>6. AllocInOrder(B, "LreadLine") /\ FillInOrder(B, "LreadLine")
  BY <1>1 DEF AllocInOrder, FillInOrder, Before, From, Filling
<1>7. CallInOrder(B, "LreadLine") /\ OwnInOrder(B, "LreadLine")
  BY <1>1 DEF CallInOrder, OwnInOrder, Own, Before, From, Callees
<1> QED
  BY <1>2, <1>3, <1>4, <1>5, <1>6, <1>7 DEF InOrder, Brackets

\* LgetEnv of a variable and Ls__Infix_58.
LEMMA DelegatedInOrder ==
  ASSUME NEW B, NEW fn \in {"LgetEnv", "Ls__Infix_58"},
         Len(B) = 4, B[1].op = "PRE_GC", B[2].op = "call", B[3].op = "POST_GC", B[4].op = "return",
         IsCall(B[2])
  PROVE  InOrder(B, fn)
<1>1. \A k \in 1..Len(B) : k \in 1..4
  OBVIOUS
<1>2. Ends(B)
  BY <1>1 DEF Ends
<1>3. Bracket(B, "PRE_GC", "POST_GC")
  BY <1>1 DEF Bracket
<1>4. Bracket(B, "push", "pop")
  BY <1>1 DEF Bracket
<1>5. Bracket(B, "print", "delete")
  BY <1>1 DEF Bracket
<1>6. AllocInOrder(B, fn) /\ FillInOrder(B, fn)
  BY <1>1 DEF AllocInOrder, FillInOrder, Before, From, Filling
<1>7. CallInOrder(B, fn) /\ OwnInOrder(B, fn)
  BY <1>1 DEF CallInOrder, OwnInOrder, Own, Before, From, Callees
<1> QED
  BY <1>2, <1>3, <1>4, <1>5, <1>6, <1>7 DEF InOrder, Brackets

\* LreadLine of a line, and the wrappers.
LEMMA WrappedInOrder ==
  ASSUME NEW B, NEW fn \in {"LreadLine", "RVBstring", "RVLstring", "RVBarray", "RVBsexp"},
         Len(B) = 2, B[1].op = "call", B[2].op = "return", IsCall(B[1])
  PROVE  InOrder(B, fn)
<1>1. \A k \in 1..Len(B) : k \in 1..2
  OBVIOUS
<1>2. Ends(B)
  BY <1>1 DEF Ends
<1>3. Bracket(B, "PRE_GC", "POST_GC")
  BY <1>1 DEF Bracket
<1>4. Bracket(B, "push", "pop")
  BY <1>1 DEF Bracket
<1>5. Bracket(B, "print", "delete")
  BY <1>1 DEF Bracket
<1>6. AllocInOrder(B, fn) /\ FillInOrder(B, fn)
  BY <1>1 DEF AllocInOrder, FillInOrder, Before, From, Filling
<1>7. CallInOrder(B, fn) /\ OwnInOrder(B, fn)
  BY <1>1 DEF CallInOrder, OwnInOrder, Own, Before, From, Callees
<1> QED
  BY <1>2, <1>3, <1>4, <1>5, <1>6, <1>7 DEF InOrder, Brackets

\* Lfread.
LEMMA ReadFileInOrder ==
  ASSUME NEW B,
         Len(B) = 4, B[1].op = "call", B[2].op = "check", B[3].op = "fill", B[4].op = "return",
         IsCall(B[1])
  PROVE  InOrder(B, "Lfread")
<1>1. \A k \in 1..Len(B) : k \in 1..4
  OBVIOUS
<1>2. Ends(B)
  BY <1>1 DEF Ends
<1>3. Bracket(B, "PRE_GC", "POST_GC")
  BY <1>1 DEF Bracket
<1>4. Bracket(B, "push", "pop")
  BY <1>1 DEF Bracket
<1>5. Bracket(B, "print", "delete")
  BY <1>1 DEF Bracket
<1>6. AllocInOrder(B, "Lfread") /\ FillInOrder(B, "Lfread")
  BY <1>1 DEF AllocInOrder, FillInOrder, Before, From, Filling
<1>7. CallInOrder(B, "Lfread") /\ OwnInOrder(B, "Lfread")
  BY <1>1 DEF CallInOrder, OwnInOrder, Own, Before, From, Callees
<1> QED
  BY <1>2, <1>3, <1>4, <1>5, <1>6, <1>7 DEF InOrder, Brackets

\* Lclone of a string.
LEMMA ClonedInOrder ==
  ASSUME NEW B,
         Len(B) = 6, B[1].op = "PRE_GC", B[2].op = "push", B[3].op = "call", B[4].op = "pop",
         B[5].op = "POST_GC", B[6].op = "return", IsCall(B[3])
  PROVE  InOrder(B, "Lclone")
<1>1. \A k \in 1..Len(B) : k \in 1..6
  OBVIOUS
<1>2. Ends(B)
  BY <1>1 DEF Ends
<1>3. Bracket(B, "PRE_GC", "POST_GC")
  BY <1>1 DEF Bracket
<1>4. Bracket(B, "push", "pop")
  BY <1>1 DEF Bracket
<1>5. Bracket(B, "print", "delete")
  BY <1>1 DEF Bracket
<1>6. AllocInOrder(B, "Lclone") /\ FillInOrder(B, "Lclone")
  BY <1>1 DEF AllocInOrder, FillInOrder, Before, From, Filling
<1>7. CallInOrder(B, "Lclone") /\ OwnInOrder(B, "Lclone")
  BY <1>1 DEF CallInOrder, OwnInOrder, Own, Before, From, Callees
<1> QED
  BY <1>2, <1>3, <1>4, <1>5, <1>6, <1>7 DEF InOrder, Brackets

\* set_args, for n arguments of the program.
SetArgsInOrder(B, n) ==
  \A k \in 1..Len(B) :
    /\ B[k].op = "call" =>
         /\ B[k].fn = "LmakeArray" \/ (B[k].fn = "Bstring" /\ \A i \in Range(B[k].is) : i \in 2..n + 1)
         /\ Before(B, k, "hold") => Before(B, k, "push") /\ From(B, k + 1, "pop")
    /\ B[k].op = "hold" => Before(B, k, "call")
    /\ B[k].op \in {"address", "store", "publish"} => Before(B, k, "hold") /\ Before(B, k, "call")
    /\ B[k].op = "publish" => ~From(B, k, "pop") /\ ~From(B, k + 1, "publish")

\* The body of set_args, position by position.
SetArgsBody(B, n) ==
  /\ Len(B) = 3 * n + 8
  /\ B[1].op = "PRE_GC" /\ B[2].op = "call" /\ B[3].op = "hold" /\ B[4].op = "push"
  /\ B[2].fn = "LmakeArray" /\ B[2].is = << >>
  /\ \A i \in 1..n : /\ B[4 + 3 * (i - 1) + 1].op = "address"
                     /\ B[4 + 3 * (i - 1) + 2].op = "call"
                     /\ B[4 + 3 * (i - 1) + 2].fn = "Bstring" /\ B[4 + 3 * (i - 1) + 2].is = <<i + 1>>
                     /\ B[4 + 3 * (i - 1) + 3].op = "store"
  /\ B[3 * n + 5].op = "pop" /\ B[3 * n + 6].op = "POST_GC"
  /\ B[3 * n + 7].op = "publish" /\ B[3 * n + 8].op = "return"

\* That is what it is.
LEMMA SetArgsSteps ==
  ASSUME NEW n \in Nat
  PROVE  SetArgsBody(set_args_body(n), n)
<1>1. PICK B : B = set_args_body(n)
  OBVIOUS
<1> DEFINE three(i) == <<Do("address"), Calls("Bstring", <<i + 1>>), [Do("store") EXCEPT !.is = <<i>>]>>
           s == [i \in 1..n |-> three(i)]
<1>2. PICK S : /\ \A i \in 1..n : \A j \in 1..3 : three(i)[j] \in S
               /\ Do("PRE_GC") \in S /\ Calls("LmakeArray", << >>) \in S /\ Do("hold") \in S /\ Do("push") \in S
               /\ Do("pop") \in S /\ Do("POST_GC") \in S /\ Do("publish") \in S /\ Do("return") \in S
  <2> DEFINE S == {three(p[1])[p[2]] : p \in (1..n) \X (1..3)}
                  \cup {Do("PRE_GC"), Calls("LmakeArray", << >>), Do("hold"), Do("push"),
                        Do("pop"), Do("POST_GC"), Do("publish"), Do("return")}
  <2>1. \A i \in 1..n : \A j \in 1..3 : three(i)[j] \in S
    <3> SUFFICES ASSUME NEW i \in 1..n, NEW j \in 1..3
                 PROVE  three(i)[j] \in S
      OBVIOUS
    <3>1. <<i, j>> \in (1..n) \X (1..3) /\ <<i, j>>[1] = i /\ <<i, j>>[2] = j
      OBVIOUS
    <3> HIDE DEF three
    <3> QED
      BY <3>1
  <2> HIDE DEF three
  <2> QED
    BY <2>1
<1>3. s \in Seq(Seq(S)) /\ Len(s) = n /\ \A i \in 1..n : s[i] = three(i) /\ Len(s[i]) = 3
  <2>1. \A i \in 1..n : three(i) \in Seq(S) /\ Len(three(i)) = 3
    <3> SUFFICES ASSUME NEW i \in 1..n
                 PROVE  three(i) \in Seq(S) /\ Len(three(i)) = 3
      OBVIOUS
    <3>1. three(i)[1] \in S /\ three(i)[2] \in S /\ three(i)[3] \in S
      BY <1>2
    <3> QED
      BY <3>1
  <2> HIDE DEF three
  <2> QED
    BY <2>1
<1>4. PICK F, u : F = FlattenSeq(s) /\ u = s
  OBVIOUS
<1>5. /\ F \in Seq(S) /\ Len(F) = 3 * n
      /\ \A i \in 1..n : \A j \in 1..3 : F[3 * (i - 1) + j] = three(i)[j]
  <2> HIDE DEF s, three
  <2>1. Parts(u, S) /\ n = Len(u)
    BY <1>3, <1>4 DEF Parts
  <2>2. F = FlattenSeq(u) /\ \A i \in 1..n : u[i] = three(i)
    BY <1>3, <1>4
  <2>3. FlattenSeq(u) \in Seq(S) /\ Triples(FlattenSeq(u), u, n)
    <3>1. \A i \in 1..n : Len(u[i]) = 3
      BY <1>3, <1>4
    <3> QED
      BY <2>1, <3>1, FlattenTriples
  <2> QED
    BY <2>3, <2>2 DEF Triples
<1>6. PICK a, b, c, d : /\ a = <<Calls("LmakeArray", << >>), Do("hold"), Do("push")>>
                        /\ b = <<Do("PRE_GC")>> /\ c = <<Do("pop")>> /\ d = <<Do("POST_GC")>>
  OBVIOUS
<1>7. PICK e, r : e = <<Do("publish")>> /\ r = <<Do("return")>>
  OBVIOUS
<1>8. /\ a \in Seq(S) /\ b \in Seq(S) /\ c \in Seq(S) /\ d \in Seq(S) /\ e \in Seq(S) /\ r \in Seq(S)
      /\ Len(a) = 3 /\ Len(b) = 1 /\ Len(c) = 1 /\ Len(d) = 1 /\ Len(e) = 1 /\ Len(r) = 1
      /\ a[1] = Calls("LmakeArray", << >>) /\ a[2] = Do("hold") /\ a[3] = Do("push")
      /\ b[1] = Do("PRE_GC") /\ c[1] = Do("pop") /\ d[1] = Do("POST_GC")
      /\ e[1] = Do("publish") /\ r[1] = Do("return")
  BY <1>2, <1>6, <1>7
<1>9. B = ((b \o ((a \o F) \o c)) \o d) \o e \o r
  BY <1>1, <1>4, <1>6, <1>7 DEF set_args_body, Guarded, Ret
<1>10. PICK m \in Nat : m = 3 * n
  OBVIOUS
<1>11. PICK g : g = a \o F
  OBVIOUS
<1>12. /\ g \in Seq(S) /\ Len(g) = 3 + m /\ g[1] = a[1] /\ g[2] = a[2] /\ g[3] = a[3]
       /\ \A k \in 1..m : g[3 + k] = F[k]
  <2>1. a \in Seq(S) /\ F \in Seq(S)
    BY <1>5, <1>8, <1>10
  <2>2. /\ a \o F \in Seq(S) /\ Len(a \o F) = Len(a) + Len(F)
        /\ \A i \in 1..Len(a) : (a \o F)[i] = a[i]
        /\ \A i \in 1..Len(F) : (a \o F)[Len(a) + i] = F[i]
    BY <2>1, Joined
  <2>3. Len(a) = 3 /\ Len(F) = m
    BY <1>5, <1>8, <1>10
  <2>4. /\ a \o F \in Seq(S) /\ Len(a \o F) = 3 + m
        /\ \A i \in 1..3 : (a \o F)[i] = a[i]
        /\ \A i \in 1..m : (a \o F)[3 + i] = F[i]
    BY <2>2, <2>3
  <2>5. 1 \in 1..3 /\ 2 \in 1..3 /\ 3 \in 1..3
    OBVIOUS
  <2> QED
    BY <1>11, <2>4, <2>5
<1>13. PICK h : h = g \o c
  OBVIOUS
<1>14. /\ h \in Seq(S) /\ Len(h) = 4 + m /\ \A k \in 1..3 + m : h[k] = g[k]
       /\ h[4 + m] = c[1]
  <2>1. g \in Seq(S) /\ c \in Seq(S)
    BY <1>8, <1>12
  <2>2. /\ g \o c \in Seq(S) /\ Len(g \o c) = Len(g) + Len(c)
        /\ \A i \in 1..Len(g) : (g \o c)[i] = g[i]
        /\ \A i \in 1..Len(c) : (g \o c)[Len(g) + i] = c[i]
    BY <2>1, Joined
  <2> QED
    BY <1>8, <1>12, <1>13, <2>2
<1>15. PICK p : p = b \o h
  OBVIOUS
<1>16. /\ p \in Seq(S) /\ Len(p) = 5 + m /\ p[1] = b[1] /\ \A k \in 1..4 + m : p[1 + k] = h[k]
  <2>1. b \in Seq(S) /\ h \in Seq(S)
    BY <1>8, <1>14
  <2>2. /\ b \o h \in Seq(S) /\ Len(b \o h) = Len(b) + Len(h)
        /\ \A i \in 1..Len(b) : (b \o h)[i] = b[i]
        /\ \A i \in 1..Len(h) : (b \o h)[Len(b) + i] = h[i]
    BY <2>1, Joined
  <2> QED
    BY <1>8, <1>14, <1>15, <2>2
<1>17. PICK q : q = p \o d
  OBVIOUS
<1>18. /\ q \in Seq(S) /\ Len(q) = 6 + m /\ \A k \in 1..5 + m : q[k] = p[k]
       /\ q[6 + m] = d[1]
  <2>1. p \in Seq(S) /\ d \in Seq(S)
    BY <1>8, <1>16
  <2>2. /\ p \o d \in Seq(S) /\ Len(p \o d) = Len(p) + Len(d)
        /\ \A i \in 1..Len(p) : (p \o d)[i] = p[i]
        /\ \A i \in 1..Len(d) : (p \o d)[Len(p) + i] = d[i]
    BY <2>1, Joined
  <2> QED
    BY <1>8, <1>16, <1>17, <2>2
<1>19. PICK v : v = q \o e
  OBVIOUS
<1>20. /\ v \in Seq(S) /\ Len(v) = 7 + m /\ \A k \in 1..6 + m : v[k] = q[k]
       /\ v[7 + m] = e[1]
  <2>1. q \in Seq(S) /\ e \in Seq(S)
    BY <1>8, <1>18
  <2>2. /\ q \o e \in Seq(S) /\ Len(q \o e) = Len(q) + Len(e)
        /\ \A i \in 1..Len(q) : (q \o e)[i] = q[i]
        /\ \A i \in 1..Len(e) : (q \o e)[Len(q) + i] = e[i]
    BY <2>1, Joined
  <2> QED
    BY <1>8, <1>18, <1>19, <2>2
<1>21. /\ B = v \o r
  BY <1>9, <1>11, <1>13, <1>15, <1>17, <1>19
<1>22. /\ Len(B) = 8 + m /\ \A k \in 1..7 + m : B[k] = v[k]
       /\ B[8 + m] = r[1]
  <2>1. v \in Seq(S) /\ r \in Seq(S)
    BY <1>8, <1>20
  <2>2. /\ v \o r \in Seq(S) /\ Len(v \o r) = Len(v) + Len(r)
        /\ \A i \in 1..Len(v) : (v \o r)[i] = v[i]
        /\ \A i \in 1..Len(r) : (v \o r)[Len(v) + i] = r[i]
    BY <2>1, Joined
  <2> QED
    BY <1>8, <1>20, <1>21, <2>2
<1>23. /\ \A k \in 1..5 + m : B[k] = p[k]
       /\ B[6 + m] = d[1] /\ B[7 + m] = e[1] /\ B[8 + m] = r[1]
  <2>1. /\ 6 + m \in 1..6 + m /\ 6 + m \in 1..7 + m /\ 7 + m \in 1..7 + m
        /\ \A k \in 1..5 + m : k \in 1..6 + m /\ k \in 1..7 + m
    OBVIOUS
  <2> QED
    BY <1>18, <1>20, <1>22, <2>1
<1>24. /\ B[1] = b[1] /\ \A k \in 1..3 + m : B[1 + k] = g[k]
       /\ B[5 + m] = c[1]
  <2>1. /\ 1 \in 1..5 + m /\ 4 + m \in 1..4 + m /\ 1 + (4 + m) = 5 + m /\ 5 + m \in 1..5 + m
        /\ \A k \in 1..3 + m : k \in 1..4 + m /\ 1 + k \in 1..5 + m
    OBVIOUS
  <2>2. B[1] = p[1] /\ \A k \in 1..3 + m : B[1 + k] = p[1 + k] /\ p[1 + k] = h[k] /\ h[k] = g[k]
    BY <1>14, <1>16, <1>23, <2>1
  <2>3. B[5 + m] = p[5 + m] /\ p[5 + m] = h[4 + m]
    BY <1>16, <1>23, <2>1
  <2> QED
    BY <1>14, <1>16, <2>2, <2>3
<1>25. /\ B[2] = a[1] /\ B[3] = a[2] /\ B[4] = a[3] /\ \A k \in 1..m : B[4 + k] = F[k]
  BY <1>10, <1>12, <1>24
<1>26. \A i \in 1..n : \A j \in 1..3 : B[4 + 3 * (i - 1) + j] = three(i)[j]
  <2> SUFFICES ASSUME NEW i \in 1..n, NEW j \in 1..3
               PROVE  B[4 + 3 * (i - 1) + j] = three(i)[j]
    OBVIOUS
  <2>1. 3 * (i - 1) + j \in 1..m /\ 4 + (3 * (i - 1) + j) = 4 + 3 * (i - 1) + j
    BY <1>10
  <2>2. F[3 * (i - 1) + j] = three(i)[j]
    BY <1>5
  <2> HIDE DEF three
  <2> QED
    BY <1>25, <2>1, <2>2
<1>27. \A i \in 1..n : /\ three(i)[1].op = "address"
                       /\ three(i)[2] = Calls("Bstring", <<i + 1>>) /\ three(i)[3].op = "store"
  BY DEF Do
<1> HIDE DEF three, s
<1>28. \A i \in 1..n : /\ B[4 + 3 * (i - 1) + 1].op = "address"
                       /\ B[4 + 3 * (i - 1) + 2].op = "call"
                       /\ B[4 + 3 * (i - 1) + 2].fn = "Bstring" /\ B[4 + 3 * (i - 1) + 2].is = <<i + 1>>
                       /\ B[4 + 3 * (i - 1) + 3].op = "store"
  <2> SUFFICES ASSUME NEW i \in 1..n
               PROVE  /\ B[4 + 3 * (i - 1) + 1].op = "address"
                      /\ B[4 + 3 * (i - 1) + 2].op = "call"
                      /\ B[4 + 3 * (i - 1) + 2].fn = "Bstring" /\ B[4 + 3 * (i - 1) + 2].is = <<i + 1>>
                      /\ B[4 + 3 * (i - 1) + 3].op = "store"
    OBVIOUS
  <2>1. PICK x : x = three(i)
    OBVIOUS
  <2>2. x[1].op = "address" /\ x[2] = Calls("Bstring", <<i + 1>>) /\ x[3].op = "store"
    BY <1>27, <2>1
  <2>3. /\ B[4 + 3 * (i - 1) + 1] = x[1] /\ B[4 + 3 * (i - 1) + 2] = x[2]
        /\ B[4 + 3 * (i - 1) + 3] = x[3]
    BY <1>26, <2>1
  <2> QED
    BY <2>2, <2>3, Operations
<1>29. /\ B[1].op = "PRE_GC" /\ B[2].op = "call" /\ B[3].op = "hold" /\ B[4].op = "push"
       /\ B[2].fn = "LmakeArray" /\ B[2].is = << >>
  BY <1>8, <1>24, <1>25, Operations
<1>30. B[5 + m].op = "pop" /\ B[6 + m].op = "POST_GC" /\ B[7 + m].op = "publish" /\ B[8 + m].op = "return"
  BY <1>8, <1>23, <1>24, Operations
<1> QED
  BY <1>1, <1>10, <1>22, <1>28, <1>29, <1>30 DEF SetArgsBody

\* set_args.
LEMMA SetArgsBodyInOrder ==
  ASSUME NEW n \in Nat
  PROVE  InOrder(set_args_body(n), "set_args") /\ SetArgsInOrder(set_args_body(n), n)
<1>1. PICK B : B = set_args_body(n)
  OBVIOUS
<1>2. /\ Len(B) = 3 * n + 8
      /\ B[1].op = "PRE_GC" /\ B[2].op = "call" /\ B[3].op = "hold" /\ B[4].op = "push"
      /\ B[2].fn = "LmakeArray" /\ B[2].is = << >>
      /\ \A i \in 1..n : /\ B[4 + 3 * (i - 1) + 1].op = "address"
                         /\ B[4 + 3 * (i - 1) + 2].op = "call"
                         /\ B[4 + 3 * (i - 1) + 2].fn = "Bstring" /\ B[4 + 3 * (i - 1) + 2].is = <<i + 1>>
                         /\ B[4 + 3 * (i - 1) + 3].op = "store"
      /\ B[3 * n + 5].op = "pop" /\ B[3 * n + 6].op = "POST_GC"
      /\ B[3 * n + 7].op = "publish" /\ B[3 * n + 8].op = "return"
  <2>1. SetArgsBody(B, n)
    BY <1>1, SetArgsSteps
  <2> QED
    BY <2>1 DEF SetArgsBody
<1>3. \A k \in 5..3 * n + 4 :
        \/ B[k].op = "address" \/ B[k].op = "store"
        \/ B[k].op = "call" /\ B[k].fn = "Bstring" /\ \E i \in 1..n : B[k].is = <<i + 1>>
  <2> SUFFICES ASSUME NEW k \in 5..3 * n + 4
               PROVE  \/ B[k].op = "address" \/ B[k].op = "store"
                      \/ B[k].op = "call" /\ B[k].fn = "Bstring" /\ \E i \in 1..n : B[k].is = <<i + 1>>
    OBVIOUS
  <2>1. PICK i \in 1..n : k = 4 + 3 * (i - 1) + 1 \/ k = 4 + 3 * (i - 1) + 2 \/ k = 4 + 3 * (i - 1) + 3
    <3>1. (k - 5) \div 3 + 1 \in 1..n
      OBVIOUS
    <3>2. PICK i \in 1..n : i = (k - 5) \div 3 + 1
      BY <3>1
    <3>3. k = 4 + 3 * (i - 1) + 1 \/ k = 4 + 3 * (i - 1) + 2 \/ k = 4 + 3 * (i - 1) + 3
      BY <3>2
    <3> QED
      BY <3>3
  <2>2. /\ B[4 + 3 * (i - 1) + 1].op = "address" /\ B[4 + 3 * (i - 1) + 3].op = "store"
        /\ B[4 + 3 * (i - 1) + 2].op = "call" /\ B[4 + 3 * (i - 1) + 2].fn = "Bstring"
        /\ B[4 + 3 * (i - 1) + 2].is = <<i + 1>>
    BY <1>2
  <2> QED
    BY <2>1, <2>2
<1>4. PICK m \in Nat : m = 3 * n
  OBVIOUS
<1>5. /\ Len(B) = m + 8
      /\ B[1].op = "PRE_GC" /\ B[2].op = "call" /\ B[3].op = "hold" /\ B[4].op = "push"
      /\ \A k \in 5..m + 4 : B[k].op \in {"address", "call", "store"}
      /\ B[m + 5].op = "pop" /\ B[m + 6].op = "POST_GC" /\ B[m + 7].op = "publish" /\ B[m + 8].op = "return"
  BY <1>2, <1>3, <1>4
<1>6. \A k \in 1..Len(B) : \/ k = 1 \/ k = 2 \/ k = 3 \/ k = 4 \/ k \in 5..m + 4
                           \/ k = m + 5 \/ k = m + 6 \/ k = m + 7 \/ k = m + 8
  <2>1. Len(B) = m + 8
    BY <1>5
  <2> QED
    BY <2>1
<1>7. Ends(B)
  BY <1>5, <1>6 DEF Ends
<1>8. Bracket(B, "PRE_GC", "POST_GC")
  <2>1. \A k \in 1..Len(B) : (B[k].op = "PRE_GC" <=> k = 1) /\ (B[k].op = "POST_GC" <=> k = m + 6)
    BY <1>5, <1>6
  <2>2. 1 \in 1..Len(B) /\ m + 6 \in 1..Len(B) /\ 1 < m + 6
    BY <1>5
  <2> QED
    BY <2>1, <2>2 DEF Bracket
<1>9. Bracket(B, "push", "pop")
  <2>1. \A k \in 1..Len(B) : (B[k].op = "push" <=> k = 4) /\ (B[k].op = "pop" <=> k = m + 5)
    BY <1>5, <1>6
  <2>2. 4 \in 1..Len(B) /\ m + 5 \in 1..Len(B) /\ 4 < m + 5
    BY <1>5
  <2> QED
    BY <2>1, <2>2 DEF Bracket
<1>10. Bracket(B, "print", "delete")
  BY <1>5, <1>6 DEF Bracket
<1>11. \A k \in 1..Len(B) : B[k].op \notin {"alloc", "fill", "same"}
  BY <1>5, <1>6
<1>12. AllocInOrder(B, "set_args") /\ FillInOrder(B, "set_args")
  BY <1>11 DEF AllocInOrder, FillInOrder
<1>13. \A k \in 1..Len(B) : B[k].op = "call" => k = 2 \/ k \in 5..m + 4
  BY <1>5, <1>6
<1>14. \A k \in 5..m + 4 : B[k].op = "call" => B[k].fn = "Bstring" /\ \E i \in 1..n : B[k].is = <<i + 1>>
  BY <1>3, <1>4
<1>15. \A k \in 1..Len(B) : B[k].op = "call" => IsCall(B[k])
  <2>1. IsCall(B[2])
    BY <1>2 DEF IsCall, Callees
  <2>2. ASSUME NEW k \in 5..m + 4, B[k].op = "call"
        PROVE  IsCall(B[k])
    <3>1. PICK i \in 1..n : B[k].fn = "Bstring" /\ B[k].is = <<i + 1>>
      BY <1>14, <2>2
    <3>2. <<i + 1>> \in Seq(Nat)
      OBVIOUS
    <3> QED
      BY <3>1, <3>2 DEF IsCall, Callees
  <2> QED
    BY <1>13, <2>1, <2>2
<1>16. CallInOrder(B, "set_args")
  <2>1. \A k \in 1..Len(B) : ~From(B, k + 1, "same") /\ ~From(B, k + 1, "fill")
    BY <1>5, <1>11 DEF From
  <2> QED
    BY <1>15, <2>1 DEF CallInOrder
<1>17. OwnInOrder(B, "set_args")
  <2>1. "set_args" \notin Callees
    BY DEF Callees
  <2> QED
    BY <2>1 DEF OwnInOrder
<1>18. SetArgsInOrder(B, n)
  <2> SUFFICES ASSUME NEW k \in 1..Len(B)
               PROVE  /\ B[k].op = "call" =>
                           /\ B[k].fn = "LmakeArray" \/ (B[k].fn = "Bstring" /\ \A i \in Range(B[k].is) : i \in 2..n + 1)
                           /\ Before(B, k, "hold") => Before(B, k, "push") /\ From(B, k + 1, "pop")
                      /\ B[k].op = "hold" => Before(B, k, "call")
                      /\ B[k].op \in {"address", "store", "publish"} => Before(B, k, "hold") /\ Before(B, k, "call")
                      /\ B[k].op = "publish" => ~From(B, k, "pop") /\ ~From(B, k + 1, "publish")
    BY DEF SetArgsInOrder
  <2>1. k > 3 => Before(B, k, "hold") /\ Before(B, k, "call")
    <3>1. k > 3 => 2 \in 1..k - 1 /\ 3 \in 1..k - 1
      OBVIOUS
    <3> QED
      BY <1>5, <3>1 DEF Before
  <2>2. k > 4 => Before(B, k, "push")
    BY <1>5 DEF Before
  <2>3. k < m + 5 => From(B, k + 1, "pop")
    BY <1>5 DEF From
  <2>4. k = 2 => ~Before(B, k, "hold")
    BY <1>5 DEF Before
  <2>5. k = m + 7 => ~From(B, k, "pop") /\ ~From(B, k + 1, "publish")
    BY <1>5 DEF From
  <2>6. k = 3 => Before(B, k, "call")
    BY <1>5 DEF Before
  <2>7. ASSUME k \in 5..m + 4, B[k].op = "call"
        PROVE  B[k].fn = "Bstring" /\ \A i \in Range(B[k].is) : i \in 2..n + 1
    <3>1. PICK i \in 1..n : B[k].fn = "Bstring" /\ B[k].is = <<i + 1>>
      BY <1>14, <2>7
    <3>2. Range(<<i + 1>>) = {i + 1}
      BY DEF Range
    <3>3. i + 1 \in 2..n + 1
      OBVIOUS
    <3> QED
      BY <3>1, <3>2, <3>3
  <2>8. B[k].op \in {"address", "store", "publish"} => k > 3
    BY <1>5, <1>6
  <2>9. (B[k].op = "hold" => k = 3) /\ (B[k].op = "publish" => k = m + 7)
    BY <1>5, <1>6
  <2>10. B[k].op = "call" => k = 2 \/ (k \in 5..m + 4 /\ k > 4 /\ k < m + 5)
    BY <1>13
  <2>11. B[2].fn = "LmakeArray"
    BY <1>2
  <2> QED
    BY <2>1, <2>2, <2>3, <2>4, <2>5, <2>6, <2>7, <2>8, <2>9, <2>10, <2>11
<1> QED
  BY <1>1, <1>7, <1>8, <1>9, <1>10, <1>12, <1>16, <1>17, <1>18 DEF InOrder, Brackets

\* The functions of the runtime that the model has.
Known(f) ==
  /\ f.fn \in DOMAIN FixedBodies \cup {"RVBarray", "RVBsexp", "Lclone", "LgetEnv", "LreadLine", "set_args"}
  /\ f.fn \in {"RVBarray", "RVBsexp", "set_args"} => f.n \in Nat

\* Their names.
LEMMA FixedNames ==
  DOMAIN FixedBodies =
    {"LmakeString", "LmakeArray", "Bstring", "Lsubstring", "Li__Infix_4343", "Barray", "Bsexp", "Bclosure",
     "Lstring", "Lstringcat", "Bsprintf", "Lfread", "Ls__Infix_58", "RVBstring", "RVLstring"}
  BY DEF FixedBodies

\* The body of each.
LEMMA BodyOf ==
  ASSUME NEW f
  PROVE  /\ f.fn = "LmakeString" => Body(f) = LmakeString_body
         /\ f.fn = "LmakeArray" => Body(f) = LmakeArray_body
         /\ f.fn = "Bstring" => Body(f) = Bstring_body
         /\ f.fn \in {"Lsubstring", "Li__Infix_4343"} => Body(f) = Lsubstring_body
         /\ f.fn \in {"Barray", "Bsexp", "Bclosure"} => Body(f) = Constructor_body
         /\ f.fn \in {"Lstring", "Lstringcat"} => Body(f) = Lstring_body
         /\ f.fn = "Bsprintf" => Body(f) = Bsprintf_body
         /\ f.fn = "Lfread" => Body(f) = Lfread_body
         /\ f.fn = "Ls__Infix_58" => Body(f) = Ls__Infix_58_body
         /\ f.fn = "RVBstring" => Body(f) = Wrapper_body("Bstring", 1)
         /\ f.fn = "RVLstring" => Body(f) = Wrapper_body("Lstring", 1)
         /\ f.fn = "RVBarray" => Body(f) = Wrapper_body("Barray", f.n)
         /\ f.fn = "RVBsexp" => Body(f) = Wrapper_body("Bsexp", f.n)
         /\ f.fn = "Lclone" => Body(f) = Lclone_body(f.t)
         /\ f.fn = "LgetEnv" => Body(f) = LgetEnv_body(f.t)
         /\ f.fn = "LreadLine" => Body(f) = LreadLine_body(f.t)
         /\ f.fn = "set_args" => Body(f) = set_args_body(f.n)
<1>1. f.fn \in DOMAIN FixedBodies => Body(f) = FixedBodies[f.fn]
  BY DEF Body
<1>2. f.fn \in {"Lsubstring", "Li__Infix_4343"} => FixedBodies[f.fn] = Lsubstring_body
  BY DEF FixedBodies, Li__Infix_4343_body
<1>3. f.fn \in {"Barray", "Bsexp", "Bclosure"} => FixedBodies[f.fn] = Constructor_body
  BY DEF FixedBodies
<1>4. f.fn \in {"Lstring", "Lstringcat"} => FixedBodies[f.fn] = Lstring_body
  BY DEF FixedBodies
<1>5. /\ FixedBodies["LmakeString"] = LmakeString_body /\ FixedBodies["LmakeArray"] = LmakeArray_body
      /\ FixedBodies["Bstring"] = Bstring_body /\ FixedBodies["Bsprintf"] = Bsprintf_body
      /\ FixedBodies["Lfread"] = Lfread_body /\ FixedBodies["Ls__Infix_58"] = Ls__Infix_58_body
      /\ FixedBodies["RVBstring"] = Wrapper_body("Bstring", 1)
      /\ FixedBodies["RVLstring"] = Wrapper_body("Lstring", 1)
  BY DEF FixedBodies
<1>6. /\ f.fn = "RVBarray" => Body(f) = Wrapper_body("Barray", f.n)
      /\ f.fn = "RVBsexp" => Body(f) = Wrapper_body("Bsexp", f.n)
      /\ f.fn = "Lclone" => Body(f) = Lclone_body(f.t)
      /\ f.fn = "LgetEnv" => Body(f) = LgetEnv_body(f.t)
      /\ f.fn = "LreadLine" => Body(f) = LreadLine_body(f.t)
      /\ f.fn = "set_args" => Body(f) = set_args_body(f.n)
  BY FixedNames DEF Body
<1> QED
  BY <1>1, <1>2, <1>3, <1>4, <1>5, <1>6, FixedNames

\* The call that a function makes, which one and of which of its own words.
CallOf(f, o) ==
  \/ f.fn \in {"Bstring", "Lfread"} /\ o.fn = "LmakeString" /\ o.is = << >>
  \/ /\ f.fn \in {"Lstring", "Lstringcat", "LgetEnv", "LreadLine", "RVBstring", "Lclone"}
     /\ o.fn = "Bstring" /\ o.is = <<1>>
  \/ f.fn = "Bsprintf" /\ o.fn = "Bstring" /\ o.is = <<2>>
  \/ f.fn = "Ls__Infix_58" /\ o.fn = "Bsexp" /\ o.is = <<1, 2>>
  \/ f.fn = "RVLstring" /\ o.fn = "Lstring" /\ o.is = <<1>>
  \/ f.fn = "RVBarray" /\ o.fn = "Barray" /\ o.is = [i \in 1..f.n |-> i]
  \/ f.fn = "RVBsexp" /\ o.fn = "Bsexp" /\ o.is = [i \in 1..f.n |-> i]

CallsOf(f) == \A k \in 1..Len(Body(f)) : Body(f)[k].op = "call" => CallOf(f, Body(f)[k])

\* All bodies are in order.
LEMMA BodyInOrder ==
  ASSUME NEW f, Known(f)
  PROVE  InOrder(Body(f), f.fn) /\ (f.fn # "set_args" => CallsOf(f))
<1> DEFINE B == Body(f)
<1>1. CASE f.fn = "LmakeString"
  <2>1. /\ Len(B) = 4 /\ B[1] = Do("PRE_GC") /\ B[2] = Do("alloc") /\ B[3] = Do("POST_GC")
        /\ B[4] = Do("return")
    BY <1>1, BodyOf DEF LmakeString_body, Guarded, Ret
  <2>2. /\ B[1].op = "PRE_GC" /\ B[2].op = "alloc" /\ B[3].op = "POST_GC" /\ B[4].op = "return"
    BY <2>1, Operations
  <2>3. CallsOf(f)
    BY <2>1, <2>2 DEF CallsOf
  <2>4. InOrder(B, f.fn)
    <3> HIDE DEF B
    <3> QED
      BY <1>1, <2>1, <2>2, AllocatedStringInOrder
  <2> QED
    BY <2>3, <2>4
<1>2. CASE f.fn = "LmakeArray"
  <2>1. /\ Len(B) = 5 /\ B[1] = Do("PRE_GC") /\ B[2] = Do("alloc") /\ B[3] = Do("fill")
        /\ B[4] = Do("POST_GC") /\ B[5] = Do("return")
    BY <1>2, BodyOf DEF LmakeArray_body, Guarded, Ret
  <2>2. /\ B[1].op = "PRE_GC" /\ B[2].op = "alloc" /\ B[3].op = "fill" /\ B[4].op = "POST_GC"
        /\ B[5].op = "return"
    BY <2>1, Operations
  <2>3. CallsOf(f)
    BY <2>1, <2>2 DEF CallsOf
  <2>4. InOrder(B, f.fn)
    <3> HIDE DEF B
    <3> QED
      BY <1>2, <2>1, <2>2, AllocatedArrayInOrder
  <2> QED
    BY <2>3, <2>4
<1>3. CASE f.fn = "Bstring"
  <2>1. /\ Len(B) = 7 /\ B[1] = Do("PRE_GC") /\ B[2] = Do("push")
        /\ B[3] = Calls("LmakeString", << >>) /\ B[4] = Do("pop") /\ B[5] = Do("fill")
        /\ B[6] = Do("POST_GC") /\ B[7] = Do("return")
    BY <1>3, BodyOf DEF Bstring_body, Guarded, Rooted, Ret
  <2>2. /\ B[1].op = "PRE_GC" /\ B[2].op = "push" /\ B[3].op = "call" /\ B[4].op = "pop"
        /\ B[5].op = "fill" /\ B[6].op = "POST_GC" /\ B[7].op = "return"
    BY <2>1, Operations
  <2>3. B[3].fn = "LmakeString" /\ B[3].is = << >>
    BY <2>1, Operations
  <2>4. CallOf(f, B[3])
    BY <1>3, <2>3 DEF CallOf
  <2>5. IsCall(B[3])
    BY <2>3 DEF IsCall, Callees
  <2>6. CallsOf(f)
    BY <2>1, <2>2, <2>4 DEF CallsOf
  <2>7. InOrder(B, f.fn)
    <3> HIDE DEF B
    <3> QED
      BY <1>3, <2>1, <2>2, <2>5, CopiedStringInOrder
  <2> QED
    BY <2>6, <2>7
<1>4. CASE f.fn \in {"Lsubstring", "Li__Infix_4343"}
  <2>1. /\ Len(B) = 8 /\ B[1] = Do("check") /\ B[2] = Do("PRE_GC") /\ B[3] = Do("push")
        /\ B[4] = Do("alloc") /\ B[5] = Do("pop") /\ B[6] = Do("fill") /\ B[7] = Do("POST_GC")
        /\ B[8] = Do("return")
    BY <1>4, BodyOf DEF Lsubstring_body, Guarded, Rooted, Ret
  <2>2. /\ B[1].op = "check" /\ B[2].op = "PRE_GC" /\ B[3].op = "push" /\ B[4].op = "alloc"
        /\ B[5].op = "pop" /\ B[6].op = "fill" /\ B[7].op = "POST_GC" /\ B[8].op = "return"
    BY <2>1, Operations
  <2>3. CallsOf(f)
    BY <2>1, <2>2 DEF CallsOf
  <2>4. InOrder(B, f.fn)
    <3> HIDE DEF B
    <3> QED
      BY <1>4, <2>1, <2>2, JoinedStringsInOrder
  <2> QED
    BY <2>3, <2>4
<1>5. CASE f.fn \in {"Barray", "Bsexp", "Bclosure"}
  <2>1. /\ Len(B) = 7 /\ B[1] = Do("PRE_GC") /\ B[2] = Do("push") /\ B[3] = Do("alloc")
        /\ B[4] = Do("fill") /\ B[5] = Do("pop") /\ B[6] = Do("POST_GC") /\ B[7] = Do("return")
    BY <1>5, BodyOf DEF Constructor_body, Guarded, Ret
  <2>2. /\ B[1].op = "PRE_GC" /\ B[2].op = "push" /\ B[3].op = "alloc" /\ B[4].op = "fill"
        /\ B[5].op = "pop" /\ B[6].op = "POST_GC" /\ B[7].op = "return"
    BY <2>1, Operations
  <2>3. CallsOf(f)
    BY <2>1, <2>2 DEF CallsOf
  <2>4. InOrder(B, f.fn)
    <3> HIDE DEF B
    <3> QED
      BY <1>5, <2>1, <2>2, ConstructedInOrder
  <2> QED
    BY <2>3, <2>4
<1>6. CASE f.fn = "Lclone" /\ f.t # "int" /\ f.t # "STRING"
  <2>1. /\ Len(B) = 7 /\ B[1] = Do("PRE_GC") /\ B[2] = Do("push") /\ B[3] = Do("alloc")
        /\ B[4] = Do("fill") /\ B[5] = Do("pop") /\ B[6] = Do("POST_GC") /\ B[7] = Do("return")
    BY <1>6, BodyOf DEF Lclone_body, Guarded, Rooted, Ret
  <2>2. /\ B[1].op = "PRE_GC" /\ B[2].op = "push" /\ B[3].op = "alloc" /\ B[4].op = "fill"
        /\ B[5].op = "pop" /\ B[6].op = "POST_GC" /\ B[7].op = "return"
    BY <2>1, Operations
  <2>3. CallsOf(f)
    BY <2>1, <2>2 DEF CallsOf
  <2>4. InOrder(B, f.fn)
    <3> HIDE DEF B
    <3> QED
      BY <1>6, <2>1, <2>2, ConstructedInOrder
  <2> QED
    BY <2>3, <2>4
<1>7. CASE f.fn = "Lclone" /\ f.t # "int" /\ f.t = "STRING"
  <2>1. /\ Len(B) = 6 /\ B[1] = Do("PRE_GC") /\ B[2] = Do("push") /\ B[3] = Calls("Bstring", <<1>>)
        /\ B[4] = Do("pop") /\ B[5] = Do("POST_GC") /\ B[6] = Do("return")
    BY <1>7, BodyOf DEF Lclone_body, Guarded, Rooted, Ret
  <2>2. /\ B[1].op = "PRE_GC" /\ B[2].op = "push" /\ B[3].op = "call" /\ B[4].op = "pop"
        /\ B[5].op = "POST_GC" /\ B[6].op = "return"
    BY <2>1, Operations
  <2>3. B[3].fn = "Bstring" /\ B[3].is = <<1>>
    BY <2>1, Operations
  <2>4. CallOf(f, B[3])
    BY <1>7, <2>3 DEF CallOf
  <2>5. IsCall(B[3])
    BY <2>3 DEF IsCall, Callees
  <2>6. CallsOf(f)
    BY <2>1, <2>2, <2>4 DEF CallsOf
  <2>7. InOrder(B, f.fn)
    <3> HIDE DEF B
    <3> QED
      BY <1>7, <2>1, <2>2, <2>5, ClonedInOrder
  <2> QED
    BY <2>6, <2>7
<1>8. CASE f.fn = "Lclone" /\ f.t = "int"
  <2>1. /\ Len(B) = 2 /\ B[1] = Do("same") /\ B[2] = Do("return")
    BY <1>8, BodyOf DEF Lclone_body, Ret
  <2>2. /\ B[1].op = "same" /\ B[2].op = "return"
    BY <2>1, Operations
  <2>3. CallsOf(f)
    BY <2>1, <2>2 DEF CallsOf
  <2>4. InOrder(B, f.fn)
    <3> HIDE DEF B
    <3> QED
      BY <1>8, <2>1, <2>2, AnsweredInOrder
  <2> QED
    BY <2>3, <2>4
<1>9. CASE f.fn \in {"Lstring", "Lstringcat"}
  <2>1. /\ Len(B) = 8 /\ B[1] = Do("PRE_GC") /\ B[2] = Do("print") /\ B[3] = Do("push")
        /\ B[4] = Calls("Bstring", <<1>>) /\ B[5] = Do("pop") /\ B[6] = Do("delete")
        /\ B[7] = Do("POST_GC") /\ B[8] = Do("return")
    BY <1>9, BodyOf DEF Lstring_body, Guarded, Rooted, Ret
  <2>2. /\ B[1].op = "PRE_GC" /\ B[2].op = "print" /\ B[3].op = "push" /\ B[4].op = "call"
        /\ B[5].op = "pop" /\ B[6].op = "delete" /\ B[7].op = "POST_GC" /\ B[8].op = "return"
    BY <2>1, Operations
  <2>3. B[4].fn = "Bstring" /\ B[4].is = <<1>>
    BY <2>1, Operations
  <2>4. CallOf(f, B[4])
    BY <1>9, <2>3 DEF CallOf
  <2>5. IsCall(B[4])
    BY <2>3 DEF IsCall, Callees
  <2>6. CallsOf(f)
    BY <2>1, <2>2, <2>4 DEF CallsOf
  <2>7. InOrder(B, f.fn)
    <3> HIDE DEF B
    <3> QED
      BY <1>9, <2>1, <2>2, <2>5, ShownInOrder
  <2> QED
    BY <2>6, <2>7
<1>10. CASE f.fn = "Bsprintf"
  <2>1. /\ Len(B) = 9 /\ B[1] = Do("check") /\ B[2] = Do("print") /\ B[3] = Do("PRE_GC")
        /\ B[4] = Do("push") /\ B[5] = Calls("Bstring", <<2>>) /\ B[6] = Do("pop")
        /\ B[7] = Do("POST_GC") /\ B[8] = Do("delete") /\ B[9] = Do("return")
    BY <1>10, BodyOf DEF Bsprintf_body, Guarded, Rooted, Ret
  <2>2. /\ B[1].op = "check" /\ B[2].op = "print" /\ B[3].op = "PRE_GC" /\ B[4].op = "push"
        /\ B[5].op = "call" /\ B[6].op = "pop" /\ B[7].op = "POST_GC" /\ B[8].op = "delete"
        /\ B[9].op = "return"
    BY <2>1, Operations
  <2>3. B[5].fn = "Bstring" /\ B[5].is = <<2>>
    BY <2>1, Operations
  <2>4. CallOf(f, B[5])
    BY <1>10, <2>3 DEF CallOf
  <2>5. IsCall(B[5])
    BY <2>3 DEF IsCall, Callees
  <2>6. CallsOf(f)
    BY <2>1, <2>2, <2>4 DEF CallsOf
  <2>7. InOrder(B, f.fn)
    <3> HIDE DEF B
    <3> QED
      BY <1>10, <2>1, <2>2, <2>5, FormattedInOrder
  <2> QED
    BY <2>6, <2>7
<1>11. CASE f.fn = "LgetEnv" /\ f.t = Absent
  <2>1. /\ Len(B) = 2 /\ B[1] = Do("same") /\ B[2] = Do("return")
    BY <1>11, BodyOf DEF LgetEnv_body, Ret
  <2>2. /\ B[1].op = "same" /\ B[2].op = "return"
    BY <2>1, Operations
  <2>3. CallsOf(f)
    BY <2>1, <2>2 DEF CallsOf
  <2>4. InOrder(B, f.fn)
    <3> HIDE DEF B
    <3> QED
      BY <1>11, <2>1, <2>2, AnsweredInOrder
  <2> QED
    BY <2>3, <2>4
<1>12. CASE f.fn = "LgetEnv" /\ f.t # Absent
  <2>1. /\ Len(B) = 4 /\ B[1] = Do("PRE_GC") /\ B[2] = Calls("Bstring", <<1>>)
        /\ B[3] = Do("POST_GC") /\ B[4] = Do("return")
    BY <1>12, BodyOf DEF LgetEnv_body, Guarded, Ret
  <2>2. /\ B[1].op = "PRE_GC" /\ B[2].op = "call" /\ B[3].op = "POST_GC" /\ B[4].op = "return"
    BY <2>1, Operations
  <2>3. B[2].fn = "Bstring" /\ B[2].is = <<1>>
    BY <2>1, Operations
  <2>4. CallOf(f, B[2])
    BY <1>12, <2>3 DEF CallOf
  <2>5. IsCall(B[2])
    BY <2>3 DEF IsCall, Callees
  <2>6. CallsOf(f)
    BY <2>1, <2>2, <2>4 DEF CallsOf
  <2>7. InOrder(B, f.fn)
    <3> HIDE DEF B
    <3> QED
      BY <1>12, <2>1, <2>2, <2>5, DelegatedInOrder
  <2> QED
    BY <2>6, <2>7
<1>13. CASE f.fn = "Ls__Infix_58"
  <2>1. /\ Len(B) = 4 /\ B[1] = Do("PRE_GC") /\ B[2] = Calls("Bsexp", <<1, 2>>)
        /\ B[3] = Do("POST_GC") /\ B[4] = Do("return")
    BY <1>13, BodyOf DEF Ls__Infix_58_body, Guarded, Ret
  <2>2. /\ B[1].op = "PRE_GC" /\ B[2].op = "call" /\ B[3].op = "POST_GC" /\ B[4].op = "return"
    BY <2>1, Operations
  <2>3. B[2].fn = "Bsexp" /\ B[2].is = <<1, 2>>
    BY <2>1, Operations
  <2>4. CallOf(f, B[2])
    BY <1>13, <2>3 DEF CallOf
  <2>5. IsCall(B[2])
    BY <2>3 DEF IsCall, Callees
  <2>6. CallsOf(f)
    BY <2>1, <2>2, <2>4 DEF CallsOf
  <2>7. InOrder(B, f.fn)
    <3> HIDE DEF B
    <3> QED
      BY <1>13, <2>1, <2>2, <2>5, DelegatedInOrder
  <2> QED
    BY <2>6, <2>7
<1>14. CASE f.fn = "LreadLine" /\ f.t = Absent
  <2>1. /\ Len(B) = 3 /\ B[1] = Do("check") /\ B[2] = Do("same") /\ B[3] = Do("return")
    BY <1>14, BodyOf DEF LreadLine_body, Ret
  <2>2. /\ B[1].op = "check" /\ B[2].op = "same" /\ B[3].op = "return"
    BY <2>1, Operations
  <2>3. CallsOf(f)
    BY <2>1, <2>2 DEF CallsOf
  <2>4. InOrder(B, f.fn)
    <3> HIDE DEF B
    <3> QED
      BY <1>14, <2>1, <2>2, EndedInOrder
  <2> QED
    BY <2>3, <2>4
<1>15. CASE f.fn = "LreadLine" /\ f.t # Absent
  <2>1. /\ Len(B) = 2 /\ B[1] = Calls("Bstring", <<1>>) /\ B[2] = Do("return")
    BY <1>15, BodyOf DEF LreadLine_body, Ret
  <2>2. /\ B[1].op = "call" /\ B[2].op = "return"
    BY <2>1, Operations
  <2>3. B[1].fn = "Bstring" /\ B[1].is = <<1>>
    BY <2>1, Operations
  <2>4. CallOf(f, B[1])
    BY <1>15, <2>3 DEF CallOf
  <2>5. IsCall(B[1])
    BY <2>3 DEF IsCall, Callees
  <2>6. CallsOf(f)
    BY <2>1, <2>2, <2>4 DEF CallsOf
  <2>7. InOrder(B, f.fn)
    <3> HIDE DEF B
    <3> QED
      BY <1>15, <2>1, <2>2, <2>5, WrappedInOrder
  <2> QED
    BY <2>6, <2>7
<1>16. CASE f.fn = "Lfread"
  <2>1. /\ Len(B) = 4 /\ B[1] = Calls("LmakeString", << >>) /\ B[2] = Do("check")
        /\ B[3] = Do("fill") /\ B[4] = Do("return")
    BY <1>16, BodyOf DEF Lfread_body, Ret
  <2>2. /\ B[1].op = "call" /\ B[2].op = "check" /\ B[3].op = "fill" /\ B[4].op = "return"
    BY <2>1, Operations
  <2>3. B[1].fn = "LmakeString" /\ B[1].is = << >>
    BY <2>1, Operations
  <2>4. CallOf(f, B[1])
    BY <1>16, <2>3 DEF CallOf
  <2>5. IsCall(B[1])
    BY <2>3 DEF IsCall, Callees
  <2>6. CallsOf(f)
    BY <2>1, <2>2, <2>4 DEF CallsOf
  <2>7. InOrder(B, f.fn)
    <3> HIDE DEF B
    <3> QED
      BY <1>16, <2>1, <2>2, <2>5, ReadFileInOrder
  <2> QED
    BY <2>6, <2>7
<1>17. CASE f.fn = "RVBstring"
  <2>1. /\ Len(B) = 2 /\ B[1] = Calls("Bstring", [i \in 1..1 |-> i]) /\ B[2] = Do("return")
    <3>1. PICK w : w = [i \in 1..1 |-> i]
      OBVIOUS
    <3>2. B = <<Calls("Bstring", w)>> \o <<Do("return")>>
      BY <1>17, <3>1, BodyOf DEF Wrapper_body, Ret
    <3> HIDE DEF B
    <3>3. Len(B) = 2 /\ B[1] = Calls("Bstring", w) /\ B[2] = Do("return")
      BY <3>2
    <3> QED
      BY <3>1, <3>3
  <2>2. /\ B[1].op = "call" /\ B[2].op = "return"
    BY <2>1, Operations
  <2>3. B[1].fn = "Bstring" /\ B[1].is = <<1>>
    BY <2>1, Operations
  <2>4. CallOf(f, B[1])
    BY <1>17, <2>3 DEF CallOf
  <2>5. IsCall(B[1])
    BY <2>3 DEF IsCall, Callees
  <2>6. CallsOf(f)
    BY <2>1, <2>2, <2>4 DEF CallsOf
  <2>7. InOrder(B, f.fn)
    <3> HIDE DEF B
    <3> QED
      BY <1>17, <2>1, <2>2, <2>5, WrappedInOrder
  <2> QED
    BY <2>6, <2>7
<1>18. CASE f.fn = "RVLstring"
  <2>1. /\ Len(B) = 2 /\ B[1] = Calls("Lstring", [i \in 1..1 |-> i]) /\ B[2] = Do("return")
    <3>1. PICK w : w = [i \in 1..1 |-> i]
      OBVIOUS
    <3>2. B = <<Calls("Lstring", w)>> \o <<Do("return")>>
      BY <1>18, <3>1, BodyOf DEF Wrapper_body, Ret
    <3> HIDE DEF B
    <3>3. Len(B) = 2 /\ B[1] = Calls("Lstring", w) /\ B[2] = Do("return")
      BY <3>2
    <3> QED
      BY <3>1, <3>3
  <2>2. /\ B[1].op = "call" /\ B[2].op = "return"
    BY <2>1, Operations
  <2>3. B[1].fn = "Lstring" /\ B[1].is = <<1>>
    BY <2>1, Operations
  <2>4. CallOf(f, B[1])
    BY <1>18, <2>3 DEF CallOf
  <2>5. IsCall(B[1])
    BY <2>3 DEF IsCall, Callees
  <2>6. CallsOf(f)
    BY <2>1, <2>2, <2>4 DEF CallsOf
  <2>7. InOrder(B, f.fn)
    <3> HIDE DEF B
    <3> QED
      BY <1>18, <2>1, <2>2, <2>5, WrappedInOrder
  <2> QED
    BY <2>6, <2>7
<1>19. CASE f.fn = "RVBarray"
  <2>1. /\ Len(B) = 2 /\ B[1] = Calls("Barray", [i \in 1..f.n |-> i]) /\ B[2] = Do("return")
    <3>1. PICK w : w = [i \in 1..f.n |-> i]
      OBVIOUS
    <3>2. B = <<Calls("Barray", w)>> \o <<Do("return")>>
      BY <1>19, <3>1, BodyOf DEF Wrapper_body, Ret
    <3> HIDE DEF B
    <3>3. Len(B) = 2 /\ B[1] = Calls("Barray", w) /\ B[2] = Do("return")
      BY <3>2
    <3> QED
      BY <3>1, <3>3
  <2>2. /\ B[1].op = "call" /\ B[2].op = "return"
    BY <2>1, Operations
  <2>3. B[1].fn = "Barray" /\ B[1].is = [i \in 1..f.n |-> i]
    BY <2>1, Operations
  <2>4. CallOf(f, B[1])
    BY <1>19, <2>3 DEF CallOf
  <2>5. B[1].is \in Seq(Nat)
    <3>1. f.n \in Nat
      BY <1>19 DEF Known
    <3> QED
      BY <2>3, <3>1
  <2>6. IsCall(B[1])
    BY <2>3, <2>5 DEF IsCall, Callees
  <2>7. CallsOf(f)
    BY <2>1, <2>2, <2>4 DEF CallsOf
  <2>8. InOrder(B, f.fn)
    <3> HIDE DEF B
    <3> QED
      BY <1>19, <2>1, <2>2, <2>6, WrappedInOrder
  <2> QED
    BY <2>7, <2>8
<1>20. CASE f.fn = "RVBsexp"
  <2>1. /\ Len(B) = 2 /\ B[1] = Calls("Bsexp", [i \in 1..f.n |-> i]) /\ B[2] = Do("return")
    <3>1. PICK w : w = [i \in 1..f.n |-> i]
      OBVIOUS
    <3>2. B = <<Calls("Bsexp", w)>> \o <<Do("return")>>
      BY <1>20, <3>1, BodyOf DEF Wrapper_body, Ret
    <3> HIDE DEF B
    <3>3. Len(B) = 2 /\ B[1] = Calls("Bsexp", w) /\ B[2] = Do("return")
      BY <3>2
    <3> QED
      BY <3>1, <3>3
  <2>2. /\ B[1].op = "call" /\ B[2].op = "return"
    BY <2>1, Operations
  <2>3. B[1].fn = "Bsexp" /\ B[1].is = [i \in 1..f.n |-> i]
    BY <2>1, Operations
  <2>4. CallOf(f, B[1])
    BY <1>20, <2>3 DEF CallOf
  <2>5. B[1].is \in Seq(Nat)
    <3>1. f.n \in Nat
      BY <1>20 DEF Known
    <3> QED
      BY <2>3, <3>1
  <2>6. IsCall(B[1])
    BY <2>3, <2>5 DEF IsCall, Callees
  <2>7. CallsOf(f)
    BY <2>1, <2>2, <2>4 DEF CallsOf
  <2>8. InOrder(B, f.fn)
    <3> HIDE DEF B
    <3> QED
      BY <1>20, <2>1, <2>2, <2>6, WrappedInOrder
  <2> QED
    BY <2>7, <2>8
<1>21. CASE f.fn = "set_args"
  BY <1>21, BodyOf, SetArgsBodyInOrder DEF Known
<1> QED
  BY <1>1, <1>2, <1>3, <1>4, <1>5, <1>6, <1>7, <1>8, <1>9, <1>10, <1>11, <1>12, <1>13, <1>14, <1>15, <1>16, <1>17, <1>18, <1>19, <1>20, <1>21, FixedNames DEF Known

-----------------------------------------------------------------------------
(* What a collection keeps.                                                *)

\* Objects that refer to objects of the store only.
Closed(st, U) == \A i \in U : Referred(WordsOf(st[i])) \subseteq U

\* The equation of the function that Reach is defined by.
NextOf(st, S) == S \cup UNION {Referred(WordsOf(st[i])) : i \in S}
Closes(f, st) ==
  f = [S \in SUBSET DOMAIN st |-> IF NextOf(st, S) = S THEN S ELSE f[NextOf(st, S)]]

\* There is such a function: the least closed set above S.
LEMMA ClosesExists ==
  ASSUME NEW st, Closed(st, DOMAIN st)
  PROVE  \E f : Closes(f, st)
<1> DEFINE D == DOMAIN st
           Above(S) == {U \in SUBSET D : S \subseteq U /\ Closed(st, U)}
           least(S) == {x \in D : \A U \in Above(S) : x \in U}
           g == [S \in SUBSET D |-> least(S)]
<1>1. ASSUME NEW S \in SUBSET D
      PROVE  NextOf(st, S) \in SUBSET D
  BY <1>1 DEF NextOf, Closed
<1>2. ASSUME NEW S \in SUBSET D, NextOf(st, S) = S
      PROVE  least(S) = S
  <2>1. Closed(st, S)
    BY <1>2 DEF NextOf, Closed
  <2>2. S \in Above(S)
    BY <2>1
  <2> QED
    BY <2>2
<1>3. ASSUME NEW S \in SUBSET D
      PROVE  Above(S) = Above(NextOf(st, S))
  <2>1. \A U \in SUBSET D : Closed(st, U) => (S \subseteq U <=> NextOf(st, S) \subseteq U)
    BY DEF NextOf, Closed
  <2> QED
    BY <2>1
<1>4. ASSUME NEW S \in SUBSET D
      PROVE  least(S) = least(NextOf(st, S))
  <2> HIDE DEF Above
  <2> QED
    BY <1>3
<1>5. g = [S \in SUBSET D |-> IF NextOf(st, S) = S THEN S ELSE g[NextOf(st, S)]]
  <2> SUFFICES ASSUME NEW S \in SUBSET D
               PROVE  g[S] = IF NextOf(st, S) = S THEN S ELSE g[NextOf(st, S)]
    BY Zenon
  <2>1. g[S] = least(S) /\ g[NextOf(st, S)] = least(NextOf(st, S))
    <3> HIDE DEF least
    <3> QED
      BY <1>1
  <2> HIDE DEF least, g
  <2> QED
    BY <1>2, <1>4, <2>1
<1> QED
  <2> HIDE DEF g
  <2> QED
    BY <1>5 DEF Closes

\* Its values: what is reached is there, it is above S and leads to nothing else.
LEMMA ClosesReaches ==
  ASSUME NEW st, IsFiniteSet(DOMAIN st), Closed(st, DOMAIN st), NEW f, Closes(f, st)
  PROVE  \A S \in SUBSET DOMAIN st : f[S] \subseteq DOMAIN st /\ S \subseteq f[S] /\ Closed(st, f[S])
<1> DEFINE D == DOMAIN st
           Good(S) == f[S] \subseteq D /\ S \subseteq f[S] /\ Closed(st, f[S])
           T == {n \in Nat : \E S \in SUBSET D : Cardinality(D \ S) = n /\ ~Good(S)}
<1>1. \A S \in SUBSET D : Cardinality(D \ S) \in Nat
  <2> SUFFICES ASSUME NEW S \in SUBSET D
               PROVE  Cardinality(D \ S) \in Nat
    OBVIOUS
  <2>1. IsFiniteSet(D \ S)
    BY FS_Subset
  <2> QED
    BY <2>1, FS_CardinalityType
<1>2. CASE T = {}
  <2>1. \A S \in SUBSET D : Good(S)
    <3> HIDE DEF Good
    <3> QED
      BY <1>1, <1>2
  <2> QED
    BY <2>1
<1>3. CASE T # {}
  <2>1. PICK n \in T : \A m \in T : n <= m
    <3>1. T \subseteq Nat
      OBVIOUS
    <3> HIDE DEF T
    <3> QED
      BY <1>3, <3>1, LeastNumber
  <2>2. PICK S \in SUBSET D : Cardinality(D \ S) = n /\ ~Good(S)
    <3> HIDE DEF Good
    <3> QED
      BY <2>1
  <2>3. f[S] = IF NextOf(st, S) = S THEN S ELSE f[NextOf(st, S)]
    BY DEF Closes
  <2>4. CASE NextOf(st, S) = S
    <3>1. Closed(st, S)
      BY <2>4 DEF NextOf, Closed
    <3> QED
      BY <2>2, <2>3, <2>4, <3>1
  <2>5. CASE NextOf(st, S) # S
    <3>1. PICK U : U = NextOf(st, S)
      OBVIOUS
    <3>2. U \in SUBSET D /\ S \subseteq U /\ U # S
      BY <2>5, <3>1 DEF NextOf, Closed
    <3>3. Cardinality(D \ U) \in Nat /\ Cardinality(D \ U) < n
      <4>1. IsFiniteSet(D \ S)
        BY FS_Subset
      <4>2. (D \ U) \subseteq (D \ S) /\ (D \ U) # (D \ S)
        BY <3>2
      <4>3. Cardinality(D \ U) <= Cardinality(D \ S) /\ Cardinality(D \ U) # Cardinality(D \ S)
        <5>1. Cardinality(D \ U) <= Cardinality(D \ S) /\ (Cardinality(D \ U) = Cardinality(D \ S) => D \ U = D \ S)
          BY <4>1, <4>2, FS_Subset
        <5> QED
          BY <4>2, <5>1
      <4>4. Cardinality(D \ U) \in Nat /\ Cardinality(D \ S) \in Nat
        BY <1>1, <3>2
      <4> QED
        BY <2>2, <4>3, <4>4
    <3>4. Good(U)
      <4>1. Cardinality(D \ U) \notin T
        <5> HIDE DEF T
        <5>1. n \in Nat
          BY <1>1, <2>2
        <5> QED
          BY <2>1, <3>3, <5>1
      <4> HIDE DEF Good
      <4> QED
        BY <3>2, <3>3, <4>1
    <3> QED
      BY <2>2, <2>3, <2>5, <3>1, <3>2, <3>4
  <2> QED
    BY <2>4, <2>5
<1> QED
  BY <1>2, <1>3

\* Reach: objects of the store, those that the words refer to, and all that these
\* lead to.
LEMMA ReachClosed ==
  ASSUME NEW st, NEW ws, IsFiniteSet(DOMAIN st), Closed(st, DOMAIN st), Referred(ws) \subseteq DOMAIN st
  PROVE  Reach(st, ws) \subseteq DOMAIN st /\ Referred(ws) \subseteq Reach(st, ws) /\ Closed(st, Reach(st, ws))
<1> DEFINE f == CHOOSE f : f = [S \in SUBSET DOMAIN st |->
                                 LET T == S \cup UNION {Referred(WordsOf(st[i])) : i \in S}
                                 IN  IF T = S THEN S ELSE f[T]]
<1>1. PICK h : Closes(h, st)
  BY ClosesExists
<1>2. h = [S \in SUBSET DOMAIN st |->
             LET T == S \cup UNION {Referred(WordsOf(st[i])) : i \in S}
             IN  IF T = S THEN S ELSE h[T]]
  BY <1>1 DEF Closes, NextOf
<1>3. f = [S \in SUBSET DOMAIN st |->
             LET T == S \cup UNION {Referred(WordsOf(st[i])) : i \in S}
             IN  IF T = S THEN S ELSE f[T]]
  BY <1>2
<1>4. Reach(st, ws) = f[Referred(ws)]
  BY DEF Reach
<1> HIDE DEF f
<1>5. Closes(f, st)
  BY <1>3 DEF Closes, NextOf
<1>6. Referred(ws) \in SUBSET DOMAIN st
  OBVIOUS
<1> QED
  BY <1>4, <1>5, <1>6, ClosesReaches

-----------------------------------------------------------------------------
(* One step of a function.                                                 *)

\* The body is chosen by these three.
LEMMA SameBody ==
  ASSUME NEW f, NEW g, f.fn = g.fn, f.n = g.n, f.t = g.t
  PROVE  Body(f) = Body(g)
BY DEF Body

\* What has been passed and what is still ahead, one step later.
LEMMA Passing ==
  ASSUME NEW B, Len(B) \in Nat, NEW k \in 1..Len(B), NEW j, j = k + 1, NEW o
  PROVE  /\ Before(B, j, o) <=> (Before(B, k, o) \/ B[k].op = o)
         /\ From(B, k, o) <=> (From(B, j, o) \/ B[k].op = o)
<1>1. \A i : i \in 1..j - 1 <=> (i \in 1..k - 1 \/ i = k)
  OBVIOUS
<1>2. \A i : i \in k..Len(B) <=> (i \in j..Len(B) \/ i = k)
  OBVIOUS
<1> QED
  BY <1>1, <1>2 DEF Before, From

\* Inside a bracket.
Inside(B, k, x, y) == Before(B, k, x) /\ From(B, k, y)

\* A bracket is entered by its first step and left by its second.
LEMMA BracketStep ==
  ASSUME NEW B, Len(B) \in Nat, NEW k \in 1..Len(B), NEW j, j = k + 1, NEW x, NEW y, x # y, Bracket(B, x, y)
  PROVE  /\ B[k].op = x => ~Inside(B, k, x, y) /\ Inside(B, j, x, y)
         /\ B[k].op = y => Inside(B, k, x, y) /\ ~Inside(B, j, x, y)
         /\ B[k].op \notin {x, y} => (Inside(B, k, x, y) <=> Inside(B, j, x, y))
<1>1. CASE \A i \in 1..Len(B) : B[i].op # x /\ B[i].op # y
  <2>1. B[k].op # x /\ B[k].op # y
    BY <1>1
  <2>2. ~From(B, k, y) /\ ~From(B, j, y)
    BY <1>1 DEF From
  <2> QED
    BY <2>1, <2>2 DEF Inside
<1>2. ASSUME NEW p \in 1..Len(B), NEW q \in 1..Len(B), p < q,
             \A i \in 1..Len(B) : (B[i].op = x <=> i = p) /\ (B[i].op = y <=> i = q)
      PROVE  /\ B[k].op = x => ~Inside(B, k, x, y) /\ Inside(B, j, x, y)
             /\ B[k].op = y => Inside(B, k, x, y) /\ ~Inside(B, j, x, y)
             /\ B[k].op \notin {x, y} => (Inside(B, k, x, y) <=> Inside(B, j, x, y))
  <2>1. (B[k].op = x <=> k = p) /\ (B[k].op = y <=> k = q)
    BY <1>2
  <2>2. Before(B, k, x) <=> p < k
    BY <1>2 DEF Before
  <2>3. Before(B, j, x) <=> p < j
    BY <1>2 DEF Before
  <2>4. From(B, k, y) <=> k <= q
    BY <1>2 DEF From
  <2>5. From(B, j, y) <=> j <= q
    BY <1>2 DEF From
  <2> QED
    BY <1>2, <2>1, <2>2, <2>3, <2>4, <2>5 DEF Inside
<1> QED
  BY <1>1, <1>2 DEF Bracket

\* At the return no bracket is open, at the first step none is.
LEMMA BracketEnds ==
  ASSUME NEW B, Ends(B), NEW x, NEW y, y # "return"
  PROVE  /\ \A k \in 1..Len(B) : B[k].op = "return" => ~Inside(B, k, x, y)
         /\ ~Inside(B, 1, x, y)
<1>1. ASSUME NEW k \in 1..Len(B), B[k].op = "return"
      PROVE  ~Inside(B, k, x, y)
  <2>1. k = Len(B)
    BY <1>1 DEF Ends
  <2>2. ~From(B, k, y)
    BY <1>1, <2>1 DEF From, Ends
  <2> QED
    BY <2>2 DEF Inside
<1>2. ~Inside(B, 1, x, y)
  BY DEF Inside, Before
<1> QED
  BY <1>1, <1>2

\* What a frame has passed, in these terms.
LEMMA FrameTerms ==
  ASSUME NEW f
  PROVE  /\ \A o : Earlier(f, o) <=> Before(Body(f), f.pc, o)
         /\ \A o : Later(f, o) <=> From(Body(f), f.pc, o)
         /\ \A o, p : Between(f, o, p) <=> Inside(Body(f), f.pc, o, p)
         /\ Resets(f) <=> f.flag /\ Later(f, "POST_GC")
BY DEF Earlier, Later, Between, Before, From, Inside, Resets

\* The same activation of a function, possibly at another step.
SameCall(f, g) ==
  /\ g.fn = f.fn /\ g.args = f.args /\ g.n = f.n /\ g.t = f.t
  /\ DOMAIN g.mem = DOMAIN f.mem
  /\ g = [fn |-> g.fn, pc |-> g.pc, args |-> g.args, mem |-> g.mem, obj |-> g.obj,
          addr |-> g.addr, n |-> g.n, t |-> g.t, flag |-> g.flag]

AtStep(f) == Known(f) /\ f.pc \in 1..Len(Body(f)) /\ InOrder(Body(f), f.fn)
OpOf(f)   == Body(f)[f.pc].op

\* The next step of a frame.
LEMMA FrameStep ==
  ASSUME NEW f, NEW g, AtStep(f), SameCall(f, g), g.pc = f.pc + 1, OpOf(f) # "return"
  PROVE  /\ AtStep(g) /\ Body(g) = Body(f)
         /\ \A o : Earlier(g, o) <=> (Earlier(f, o) \/ OpOf(f) = o)
         /\ \A o : Later(f, o) <=> (Later(g, o) \/ OpOf(f) = o)
         /\ OpOf(f) = "PRE_GC" => ~Between(f, "PRE_GC", "POST_GC") /\ Between(g, "PRE_GC", "POST_GC")
         /\ OpOf(f) = "POST_GC" => Between(f, "PRE_GC", "POST_GC") /\ ~Between(g, "PRE_GC", "POST_GC")
         /\ OpOf(f) = "push" => ~Between(f, "push", "pop") /\ Between(g, "push", "pop")
         /\ OpOf(f) = "pop" => Between(f, "push", "pop") /\ ~Between(g, "push", "pop")
         /\ OpOf(f) = "print" => ~Between(f, "print", "delete") /\ Between(g, "print", "delete")
         /\ OpOf(f) = "delete" => Between(f, "print", "delete") /\ ~Between(g, "print", "delete")
         /\ OpOf(f) \notin {"PRE_GC", "POST_GC"} => (Between(f, "PRE_GC", "POST_GC") <=> Between(g, "PRE_GC", "POST_GC"))
         /\ OpOf(f) \notin {"push", "pop"} => (Between(f, "push", "pop") <=> Between(g, "push", "pop"))
         /\ OpOf(f) \notin {"print", "delete"} => (Between(f, "print", "delete") <=> Between(g, "print", "delete"))
<1> DEFINE B == Body(f)
<1>1. B = Body(g)
  BY SameBody DEF SameCall
<1>2. Ends(B) /\ Bracket(B, "PRE_GC", "POST_GC") /\ Bracket(B, "push", "pop") /\ Bracket(B, "print", "delete")
  BY DEF AtStep, InOrder, Brackets
<1>3. Len(B) \in Nat /\ f.pc \in 1..Len(B)
  BY <1>2 DEF AtStep, Ends
<1>4. g.pc \in 1..Len(B)
  <2>1. f.pc # Len(B)
    BY <1>2, <1>3 DEF Ends, OpOf
  <2> QED
    BY <1>3, <2>1
<1>5. AtStep(g)
  BY <1>1, <1>4 DEF AtStep, SameCall, Known
<1>6. PICK k \in 1..Len(B), j \in Nat : k = f.pc /\ j = g.pc /\ j = k + 1 /\ B[k].op = OpOf(f)
  BY <1>3 DEF OpOf
<1> HIDE DEF B
<1>7. \A o : /\ Before(B, j, o) <=> (Before(B, k, o) \/ B[k].op = o)
             /\ From(B, k, o) <=> (From(B, j, o) \/ B[k].op = o)
  BY <1>3, <1>6, Passing
<1>8. \A o : /\ Earlier(g, o) <=> (Earlier(f, o) \/ OpOf(f) = o)
             /\ Later(f, o) <=> (Later(g, o) \/ OpOf(f) = o)
  BY <1>1, <1>6, <1>7, FrameTerms DEF B
<1>9. \A x, y : /\ Between(f, x, y) <=> Inside(B, k, x, y)
                /\ Between(g, x, y) <=> Inside(B, j, x, y)
  BY <1>1, <1>6, FrameTerms DEF B
<1>10. /\ OpOf(f) = "PRE_GC" => ~Between(f, "PRE_GC", "POST_GC") /\ Between(g, "PRE_GC", "POST_GC")
       /\ OpOf(f) = "POST_GC" => Between(f, "PRE_GC", "POST_GC") /\ ~Between(g, "PRE_GC", "POST_GC")
       /\ OpOf(f) \notin {"PRE_GC", "POST_GC"} => (Between(f, "PRE_GC", "POST_GC") <=> Between(g, "PRE_GC", "POST_GC"))
  BY <1>2, <1>3, <1>6, <1>9, BracketStep
<1>11. /\ OpOf(f) = "push" => ~Between(f, "push", "pop") /\ Between(g, "push", "pop")
       /\ OpOf(f) = "pop" => Between(f, "push", "pop") /\ ~Between(g, "push", "pop")
       /\ OpOf(f) \notin {"push", "pop"} => (Between(f, "push", "pop") <=> Between(g, "push", "pop"))
  BY <1>2, <1>3, <1>6, <1>9, BracketStep
<1>12. /\ OpOf(f) = "print" => ~Between(f, "print", "delete") /\ Between(g, "print", "delete")
       /\ OpOf(f) = "delete" => Between(f, "print", "delete") /\ ~Between(g, "print", "delete")
       /\ OpOf(f) \notin {"print", "delete"} => (Between(f, "print", "delete") <=> Between(g, "print", "delete"))
  BY <1>2, <1>3, <1>6, <1>9, BracketStep
<1>13. Body(g) = Body(f)
  BY <1>1 DEF B
<1> QED
  BY <1>5, <1>8, <1>10, <1>11, <1>12, <1>13

\* Nothing has been passed at the first step.
LEMMA FrameBegins ==
  ASSUME NEW f, AtStep(f), f.pc = 1
  PROVE  /\ \A o : ~Earlier(f, o)
         /\ \A o, p : ~Between(f, o, p)
<1>1. \A o : ~Before(Body(f), f.pc, o)
  BY DEF Before
<1> QED
  BY <1>1, FrameTerms DEF Between

\* Nothing is ahead at the last one, and the functions that others call have made
\* their object.
LEMMA FrameReturns ==
  ASSUME NEW f, AtStep(f), OpOf(f) = "return"
  PROVE  /\ \A o : o # "return" => ~Later(f, o)
         /\ \A o, p : p # "return" => ~Between(f, o, p)
         /\ f.fn \in Callees => Earlier(f, "alloc") \/ Earlier(f, "call")
         /\ f.fn # "set_args" => Earlier(f, "alloc") \/ Earlier(f, "call") \/ Earlier(f, "same")
<1> DEFINE B == Body(f)
<1>1. Ends(B) /\ f.pc \in 1..Len(B) /\ OwnInOrder(B, f.fn)
  BY DEF AtStep, InOrder
<1>2. f.pc = Len(B)
  BY <1>1 DEF OpOf, Ends
<1>3. ASSUME NEW o, o # "return"
      PROVE  ~From(B, f.pc, o)
  BY <1>1, <1>2, <1>3 DEF From, Ends
<1>4. ASSUME NEW o, o # "return", From(B, 1, o)
      PROVE  Before(B, f.pc, o)
  BY <1>1, <1>2, <1>4 DEF From, Before, Ends
<1>5. /\ f.fn \in Callees => Before(B, f.pc, "alloc") \/ Before(B, f.pc, "call")
      /\ f.fn # "set_args" => Before(B, f.pc, "alloc") \/ Before(B, f.pc, "call") \/ Before(B, f.pc, "same")
  BY <1>1, <1>4 DEF OwnInOrder
<1> HIDE DEF B
<1> QED
  BY <1>3, <1>5, FrameTerms DEF B, Between

-----------------------------------------------------------------------------
(* The frames of a state.                                                  *)

\* The part of the invariant that is about each frame, and about all of them.
FramesFit ==
  /\ frames \in Seq(Range(frames)) /\ (depth = 0 => actual = << >>)
  /\ \A d \in DOMAIN frames : FrameInOrder(d) /\ ArgumentsFit(d)

\* Every frame is at a step of its body.
LEMMA FramesAtStep ==
  ASSUME FramesFit
  PROVE  /\ depth \in Nat /\ DOMAIN frames = 1..depth
         /\ \A d \in 1..depth : AtStep(frames[d]) /\ SameCall(frames[d], frames[d])
<1>1. depth \in Nat /\ DOMAIN frames = 1..depth
  BY DEF FramesFit, depth
<1>2. ASSUME NEW d \in 1..depth
      PROVE  AtStep(frames[d]) /\ SameCall(frames[d], frames[d])
  <2>1. FrameInOrder(d) /\ ArgumentsFit(d)
    BY <1>1, <1>2 DEF FramesFit
  <2>2. frames[d].pc \in 1..Len(Body(frames[d])) /\ SameCall(frames[d], frames[d])
    BY <2>1 DEF FrameInOrder, SameCall
  <2>3. Callees \subseteq DOMAIN FixedBodies
    BY FixedNames DEF Callees
  <2>4. Known(frames[d])
    <3>1. frames[d].fn \in Functions \cup Callees \cup {"set_args"}
      BY <2>1 DEF FrameInOrder
    <3>2. frames[d].fn \in {"RVBarray", "RVBsexp", "set_args"} => frames[d].n \in Nat
      BY <2>1 DEF ArgumentsFit
    <3> QED
      BY <2>3, <3>1, <3>2, FunctionsAssumption DEF Known
  <2>5. InOrder(Body(frames[d]), frames[d].fn)
    BY <2>4, BodyInOrder
  <2> QED
    BY <2>2, <2>4, <2>5 DEF AtStep
<1> QED
  BY <1>1, <1>2

\* The running function.
LEMMA Running ==
  ASSUME FramesFit, NEW o, At_op(o)
  PROVE  /\ status = "running" /\ depth \in Nat \ {0} /\ depth \in 1..depth /\ depth \in DOMAIN frames
         /\ cur = frames[depth] /\ OpOf(cur) = o /\ AtStep(cur) /\ SameCall(cur, cur)
<1>1. status = "running" /\ depth > 0 /\ OpOf(cur) = o
  BY DEF At_op, OpOf
<1>2. depth \in Nat /\ DOMAIN frames = 1..depth
  BY FramesAtStep
<1>3. depth \in 1..depth
  BY <1>1, <1>2
<1>4. cur = frames[depth]
  BY DEF cur
<1>5. AtStep(frames[depth]) /\ SameCall(frames[depth], frames[depth])
  BY <1>3, FramesAtStep
<1> QED
  BY <1>1, <1>2, <1>3, <1>4, <1>5

\* One step of the running function, which calls and returns nothing.
Forward(o) ==
  /\ At_op(o)
  /\ depth' = depth /\ DOMAIN frames' = DOMAIN frames /\ frames' \in Seq(Range(frames'))
  /\ \A d \in 1..depth : SameCall(frames[d], frames'[d])
  /\ \A d \in 1..depth : frames'[d].pc = IF d = depth THEN frames[d].pc + 1 ELSE frames[d].pc

\* The steps that change nothing but the running function's own record.
LEMMA SetCurForward ==
  ASSUME FramesFit, NEW o, At_op(o), NEW g, SetCur(g), SameCall(cur, g), g.pc = cur.pc + 1
  PROVE  Forward(o) /\ cur' = g /\ \A d \in 1..depth : d # depth => frames'[d] = frames[d]
<1>1. depth \in 1..depth /\ depth \in DOMAIN frames /\ cur = frames[depth]
  BY Running
<1>2. DOMAIN frames = 1..depth /\ \A d \in 1..depth : SameCall(frames[d], frames[d])
  BY FramesAtStep
<1>3. frames' = [frames EXCEPT ![depth] = g]
  BY DEF SetCur
<1>4. frames \in Seq(Range(frames))
  BY DEF FramesFit
<1>5. DOMAIN frames' = DOMAIN frames /\ frames'[depth] = g /\ \A d \in 1..depth : d # depth => frames'[d] = frames[d]
  BY <1>1, <1>2, <1>3
<1>6. PICK n \in Nat : n = depth /\ DOMAIN frames = 1..n
  BY <1>2, <1>1, FramesAtStep
<1>7. frames' \in Seq(Range(frames')) /\ Len(frames') = n
  <2>1. DOMAIN frames' = 1..n /\ frames' = [i \in 1..n |-> frames'[i]]
    BY <1>3, <1>5, <1>6
  <2>2. \A i \in 1..n : frames'[i] \in Range(frames')
    BY <2>1 DEF Range
  <2> QED
    BY <2>1, <2>2
<1>8. depth' = depth
  BY <1>6, <1>7 DEF depth
<1>9. cur' = g
  BY <1>5, <1>8 DEF cur
<1>10. \A d \in 1..depth : SameCall(frames[d], frames'[d])
  BY <1>1, <1>2, <1>5
<1>11. \A d \in 1..depth : frames'[d].pc = IF d = depth THEN frames[d].pc + 1 ELSE frames[d].pc
  BY <1>1, <1>5
<1> QED
  BY <1>5, <1>7, <1>8, <1>9, <1>10, <1>11 DEF Forward

\* The frames below the running function stay where they are, it is one step on.
LEMMA ForwardFrames ==
  ASSUME FramesFit, NEW o, Forward(o), o # "return"
  PROVE  /\ depth \in Nat \ {0} /\ depth \in 1..depth
         /\ DOMAIN frames = 1..depth /\ DOMAIN frames' = 1..depth /\ OpOf(frames[depth]) = o
         /\ \A d \in 1..depth : AtStep(frames'[d]) /\ Body(frames'[d]) = Body(frames[d])
         /\ \A d \in 1..depth : d # depth =>
              /\ \A x : Earlier(frames'[d], x) <=> Earlier(frames[d], x)
              /\ \A x : Later(frames'[d], x) <=> Later(frames[d], x)
              /\ \A x, y : Between(frames'[d], x, y) <=> Between(frames[d], x, y)
<1>1. depth \in Nat \ {0} /\ depth \in 1..depth /\ cur = frames[depth] /\ OpOf(cur) = o
  BY Running DEF Forward
<1>2. DOMAIN frames = 1..depth /\ \A d \in 1..depth : AtStep(frames[d])
  BY FramesAtStep
<1>3. DOMAIN frames' = 1..depth
  BY <1>2 DEF Forward
<1>4. \A d \in 1..depth : Body(frames'[d]) = Body(frames[d])
  BY SameBody DEF Forward, SameCall
<1>5. \A d \in 1..depth : d # depth => frames'[d].pc = frames[d].pc
  BY DEF Forward
<1>6. AtStep(frames'[depth])
  <2>1. SameCall(frames[depth], frames'[depth]) /\ frames'[depth].pc = frames[depth].pc + 1
    BY <1>1 DEF Forward
  <2> QED
    BY <1>1, <1>2, <2>1, FrameStep
<1>7. ASSUME NEW d \in 1..depth, d # depth
      PROVE  /\ AtStep(frames'[d])
             /\ \A x : Earlier(frames'[d], x) <=> Earlier(frames[d], x)
             /\ \A x : Later(frames'[d], x) <=> Later(frames[d], x)
             /\ \A x, y : Between(frames'[d], x, y) <=> Between(frames[d], x, y)
  <2>1. SameCall(frames[d], frames'[d]) /\ frames'[d].pc = frames[d].pc /\ AtStep(frames[d])
    BY <1>2, <1>5, <1>7 DEF Forward
  <2>2. PICK f, g : f = frames[d] /\ g = frames'[d]
    OBVIOUS
  <2>3. Body(g) = Body(f) /\ g.pc = f.pc /\ g.fn = f.fn /\ g.n = f.n
    BY <1>4, <2>1, <2>2 DEF SameCall
  <2>4. AtStep(g)
    BY <2>1, <2>2, <2>3 DEF AtStep, Known
  <2>5. /\ \A x : Earlier(g, x) <=> Earlier(f, x)
        /\ \A x : Later(g, x) <=> Later(f, x)
        /\ \A x, y : Between(g, x, y) <=> Between(f, x, y)
    BY <2>3, FrameTerms
  <2> QED
    BY <2>2, <2>4, <2>5
<1> QED
  BY <1>1, <1>2, <1>3, <1>4, <1>6, <1>7

\* What the running function has passed after the step.
LEMMA ForwardStep ==
  ASSUME FramesFit, NEW o, Forward(o), o # "return"
  PROVE  LET f == frames[depth]
             g == frames'[depth]
         IN  /\ \A x : Earlier(g, x) <=> (Earlier(f, x) \/ x = o)
             /\ \A x : Later(f, x) <=> (Later(g, x) \/ x = o)
             /\ o = "PRE_GC" => ~Between(f, "PRE_GC", "POST_GC") /\ Between(g, "PRE_GC", "POST_GC")
             /\ o = "POST_GC" => Between(f, "PRE_GC", "POST_GC") /\ ~Between(g, "PRE_GC", "POST_GC")
             /\ o = "push" => ~Between(f, "push", "pop") /\ Between(g, "push", "pop")
             /\ o = "pop" => Between(f, "push", "pop") /\ ~Between(g, "push", "pop")
             /\ o = "print" => ~Between(f, "print", "delete") /\ Between(g, "print", "delete")
             /\ o = "delete" => Between(f, "print", "delete") /\ ~Between(g, "print", "delete")
             /\ o \notin {"PRE_GC", "POST_GC"} =>
                  (Between(f, "PRE_GC", "POST_GC") <=> Between(g, "PRE_GC", "POST_GC"))
             /\ o \notin {"push", "pop"} => (Between(f, "push", "pop") <=> Between(g, "push", "pop"))
             /\ o \notin {"print", "delete"} => (Between(f, "print", "delete") <=> Between(g, "print", "delete"))
<1>1. depth \in 1..depth /\ OpOf(frames[depth]) = o
  BY ForwardFrames
<1>2. AtStep(frames[depth])
  BY <1>1, FramesAtStep
<1>3. SameCall(frames[depth], frames'[depth]) /\ frames'[depth].pc = frames[depth].pc + 1
  BY <1>1 DEF Forward
<1>4. PICK f, g : f = frames[depth] /\ g = frames'[depth]
  OBVIOUS
<1>5. /\ AtStep(f) /\ SameCall(f, g) /\ g.pc = f.pc + 1 /\ OpOf(f) # "return" /\ OpOf(f) = o
  BY <1>1, <1>2, <1>3, <1>4
<1> QED
  BY <1>4, <1>5, FrameStep

\* The buffer is in use between print and delete.
LEMMA BufferKept ==
  ASSUME FramesFit, BufferInUse, NEW o, Forward(o), o \notin {"return", "print", "delete"}, buf' = buf
  PROVE  BufferInUse'
<1>1. DOMAIN frames = 1..depth /\ DOMAIN frames' = 1..depth
  BY ForwardFrames
<1>2. \A d \in 1..depth : Between(frames[d], "print", "delete") => Between(frames'[d], "print", "delete")
  BY ForwardFrames, ForwardStep
<1> QED
  BY <1>1, <1>2 DEF BufferInUse, NoBuf

\* __gc_stack_top stays the outermost frame inside its PRE_GC and POST_GC.
LEMMA TopKept ==
  ASSUME FramesFit, TopIsOutermost, NEW o, Forward(o), o \notin {"return", "PRE_GC", "POST_GC"},
         top' = top, \A d \in 1..depth : frames'[d].flag = frames[d].flag
  PROVE  TopIsOutermost'
<1>1. DOMAIN frames = 1..depth /\ DOMAIN frames' = 1..depth
  BY ForwardFrames
<1>2. \A d \in 1..depth : /\ Later(frames'[d], "POST_GC") <=> Later(frames[d], "POST_GC")
                          /\ Earlier(frames'[d], "PRE_GC") <=> Earlier(frames[d], "PRE_GC")
                          /\ Between(frames'[d], "PRE_GC", "POST_GC") <=> Between(frames[d], "PRE_GC", "POST_GC")
  BY ForwardFrames, ForwardStep
<1>3. \A d \in 1..depth : Resets(frames'[d]) <=> Resets(frames[d])
  BY <1>2, FrameTerms
<1>4. {d \in DOMAIN frames : Resets(frames[d])} = {d \in DOMAIN frames' : Resets(frames'[d])}
  BY <1>1, <1>3
<1>5. {d \in DOMAIN frames' : Resets(frames'[d])} = {top'} \ {0}
  BY <1>4 DEF TopIsOutermost
<1>6. \A d \in 1..depth :
        /\ Between(frames'[d], "PRE_GC", "POST_GC") => top' # 0 /\ top' <= d
        /\ ~Earlier(frames'[d], "PRE_GC") => ~frames'[d].flag
  BY <1>1, <1>2 DEF TopIsOutermost
<1> QED
  BY <1>1, <1>5, <1>6 DEF TopIsOutermost

\* The registered cells of the frames, and the pool when none is added or removed.
LEMMA PoolKept ==
  ASSUME FramesFit, PoolIsStack, NEW o, Forward(o), o \notin {"return", "push", "pop"},
         pool' = pool, Published' = Published
  PROVE  PoolIsStack'
<1>1. DOMAIN frames = 1..depth /\ DOMAIN frames' = 1..depth
  BY ForwardFrames
<1>2. \A d \in 1..depth : Between(frames'[d], "push", "pop") <=> Between(frames[d], "push", "pop")
  BY ForwardFrames, ForwardStep
<1>3. \A d \in 1..depth : Registers(d)' = Registers(d)
  BY DEF Registers, Forward, SameCall
<1>4. \A d \in 1..depth : HeldCells(d)' = HeldCells(d)
  BY <1>2, <1>3 DEF HeldCells
<1>5. [d \in DOMAIN frames |-> HeldCells(d)] = [d \in DOMAIN frames' |-> HeldCells(d)']
  BY <1>1, <1>4
<1>6. [d \in DOMAIN frames |-> HeldCells(d)]' = [d \in DOMAIN frames |-> HeldCells(d)]
  BY <1>5
<1> QED
  BY <1>6 DEF PoolIsStack

\* PRE_GC sets __gc_stack_top if it is the first, and only then the flag.
LEMMA TopSet ==
  ASSUME FramesFit, TopIsOutermost, NEW o, o = "PRE_GC", Forward(o),
         top' = (IF top = 0 THEN depth ELSE top),
         \A d \in 1..depth : frames'[d].flag = IF d = depth THEN top = 0 ELSE frames[d].flag
  PROVE  TopIsOutermost'
<1>1. /\ depth \in Nat \ {0} /\ depth \in 1..depth
      /\ DOMAIN frames = 1..depth /\ DOMAIN frames' = 1..depth
  BY ForwardFrames
<1>2. \A d \in 1..depth : d # depth =>
        /\ Later(frames'[d], "POST_GC") <=> Later(frames[d], "POST_GC")
        /\ Earlier(frames'[d], "PRE_GC") <=> Earlier(frames[d], "PRE_GC")
        /\ Between(frames'[d], "PRE_GC", "POST_GC") <=> Between(frames[d], "PRE_GC", "POST_GC")
  BY ForwardFrames
<1>3. /\ ~Between(frames[depth], "PRE_GC", "POST_GC") /\ Between(frames'[depth], "PRE_GC", "POST_GC")
      /\ Earlier(frames'[depth], "PRE_GC")
      /\ Later(frames[depth], "POST_GC") <=> Later(frames'[depth], "POST_GC")
  BY ForwardStep
<1>4. Later(frames'[depth], "POST_GC") /\ ~Earlier(frames[depth], "PRE_GC")
  BY <1>3 DEF Between
<1>5. /\ {d \in 1..depth : Resets(frames[d])} = {top} \ {0}
      /\ \A d \in 1..depth :
           /\ Between(frames[d], "PRE_GC", "POST_GC") => top # 0 /\ top <= d
           /\ ~Earlier(frames[d], "PRE_GC") => ~frames[d].flag
  BY <1>1 DEF TopIsOutermost
<1>6. ~frames[depth].flag /\ ~Resets(frames[depth])
  BY <1>1, <1>4, <1>5, FrameTerms
<1>7. \A d \in 1..depth : d # depth => (Resets(frames'[d]) <=> Resets(frames[d]))
  BY <1>2, FrameTerms
<1>8. Resets(frames'[depth]) <=> top = 0
  BY <1>1, <1>4, FrameTerms
<1>9. {d \in 1..depth : Resets(frames'[d])} = {top'} \ {0}
  BY <1>1, <1>5, <1>6, <1>7, <1>8
<1>10. top = 0 \/ top \in 1..depth
  BY <1>5
<1>11. \A d \in 1..depth : Between(frames'[d], "PRE_GC", "POST_GC") => top' # 0 /\ top' <= d
  BY <1>1, <1>2, <1>5, <1>10
<1>12. \A d \in 1..depth : ~Earlier(frames'[d], "PRE_GC") => ~frames'[d].flag
  BY <1>1, <1>2, <1>3, <1>5
<1> QED
  BY <1>1, <1>9, <1>11, <1>12 DEF TopIsOutermost

\* POST_GC resets it if the flag is set.
LEMMA TopReset ==
  ASSUME FramesFit, TopIsOutermost, NEW o, o = "POST_GC", Forward(o),
         top' = (IF frames[depth].flag THEN 0 ELSE top),
         \A d \in 1..depth : frames'[d].flag = frames[d].flag
  PROVE  TopIsOutermost'
<1>1. /\ depth \in Nat \ {0} /\ depth \in 1..depth
      /\ DOMAIN frames = 1..depth /\ DOMAIN frames' = 1..depth
  BY ForwardFrames
<1>2. \A d \in 1..depth : d # depth =>
        /\ Later(frames'[d], "POST_GC") <=> Later(frames[d], "POST_GC")
        /\ Earlier(frames'[d], "PRE_GC") <=> Earlier(frames[d], "PRE_GC")
        /\ Between(frames'[d], "PRE_GC", "POST_GC") <=> Between(frames[d], "PRE_GC", "POST_GC")
  BY ForwardFrames
<1>3. /\ Between(frames[depth], "PRE_GC", "POST_GC") /\ ~Between(frames'[depth], "PRE_GC", "POST_GC")
      /\ Earlier(frames'[depth], "PRE_GC") <=> Earlier(frames[depth], "PRE_GC")
      /\ Later(frames[depth], "POST_GC")
  BY ForwardStep
<1>4. ~Later(frames'[depth], "POST_GC") /\ Earlier(frames[depth], "PRE_GC")
  BY <1>3 DEF Between
<1>5. /\ {d \in 1..depth : Resets(frames[d])} = {top} \ {0}
      /\ \A d \in 1..depth :
           /\ Between(frames[d], "PRE_GC", "POST_GC") => top # 0 /\ top <= d
           /\ ~Earlier(frames[d], "PRE_GC") => ~frames[d].flag
  BY <1>1 DEF TopIsOutermost
<1>6. Resets(frames[depth]) <=> frames[depth].flag
  BY <1>3, FrameTerms
<1>7. \A d \in 1..depth : d # depth => (Resets(frames'[d]) <=> Resets(frames[d]))
  BY <1>2, FrameTerms
<1>8. ~Resets(frames'[depth])
  BY <1>4, FrameTerms
<1>9. top \in 1..depth /\ (frames[depth].flag <=> top = depth)
  BY <1>1, <1>3, <1>5, <1>6
<1>10. {d \in 1..depth : Resets(frames'[d])} = {top'} \ {0}
  BY <1>1, <1>5, <1>7, <1>8, <1>9
<1>11. \A d \in 1..depth : Between(frames'[d], "PRE_GC", "POST_GC") => top' # 0 /\ top' <= d
  <2> SUFFICES ASSUME NEW d \in 1..depth, Between(frames'[d], "PRE_GC", "POST_GC")
               PROVE  top' # 0 /\ top' <= d
    OBVIOUS
  <2>1. d # depth /\ top # 0 /\ top <= d
    BY <1>2, <1>3, <1>5
  <2>2. top # depth
    BY <1>1, <2>1
  <2> QED
    BY <1>9, <2>1, <2>2
<1>12. \A d \in 1..depth : ~Earlier(frames'[d], "PRE_GC") => ~frames'[d].flag
  BY <1>1, <1>2, <1>3, <1>5
<1> QED
  BY <1>1, <1>10, <1>11, <1>12 DEF TopIsOutermost

\* print fills the buffer, delete empties it.
LEMMA BufferChanged ==
  ASSUME FramesFit, BufferInUse, NEW o, Forward(o),
         o = "print" \/ (o = "delete" /\ buf' = NoBuf)
  PROVE  BufferInUse'
<1>1. depth \in 1..depth /\ DOMAIN frames' = 1..depth
  BY ForwardFrames
<1>2. CASE o = "print"
  <2>1. Between(frames'[depth], "print", "delete")
    BY <1>2, ForwardStep
  <2> QED
    BY <1>1, <2>1 DEF BufferInUse
<1>3. CASE o = "delete" /\ buf' = NoBuf
  BY <1>3 DEF BufferInUse, NoBuf
<1> QED
  BY <1>2, <1>3

\* Cells that functions register.
Registered == Reachable(depth) \cup {SysargsCell}

\* What the frames register are such cells.
LEMMA HeldAre ==
  ASSUME FramesFit
  PROVE  \A d \in 1..depth : Registers(d) \in Seq(Registered) /\ HeldCells(d) \in Seq(Registered)
<1> SUFFICES ASSUME NEW d \in 1..depth
             PROVE  Registers(d) \in Seq(Registered) /\ HeldCells(d) \in Seq(Registered)
  OBVIOUS
<1>1. depth \in Nat /\ DOMAIN frames = 1..depth
  BY FramesAtStep
<1>2. d \in Nat /\ d <= depth /\ FrameInOrder(d) /\ ArgumentsFit(d)
  BY <1>1 DEF FramesFit
<1>3. Reachable(d) \subseteq Registered
  <2>1. 1..d \subseteq 1..depth
    BY <1>1, <1>2
  <2> QED
    BY <2>1 DEF Reachable, Registered
<1>4. frames[d].args \in Seq(Reachable(d))
  BY <1>2 DEF FrameInOrder
<1>5. frames[d].args \in Seq(Registered)
  <2>1. PICK a : a = frames[d].args
    OBVIOUS
  <2>2. a \in Seq(Reachable(d))
    BY <1>4, <2>1
  <2>3. a \in Seq(Registered)
    BY <1>3, <2>2
  <2> QED
    BY <2>1, <2>3
<1>6. CASE frames[d].fn = "set_args"
  <2>1. 1 \in DOMAIN frames[d].mem
    BY <1>2, <1>6 DEF ArgumentsFit
  <2>2. <<d, 1>> \in Reachable(d)
    <3>1. d \in 1..d
      BY <1>2
    <3> QED
      BY <2>1, <3>1 DEF Reachable
  <2>3. Registers(d) = <<<<d, 1>>>>
    BY <1>6 DEF Registers
  <2> QED
    BY <1>3, <2>2, <2>3 DEF HeldCells
<1>7. CASE frames[d].fn = "Lsubstring"
  <2>1. Len(frames[d].args) >= 1
    BY <1>2, <1>7 DEF ArgumentsFit
  <2>2. frames[d].args[1] \in Registered
    BY <1>5, <2>1
  <2>3. Registers(d) = <<frames[d].args[1]>>
    BY <1>7 DEF Registers
  <2> QED
    BY <2>2, <2>3 DEF HeldCells
<1>8. CASE frames[d].fn \notin {"set_args", "Lsubstring"}
  <2>1. Registers(d) = frames[d].args
    BY <1>8 DEF Registers
  <2> QED
    BY <1>5, <2>1 DEF HeldCells
<1> QED
  BY <1>6, <1>7, <1>8

\* The pool ends with what the running function has registered.
LEMMA PoolForward ==
  ASSUME FramesFit, PoolIsStack, NEW o, Forward(o), o # "return", Published' = Published
  PROVE  \E r : /\ r \in Seq(Registered) /\ pool = Joint(r, HeldCells(depth))
                /\ pool' = Joint(r, HeldCells(depth)') => PoolIsStack'
<1>1. /\ depth \in Nat \ {0} /\ depth \in 1..depth
      /\ DOMAIN frames = 1..depth /\ DOMAIN frames' = 1..depth
  BY ForwardFrames
<1>2. \A d \in 1..depth : Registers(d)' = Registers(d)
  BY DEF Registers, Forward, SameCall
<1>3. \A d \in 1..depth : d # depth => HeldCells(d)' = HeldCells(d)
  BY <1>2, ForwardFrames DEF HeldCells
<1>4. PICK S : S = Registered
  OBVIOUS
<1>5. \A d \in 1..depth : HeldCells(d) \in Seq(S) /\ HeldCells(d)' \in Seq(S)
  <2>1. \A d \in 1..depth : HeldCells(d)' \in {Registers(d), << >>}
    BY <1>2 DEF HeldCells
  <2>2. \A d \in 1..depth : Registers(d) \in Seq(S) /\ HeldCells(d) \in Seq(S)
    BY <1>4, HeldAre
  <2>3. << >> \in Seq(S)
    OBVIOUS
  <2> QED
    BY <2>1, <2>2, <2>3, Zenon
<1>6. PICK H, G : /\ H = [d \in DOMAIN frames |-> HeldCells(d)]
                  /\ G = [d \in DOMAIN frames' |-> HeldCells(d)']
  OBVIOUS
<1>7. PICK n \in Nat : n = depth /\ n > 0
  BY <1>1
<1>8. /\ H \in Seq(Seq(S)) /\ G \in Seq(Seq(S)) /\ Len(H) = n /\ Len(G) = n
      /\ H[n] = HeldCells(depth) /\ G[n] = HeldCells(depth)'
      /\ \A d \in 1..n : d # n => G[d] = H[d]
  <2>1. H = [d \in 1..n |-> HeldCells(d)] /\ G = [d \in 1..n |-> HeldCells(d)']
    BY <1>1, <1>6, <1>7
  <2>2. \A d \in 1..n : HeldCells(d) \in Seq(S) /\ HeldCells(d)' \in Seq(S)
    BY <1>5, <1>7
  <2>3. H \in Seq(Seq(S)) /\ Len(H) = n
    <3> HIDE <1>6
    <3> QED
      BY <2>1, <2>2
  <2>4. G \in Seq(Seq(S)) /\ Len(G) = n
    <3> HIDE <1>6
    <3> QED
      BY <2>1, <2>2
  <2>5. n \in 1..n
    BY <1>7
  <2>6. H[n] = HeldCells(n) /\ G[n] = HeldCells(n)'
    BY <2>1, <2>5
  <2>7. HeldCells(n) = HeldCells(depth) /\ HeldCells(n)' = HeldCells(depth)'
    BY <1>7, <1>1 DEF Forward
  <2>8. \A d \in 1..n : d # n => G[d] = H[d]
    BY <1>3, <1>7, <2>1
  <2> QED
    BY <2>3, <2>4, <2>6, <2>7, <2>8
<1>9. Parts(H, S) /\ Parts(G, S) /\ n = Len(H) /\ n = Len(G)
  BY <1>8 DEF Parts
<1>10. PICK K : K = SubSeq(H, 1, n - 1)
  OBVIOUS
<1>11. SubSeq(G, 1, n - 1) = K
  <2>1. SubSeq(H, 1, n - 1) = [i \in 1..n - 1 |-> H[i]] /\ SubSeq(G, 1, n - 1) = [i \in 1..n - 1 |-> G[i]]
    BY <1>7, <1>8
  <2>2. \A i \in 1..n - 1 : H[i] = G[i]
    BY <1>7, <1>8
  <2> QED
    BY <1>10, <2>1, <2>2
<1>12. /\ FlattenSeq(H) = Joint(FlattenSeq(SubSeq(H, 1, n - 1)), H[n]) /\ Parts(SubSeq(H, 1, n - 1), S)
       /\ FlattenSeq(G) = Joint(FlattenSeq(SubSeq(G, 1, n - 1)), G[n])
  BY <1>7, <1>9, FlattenLast
<1>13. FlattenSeq(H) = Joint(FlattenSeq(K), H[n]) /\ Parts(K, S) /\ FlattenSeq(G) = Joint(FlattenSeq(K), G[n])
  BY <1>10, <1>11, <1>12
<1>14. FlattenSeq(K) \in Seq(S)
  BY <1>13, FlattenElements DEF Parts
<1>15. Published \in Seq(S)
  <2>1. SysargsCell \in S
    BY <1>4 DEF Registered
  <2>2. << >> \in Seq(S) /\ <<SysargsCell>> \in Seq(S)
    BY <2>1
  <2> QED
    BY <2>2 DEF Published
<1>16. PICK p, q, x, y : p = Published /\ q = FlattenSeq(K) /\ x = H[n] /\ y = G[n]
  OBVIOUS
<1>17. p \in Seq(S) /\ q \in Seq(S) /\ x \in Seq(S) /\ y \in Seq(S)
  BY <1>7, <1>8, <1>14, <1>15, <1>16
<1>18. p \o (q \o x) = (p \o q) \o x /\ p \o (q \o y) = (p \o q) \o y /\ p \o q \in Seq(S)
  <2>1. p \o q \in Seq(S)
    BY <1>17
  <2>2. (p \o q) \o x = p \o (q \o x)
    <3>1. Joint(Joint(p, q), x) = Joint(p, Joint(q, x))
      BY <1>17, JointAssociative
    <3> QED
      BY <3>1 DEF Joint
  <2>3. (p \o q) \o y = p \o (q \o y)
    <3>1. Joint(Joint(p, q), y) = Joint(p, Joint(q, y))
      BY <1>17, JointAssociative
    <3> QED
      BY <3>1 DEF Joint
  <2> QED
    BY <2>1, <2>2, <2>3
<1>19. pool = p \o (q \o x)
  BY <1>6, <1>13, <1>16 DEF PoolIsStack, Joint
<1>20. pool' = p \o (q \o y) => PoolIsStack'
  <2>1. FlattenSeq(G) = q \o y
    BY <1>13, <1>16 DEF Joint
  <2>2. [d \in DOMAIN frames |-> HeldCells(d)]' = G
    BY <1>6
  <2> QED
    BY <1>16, <2>1, <2>2 DEF PoolIsStack
<1> QED
  BY <1>4, <1>8, <1>16, <1>18, <1>19, <1>20 DEF Joint

\* push_extra_root adds the cells of the running function.
LEMMA PoolPushed ==
  ASSUME FramesFit, PoolIsStack, NEW o, o = "push", Forward(o), Published' = Published,
         pool' = pool \o RootCells
  PROVE  PoolIsStack'
<1>1. depth \in 1..depth /\ o # "return"
  BY ForwardFrames
<1>2. PICK r : /\ r \in Seq(Registered) /\ pool = Joint(r, HeldCells(depth))
               /\ pool' = Joint(r, HeldCells(depth)') => PoolIsStack'
  BY <1>1, PoolForward
<1>3. ~Between(frames[depth], "push", "pop") /\ Between(frames'[depth], "push", "pop")
  BY <1>1, ForwardStep
<1>4. HeldCells(depth) = << >>
  BY <1>3 DEF HeldCells
<1>5. HeldCells(depth)' = Registers(depth)
  <2>1. depth' = depth
    BY DEF Forward
  <2>2. HeldCells(depth)' = Registers(depth)'
    BY <1>3, <2>1 DEF HeldCells
  <2>3. Registers(depth)' = Registers(depth)
    BY <1>1, <2>1 DEF Registers, Forward, SameCall
  <2> QED
    BY <2>2, <2>3
<1>6. pool = r
  BY <1>2, <1>4, ConcatEmptySeq DEF Joint
<1> QED
  BY <1>2, <1>5, <1>6 DEF Joint, RootCells

\* pop_extra_root finds them at the end, and leaves what was there before.
LEMMA PoolPopped ==
  ASSUME FramesFit, PoolIsStack, NEW o, o = "pop", Forward(o), Published' = Published,
         pool' = SubSeq(pool, 1, Len(pool) - Len(Reverse(RootCells)))
  PROVE  PoolIsStack'
<1>1. depth \in 1..depth /\ o # "return"
  BY ForwardFrames
<1>2. PICK r : /\ r \in Seq(Registered) /\ pool = Joint(r, HeldCells(depth))
               /\ pool' = Joint(r, HeldCells(depth)') => PoolIsStack'
  BY <1>1, PoolForward
<1>3. Between(frames[depth], "push", "pop") /\ ~Between(frames'[depth], "push", "pop")
  BY <1>1, ForwardStep
<1>4. HeldCells(depth) = RootCells
  BY <1>3 DEF HeldCells, RootCells
<1>5. HeldCells(depth)' = << >>
  <2>1. depth' = depth
    BY DEF Forward
  <2> QED
    BY <1>3, <2>1 DEF HeldCells
<1>6. PICK x, S : x = RootCells /\ S = Registered
  OBVIOUS
<1>7. x \in Seq(S) /\ r \in Seq(S)
  BY <1>1, <1>2, <1>6, HeldAre DEF RootCells
<1>8. pool = r \o x /\ Len(pool) = Len(r) + Len(x) /\ \A i \in 1..Len(r) : pool[i] = r[i]
  <2>1. pool = r \o x
    BY <1>2, <1>4, <1>6 DEF Joint
  <2>2. Len(r \o x) = Len(r) + Len(x) /\ \A i \in 1..Len(r) : (r \o x)[i] = r[i]
    BY <1>7, Joined
  <2> QED
    BY <2>1, <2>2
<1>9. Len(Reverse(x)) = Len(x)
  BY <1>7 DEF Reverse
<1>10. Len(pool) - Len(Reverse(x)) = Len(r)
  <2>1. Len(r) \in Nat /\ Len(x) \in Nat
    BY <1>7
  <2> QED
    BY <1>8, <1>9, <2>1
<1>11. pool' = SubSeq(pool, 1, Len(r))
  BY <1>6, <1>10
<1>12. SubSeq(pool, 1, Len(r)) = r
  <2>1. SubSeq(pool, 1, Len(r)) = [i \in 1..Len(r) |-> pool[i]]
    <3>1. pool \in Seq(S) /\ Len(r) \in Nat /\ Len(r) <= Len(pool)
      BY <1>7, <1>8
    <3>2. PICK p, n : p = pool /\ n = Len(r)
      OBVIOUS
    <3>3. p \in Seq(S) /\ n \in Nat /\ n <= Len(p)
      BY <3>1, <3>2
    <3>4. SubSeq(p, 1, n) = [i \in 1..n |-> p[i]]
      BY <3>3
    <3> QED
      BY <3>2, <3>4
  <2>2. r = [i \in 1..Len(r) |-> r[i]]
    BY <1>7
  <2> QED
    BY <1>8, <2>1, <2>2
<1>13. pool' = r
  BY <1>11, <1>12
<1>14. r \o << >> = r
  BY <1>7, ConcatEmptySeq
<1> QED
  BY <1>2, <1>5, <1>13, <1>14 DEF Joint

\* So the comparison of pop_extra_root succeeds.
LEMMA PopFinds ==
  ASSUME FramesFit, PoolIsStack, At_op("pop")
  PROVE  LET popped == Reverse(RootCells)
             rest   == Len(pool) - Len(popped)
         IN  rest >= 0 /\ \A k \in DOMAIN popped : pool[Len(pool) - k + 1] = popped[k]
<1>1. depth \in 1..depth /\ OpOf(frames[depth]) = "pop" /\ AtStep(frames[depth]) /\ depth \in Nat \ {0}
  BY Running
<1>2. Between(frames[depth], "push", "pop")
  <2>1. PICK f, B, k, j : f = frames[depth] /\ B = Body(f) /\ k = f.pc /\ j = k + 1
    OBVIOUS
  <2>2. Len(B) \in Nat /\ k \in 1..Len(B) /\ Bracket(B, "push", "pop") /\ B[k].op = "pop"
    BY <1>1, <2>1 DEF AtStep, InOrder, Brackets, Ends, OpOf
  <2>3. Inside(B, k, "push", "pop")
    BY <2>1, <2>2, BracketStep
  <2> QED
    BY <2>1, <2>3, FrameTerms
<1>3. HeldCells(depth) = RootCells
  BY <1>2 DEF HeldCells, RootCells
<1>4. PICK S : S = Registered
  OBVIOUS
<1>5. PICK r : r \in Seq(S) /\ pool = Joint(r, HeldCells(depth))
  <2>1. DOMAIN frames = 1..depth
    BY FramesAtStep
  <2>2. \A d \in 1..depth : HeldCells(d) \in Seq(S)
    BY <1>4, HeldAre
  <2>3. PICK n \in Nat : n = depth /\ n > 0
    BY <1>1
  <2>4. PICK H : H = [d \in DOMAIN frames |-> HeldCells(d)]
    OBVIOUS
  <2>5. H = [d \in 1..n |-> HeldCells(d)]
    BY <2>1, <2>3, <2>4
  <2>6. H \in Seq(Seq(S)) /\ Len(H) = n /\ H[n] = HeldCells(depth)
    <3> HIDE <2>4
    <3> QED
      BY <2>2, <2>3, <2>5
  <2>7. Parts(H, S) /\ n = Len(H)
    BY <2>6 DEF Parts
  <2>8. PICK K : K = SubSeq(H, 1, n - 1)
    OBVIOUS
  <2>9. FlattenSeq(H) = Joint(FlattenSeq(SubSeq(H, 1, n - 1)), H[n]) /\ Parts(SubSeq(H, 1, n - 1), S)
    BY <2>3, <2>7, FlattenLast
  <2>10. FlattenSeq(H) = Joint(FlattenSeq(K), H[n]) /\ FlattenSeq(K) \in Seq(S)
    BY <2>8, <2>9, FlattenElements DEF Parts
  <2>11. Published \in Seq(S)
    <3>1. SysargsCell \in S
      BY <1>4 DEF Registered
    <3>2. << >> \in Seq(S) /\ <<SysargsCell>> \in Seq(S)
      BY <3>1
    <3> QED
      BY <3>2 DEF Published
  <2>12. PICK p, q, x : p = Published /\ q = FlattenSeq(K) /\ x = H[n]
    OBVIOUS
  <2>13. p \in Seq(S) /\ q \in Seq(S) /\ x \in Seq(S)
    BY <2>2, <2>3, <2>6, <2>10, <2>11, <2>12, <1>1
  <2>14. p \o (q \o x) = (p \o q) \o x
    BY <2>13, JointAssociative DEF Joint
  <2>15. p \o q \in Seq(S)
    BY <2>13
  <2>16. pool = p \o (q \o x)
    BY <2>4, <2>10, <2>12 DEF PoolIsStack, Joint
  <2>17. pool = Joint(p \o q, HeldCells(depth))
    BY <2>6, <2>12, <2>14, <2>16 DEF Joint
  <2> QED
    BY <2>15, <2>17
<1>6. PICK x : x = RootCells
  OBVIOUS
<1>7. x \in Seq(S)
  BY <1>1, <1>4, <1>6, HeldAre DEF RootCells
<1>8. /\ Len(pool) = Len(r) + Len(x) /\ Len(r) \in Nat /\ Len(x) \in Nat
      /\ \A i \in 1..Len(x) : pool[Len(r) + i] = x[i]
  <2>1. pool = r \o x
    BY <1>3, <1>5, <1>6 DEF Joint
  <2>2. Len(r \o x) = Len(r) + Len(x) /\ \A i \in 1..Len(x) : (r \o x)[Len(r) + i] = x[i]
    BY <1>5, <1>7, Joined
  <2>3. Len(r) \in Nat /\ Len(x) \in Nat
    BY <1>5, <1>7
  <2> QED
    BY <2>1, <2>2, <2>3
<1>9. PICK y : y = Reverse(x)
  OBVIOUS
<1>10. Len(y) = Len(x) /\ DOMAIN y = 1..Len(x) /\ \A k \in 1..Len(x) : y[k] = x[Len(x) - k + 1]
  BY <1>7, <1>9 DEF Reverse
<1>11. Len(pool) - Len(y) >= 0
  BY <1>8, <1>10
<1>12. ASSUME NEW k \in DOMAIN y
       PROVE  pool[Len(pool) - k + 1] = y[k]
  <2>1. PICK a, b : a = Len(r) /\ b = Len(x)
    OBVIOUS
  <2>2. a \in Nat /\ b \in Nat /\ Len(pool) = a + b /\ k \in 1..b
    BY <1>8, <1>10, <2>1, <1>12
  <2>3. b - k + 1 \in 1..b /\ Len(pool) - k + 1 = a + (b - k + 1)
    BY <2>2
  <2>4. pool[a + (b - k + 1)] = x[b - k + 1]
    BY <1>8, <2>1, <2>3
  <2>5. y[k] = x[b - k + 1]
    BY <1>10, <2>1, <2>2
  <2> QED
    BY <2>3, <2>4, <2>5
<1> QED
  BY <1>6, <1>9, <1>11, <1>12

\* Nothing but empty parts.
LEMMA FlattenNothing ==
  ASSUME NEW s, NEW n \in Nat, s = [i \in 1..n |-> << >>]
  PROVE  FlattenSeq(s) = << >>
<1>1. s \in Seq(Seq({}))
  <2>1. << >> \in Seq({})
    OBVIOUS
  <2> QED
    BY <2>1
<1>2. FlattenSeq(s) \in Seq({})
  BY <1>1, FlattenElements
<1>3. PICK x : x = FlattenSeq(s)
  OBVIOUS
<1>4. x \in Seq({})
  BY <1>2, <1>3
<1>5. x = << >>
  <2>1. Len(x) \in Nat /\ \A i \in 1..Len(x) : x[i] \in {}
    BY <1>4
  <2>2. Len(x) = 0
    BY <2>1
  <2> QED
    BY <1>4, <2>2
<1> QED
  BY <1>3, <1>5

\* set_args leaves its global in the pool.
LEMMA PoolPublished ==
  ASSUME FramesFit, PoolIsStack, NEW o, o = "publish", Forward(o), depth = 1,
         global_sysargs = Null, global_sysargs' # Null, ~Between(frames[1], "push", "pop"),
         pool' = Append(pool, SysargsCell)
  PROVE  PoolIsStack' /\ Len(pool') = 1
<1>1. depth \in 1..depth /\ DOMAIN frames = 1..1 /\ DOMAIN frames' = 1..1
  BY ForwardFrames
<1>2. ~Between(frames'[1], "push", "pop")
  BY <1>1, ForwardStep
<1>3. HeldCells(1) = << >> /\ HeldCells(1)' = << >>
  BY <1>2 DEF HeldCells
<1>4. \A d \in 1..1 : d = 1
  OBVIOUS
<1>5. PICK H : H = [d \in 1..1 |-> << >>]
  OBVIOUS
<1>6. [d \in DOMAIN frames |-> HeldCells(d)] = H /\ [d \in DOMAIN frames |-> HeldCells(d)]' = H
  BY <1>1, <1>3, <1>4, <1>5
<1>7. FlattenSeq(H) = << >>
  <2>1. 1 \in Nat
    OBVIOUS
  <2> QED
    BY <1>5, <2>1, FlattenNothing
<1>8. pool = << >> \o << >>
  BY <1>6, <1>7 DEF PoolIsStack, Published
<1>9. pool' = <<SysargsCell>>
  BY <1>8
<1>10. Published' = <<SysargsCell>>
  BY DEF Published, SysargsCell, Null, Raw
<1>11. pool' = Published' \o FlattenSeq(H)
  BY <1>7, <1>9, <1>10
<1> QED
  BY <1>6, <1>9, <1>11 DEF PoolIsStack

\* A call: one frame more, the caller is one step on.
Entering ==
  /\ At_op("call")
  /\ depth' = depth + 1 /\ DOMAIN frames' = 1..depth + 1 /\ frames' \in Seq(Range(frames'))
  /\ \A d \in 1..depth : SameCall(frames[d], frames'[d]) /\ frames'[d].flag = frames[d].flag
  /\ \A d \in 1..depth : frames'[d].pc = IF d = depth THEN frames[d].pc + 1 ELSE frames[d].pc
  /\ frames'[depth + 1].pc = 1 /\ frames'[depth + 1].flag = FALSE
  /\ AtStep(frames'[depth + 1])

\* A return: one frame less.
Leaving ==
  /\ At_op("return")
  /\ depth' = depth - 1 /\ DOMAIN frames' = 1..depth - 1 /\ frames' \in Seq(Range(frames'))
  /\ \A d \in 1..depth - 1 : SameCall(frames[d], frames'[d]) /\ frames'[d].flag = frames[d].flag
                            /\ frames'[d].pc = frames[d].pc

\* The frames of the callers.
LEMMA EnteringFrames ==
  ASSUME FramesFit, Entering
  PROVE  /\ depth \in Nat \ {0} /\ depth \in 1..depth
         /\ DOMAIN frames = 1..depth /\ OpOf(frames[depth]) = "call"
         /\ \A d \in 1..depth : AtStep(frames'[d]) /\ Body(frames'[d]) = Body(frames[d])
         /\ \A d \in 1..depth :
              /\ \A x : x # "call" => (Earlier(frames'[d], x) <=> Earlier(frames[d], x))
              /\ \A x : x # "call" => (Later(frames'[d], x) <=> Later(frames[d], x))
              /\ \A x, y : x # "call" /\ y # "call" => (Between(frames'[d], x, y) <=> Between(frames[d], x, y))
         /\ Earlier(frames'[depth], "call")
<1>1. depth \in Nat \ {0} /\ depth \in 1..depth /\ OpOf(frames[depth]) = "call"
  BY Running DEF Entering
<1>2. DOMAIN frames = 1..depth /\ \A d \in 1..depth : AtStep(frames[d])
  BY FramesAtStep
<1>3. \A d \in 1..depth : Body(frames'[d]) = Body(frames[d])
  BY SameBody DEF Entering, SameCall
<1>4. ASSUME NEW d \in 1..depth
      PROVE  /\ AtStep(frames'[d])
             /\ \A x : x # "call" => (Earlier(frames'[d], x) <=> Earlier(frames[d], x))
             /\ \A x : x # "call" => (Later(frames'[d], x) <=> Later(frames[d], x))
             /\ d = depth => Earlier(frames'[d], "call")
  <2>1. PICK f, g : f = frames[d] /\ g = frames'[d]
    OBVIOUS
  <2>2. AtStep(f) /\ SameCall(f, g) /\ Body(g) = Body(f) /\ g.pc = IF d = depth THEN f.pc + 1 ELSE f.pc
    BY <1>2, <1>3, <2>1 DEF Entering
  <2>3. CASE d = depth
    <3>1. AtStep(f) /\ SameCall(f, g) /\ g.pc = f.pc + 1 /\ OpOf(f) = "call" /\ OpOf(f) # "return"
      BY <1>1, <2>1, <2>2, <2>3
    <3>2. /\ AtStep(g)
          /\ \A o : Earlier(g, o) <=> (Earlier(f, o) \/ OpOf(f) = o)
          /\ \A o : Later(f, o) <=> (Later(g, o) \/ OpOf(f) = o)
      BY <3>1, FrameStep
    <3> QED
      BY <2>1, <3>1, <3>2
  <2>4. CASE d # depth
    <3>1. g.pc = f.pc /\ g.fn = f.fn /\ g.n = f.n
      BY <2>2, <2>4 DEF SameCall
    <3>2. AtStep(g)
      BY <2>2, <3>1 DEF AtStep, Known
    <3>3. /\ \A x : Earlier(g, x) <=> Earlier(f, x)
          /\ \A x : Later(g, x) <=> Later(f, x)
      BY <2>2, <3>1, FrameTerms
    <3> QED
      BY <2>1, <2>4, <3>2, <3>3
  <2> QED
    BY <2>3, <2>4
<1>5. \A d \in 1..depth : \A x, y : x # "call" /\ y # "call" =>
        (Between(frames'[d], x, y) <=> Between(frames[d], x, y))
  BY <1>4 DEF Between
<1> QED
  BY <1>1, <1>2, <1>3, <1>4, <1>5

\* The frames that remain.
LEMMA LeavingFrames ==
  ASSUME FramesFit, Leaving
  PROVE  /\ depth \in Nat \ {0} /\ depth \in 1..depth /\ AtStep(frames[depth])
         /\ DOMAIN frames = 1..depth /\ OpOf(frames[depth]) = "return"
         /\ \A d \in 1..depth - 1 : AtStep(frames'[d]) /\ Body(frames'[d]) = Body(frames[d])
         /\ \A d \in 1..depth - 1 :
              /\ \A x : Earlier(frames'[d], x) <=> Earlier(frames[d], x)
              /\ \A x : Later(frames'[d], x) <=> Later(frames[d], x)
              /\ \A x, y : Between(frames'[d], x, y) <=> Between(frames[d], x, y)
<1>1. depth \in Nat \ {0} /\ depth \in 1..depth /\ OpOf(frames[depth]) = "return"
  BY Running DEF Leaving
<1>2. DOMAIN frames = 1..depth /\ \A d \in 1..depth : AtStep(frames[d])
  BY FramesAtStep
<1>3. ASSUME NEW d \in 1..depth - 1
      PROVE  /\ AtStep(frames'[d]) /\ Body(frames'[d]) = Body(frames[d])
             /\ \A x : Earlier(frames'[d], x) <=> Earlier(frames[d], x)
             /\ \A x : Later(frames'[d], x) <=> Later(frames[d], x)
             /\ \A x, y : Between(frames'[d], x, y) <=> Between(frames[d], x, y)
  <2>1. PICK f, g : f = frames[d] /\ g = frames'[d]
    OBVIOUS
  <2>2. d \in 1..depth
    BY <1>1, <1>3
  <2>3. AtStep(f) /\ SameCall(f, g) /\ g.pc = f.pc
    BY <1>2, <1>3, <2>1, <2>2 DEF Leaving
  <2>4. Body(g) = Body(f) /\ g.fn = f.fn /\ g.n = f.n
    BY <2>3, SameBody DEF SameCall
  <2>5. AtStep(g)
    BY <2>3, <2>4 DEF AtStep, Known
  <2>6. /\ \A x : Earlier(g, x) <=> Earlier(f, x)
        /\ \A x : Later(g, x) <=> Later(f, x)
        /\ \A x, y : Between(g, x, y) <=> Between(f, x, y)
    BY <2>3, <2>4, FrameTerms
  <2> QED
    BY <2>1, <2>4, <2>5, <2>6
<1> QED
  BY <1>1, <1>2, <1>3

\* A call changes neither buffer nor __gc_stack_top.
LEMMA EnteringKeeps ==
  ASSUME FramesFit, Entering, TopIsOutermost, BufferInUse, top' = top, buf' = buf
  PROVE  TopIsOutermost' /\ BufferInUse'
<1>1. depth \in Nat \ {0} /\ DOMAIN frames = 1..depth /\ DOMAIN frames' = 1..depth + 1
  BY EnteringFrames DEF Entering
<1>2. \A d \in 1..depth : /\ Later(frames'[d], "POST_GC") <=> Later(frames[d], "POST_GC")
                          /\ Earlier(frames'[d], "PRE_GC") <=> Earlier(frames[d], "PRE_GC")
                          /\ Between(frames'[d], "PRE_GC", "POST_GC") <=> Between(frames[d], "PRE_GC", "POST_GC")
                          /\ Between(frames'[d], "print", "delete") <=> Between(frames[d], "print", "delete")
  BY EnteringFrames
<1>3. /\ \A o : ~Earlier(frames'[depth + 1], o)
      /\ \A o, p : ~Between(frames'[depth + 1], o, p)
  BY FrameBegins DEF Entering
<1>4. ~frames'[depth + 1].flag /\ \A d \in 1..depth : frames'[d].flag = frames[d].flag
  BY DEF Entering
<1>5. \A d \in 1..depth : Resets(frames'[d]) <=> Resets(frames[d])
  BY <1>2, <1>4, FrameTerms
<1>6. ~Resets(frames'[depth + 1])
  BY <1>4, FrameTerms
<1>7. \A d \in 1..depth + 1 : d \in 1..depth \/ d = depth + 1
  BY <1>1
<1>8. 1..depth \subseteq 1..depth + 1
  BY <1>1
<1>9. {d \in 1..depth + 1 : Resets(frames'[d])} = {d \in 1..depth : Resets(frames[d])}
  BY <1>5, <1>6, <1>7, <1>8
<1>10. {d \in DOMAIN frames' : Resets(frames'[d])} = {top'} \ {0}
  BY <1>1, <1>9 DEF TopIsOutermost
<1>11. \A d \in DOMAIN frames' :
         /\ Between(frames'[d], "PRE_GC", "POST_GC") => top' # 0 /\ top' <= d
         /\ ~Earlier(frames'[d], "PRE_GC") => ~frames'[d].flag
  <2>1. \A d \in 1..depth :
          /\ Between(frames'[d], "PRE_GC", "POST_GC") => top' # 0 /\ top' <= d
          /\ ~Earlier(frames'[d], "PRE_GC") => ~frames'[d].flag
    BY <1>1, <1>2, <1>4 DEF TopIsOutermost
  <2> QED
    BY <1>1, <1>3, <1>4, <1>7, <2>1
<1>12. TopIsOutermost'
  BY <1>10, <1>11 DEF TopIsOutermost
<1>13. BufferInUse'
  BY <1>1, <1>2, <1>8 DEF BufferInUse, NoBuf
<1> QED
  BY <1>12, <1>13

\* Nor does a return.
LEMMA LeavingKeeps ==
  ASSUME FramesFit, Leaving, TopIsOutermost, BufferInUse, top' = top, buf' = buf
  PROVE  TopIsOutermost' /\ BufferInUse'
<1>1. depth \in Nat \ {0} /\ DOMAIN frames = 1..depth /\ DOMAIN frames' = 1..depth - 1
  BY LeavingFrames DEF Leaving
<1>2. \A d \in 1..depth - 1 :
        /\ Later(frames'[d], "POST_GC") <=> Later(frames[d], "POST_GC")
        /\ Earlier(frames'[d], "PRE_GC") <=> Earlier(frames[d], "PRE_GC")
        /\ Between(frames'[d], "PRE_GC", "POST_GC") <=> Between(frames[d], "PRE_GC", "POST_GC")
        /\ Between(frames'[d], "print", "delete") <=> Between(frames[d], "print", "delete")
  BY LeavingFrames
<1>3. AtStep(frames[depth]) /\ OpOf(frames[depth]) = "return"
  BY LeavingFrames
<1>4. ~Later(frames[depth], "POST_GC") /\ ~Between(frames[depth], "print", "delete")
  BY <1>3, FrameReturns
<1>5. \A d \in 1..depth - 1 : frames'[d].flag = frames[d].flag
  BY DEF Leaving
<1>6. \A d \in 1..depth - 1 : Resets(frames'[d]) <=> Resets(frames[d])
  BY <1>2, <1>5, FrameTerms
<1>7. ~Resets(frames[depth])
  BY <1>4, FrameTerms
<1>8. \A d \in 1..depth : d \in 1..depth - 1 \/ d = depth
  BY <1>1
<1>9. 1..depth - 1 \subseteq 1..depth
  BY <1>1
<1>10. {d \in 1..depth - 1 : Resets(frames'[d])} = {d \in 1..depth : Resets(frames[d])}
  BY <1>6, <1>7, <1>8, <1>9
<1>11. {d \in DOMAIN frames' : Resets(frames'[d])} = {top'} \ {0}
  BY <1>1, <1>10 DEF TopIsOutermost
<1>12. \A d \in DOMAIN frames' :
         /\ Between(frames'[d], "PRE_GC", "POST_GC") => top' # 0 /\ top' <= d
         /\ ~Earlier(frames'[d], "PRE_GC") => ~frames'[d].flag
  BY <1>1, <1>2, <1>5, <1>9 DEF TopIsOutermost
<1>13. TopIsOutermost'
  BY <1>11, <1>12 DEF TopIsOutermost
<1>14. BufferInUse'
  BY <1>1, <1>2, <1>4, <1>8 DEF BufferInUse, NoBuf
<1> QED
  BY <1>13, <1>14

\* Nor the pool: the callers keep their cells registered.
LEMMA EnteringPool ==
  ASSUME FramesFit, Entering, PoolIsStack, pool' = pool, Published' = Published
  PROVE  PoolIsStack'
<1>1. /\ depth \in Nat \ {0} /\ depth \in 1..depth /\ DOMAIN frames = 1..depth
      /\ DOMAIN frames' = 1..depth + 1
  BY EnteringFrames DEF Entering
<1>2. \A d \in 1..depth : Between(frames'[d], "push", "pop") <=> Between(frames[d], "push", "pop")
  BY EnteringFrames
<1>3. ~Between(frames'[depth + 1], "push", "pop")
  BY FrameBegins DEF Entering
<1>4. \A d \in 1..depth : Registers(d)' = Registers(d)
  BY DEF Registers, Entering, SameCall
<1>5. /\ \A d \in 1..depth : HeldCells(d)' = HeldCells(d)
      /\ \A d : d = depth + 1 => HeldCells(d)' = << >>
  BY <1>2, <1>3, <1>4 DEF HeldCells
<1>6. PICK n \in Nat : n = depth
  BY <1>1
<1>7. PICK H, G : /\ H = [d \in DOMAIN frames |-> HeldCells(d)]
                  /\ G = [d \in DOMAIN frames' |-> HeldCells(d)']
  OBVIOUS
<1>8. PICK S : S = Registered
  OBVIOUS
<1>9. \A d \in 1..n : HeldCells(d) \in Seq(S)
  BY <1>6, <1>8, HeldAre
<1>10. H = [d \in 1..n |-> HeldCells(d)] /\ G = [d \in 1..n + 1 |-> HeldCells(d)']
  BY <1>1, <1>6, <1>7
<1>11. H \in Seq(Seq(S)) /\ Len(H) = n
  <2> HIDE <1>7
  <2> QED
    BY <1>9, <1>10
<1>12. G = Append(H, << >>)
  <2>1. \A d \in 1..n + 1 : G[d] = IF d = n + 1 THEN << >> ELSE H[d]
    <3> SUFFICES ASSUME NEW d \in 1..n + 1
                 PROVE  G[d] = IF d = n + 1 THEN << >> ELSE H[d]
      OBVIOUS
    <3>1. CASE d = n + 1
      BY <1>5, <1>6, <1>10, <3>1
    <3>2. CASE d # n + 1
      <4>1. d \in 1..n
        BY <3>2
      <4> QED
        BY <1>5, <1>6, <1>10, <3>2, <4>1
    <3> QED
      BY <3>1, <3>2
  <2>2. PICK A, x : x = << >> /\ A = Append(H, x)
    OBVIOUS
  <2>3. x \in Seq(S)
    BY <2>2
  <2>4. A \in Seq(Seq(S)) /\ Len(A) = n + 1 /\ A[n + 1] = x /\ \A i \in 1..n : A[i] = H[i]
    BY <1>11, <2>2, <2>3
  <2>5. \A d \in 1..n + 1 : G[d] = A[d]
    BY <2>1, <2>2, <2>4
  <2>6. G = [d \in 1..n + 1 |-> G[d]] /\ A = [d \in 1..n + 1 |-> A[d]]
    BY <1>10, <2>4
  <2> QED
    BY <2>2, <2>5, <2>6
<1>13. PICK x : x = << >>
  OBVIOUS
<1>14. Parts(H, S) /\ Parts(<<x>>, S)
  <2>1. x \in Seq(S)
    BY <1>13
  <2> QED
    BY <1>11, <2>1 DEF Parts
<1>15. FlattenSeq(Append(H, x)) = Joint(FlattenSeq(H), x)
  BY <1>14, FlattenAppend
<1>16. FlattenSeq(H) \in Seq(S)
  BY <1>14, FlattenElements DEF Parts
<1>17. FlattenSeq(G) = FlattenSeq(H)
  BY <1>12, <1>13, <1>15, <1>16, ConcatEmptySeq DEF Joint
<1>18. [d \in DOMAIN frames |-> HeldCells(d)]' = G
  BY <1>7
<1> QED
  BY <1>7, <1>17, <1>18 DEF PoolIsStack

\* The function that returns has removed its own.
LEMMA LeavingPool ==
  ASSUME FramesFit, Leaving, PoolIsStack, pool' = pool, Published' = Published
  PROVE  PoolIsStack'
<1>1. /\ depth \in Nat \ {0} /\ depth \in 1..depth /\ DOMAIN frames = 1..depth
      /\ DOMAIN frames' = 1..depth - 1
  BY LeavingFrames DEF Leaving
<1>2. \A d \in 1..depth - 1 : Between(frames'[d], "push", "pop") <=> Between(frames[d], "push", "pop")
  BY LeavingFrames
<1>3. ~Between(frames[depth], "push", "pop")
  BY LeavingFrames, FrameReturns
<1>4. \A d \in 1..depth - 1 : Registers(d)' = Registers(d)
  BY DEF Registers, Leaving, SameCall
<1>5. /\ \A d \in 1..depth - 1 : HeldCells(d)' = HeldCells(d)
      /\ HeldCells(depth) = << >>
  BY <1>2, <1>3, <1>4 DEF HeldCells
<1>6. PICK n \in Nat : n = depth /\ n > 0
  BY <1>1
<1>7. PICK H, G : /\ H = [d \in DOMAIN frames |-> HeldCells(d)]
                  /\ G = [d \in DOMAIN frames' |-> HeldCells(d)']
  OBVIOUS
<1>8. PICK S : S = Registered
  OBVIOUS
<1>9. \A d \in 1..n : HeldCells(d) \in Seq(S)
  BY <1>6, <1>8, HeldAre
<1>10. H = [d \in 1..n |-> HeldCells(d)] /\ G = [d \in 1..n - 1 |-> HeldCells(d)']
  BY <1>1, <1>6, <1>7
<1>11. H \in Seq(Seq(S)) /\ Len(H) = n
  <2> HIDE <1>7
  <2> QED
    BY <1>9, <1>10
<1>12. G = SubSeq(H, 1, n - 1)
  <2>1. \A d \in 1..n - 1 : G[d] = H[d]
    <3> SUFFICES ASSUME NEW d \in 1..n - 1
                 PROVE  G[d] = H[d]
      OBVIOUS
    <3>1. d \in 1..n
      BY <1>6
    <3> QED
      BY <1>5, <1>6, <1>10, <3>1
  <2>2. SubSeq(H, 1, n - 1) = [d \in 1..n - 1 |-> H[d]]
    BY <1>6, <1>11
  <2>3. G = [d \in 1..n - 1 |-> G[d]]
    BY <1>10
  <2> QED
    BY <2>1, <2>2, <2>3
<1>13. H[n] = << >>
  BY <1>1, <1>5, <1>6, <1>10
<1>14. Parts(H, S) /\ n = Len(H)
  BY <1>11 DEF Parts
<1>15. FlattenSeq(H) = Joint(FlattenSeq(SubSeq(H, 1, n - 1)), H[n]) /\ Parts(SubSeq(H, 1, n - 1), S)
  BY <1>6, <1>14, FlattenLast
<1>16. FlattenSeq(G) \in Seq(S)
  BY <1>12, <1>15, FlattenElements DEF Parts
<1>17. FlattenSeq(G) = FlattenSeq(H)
  BY <1>12, <1>13, <1>15, <1>16, ConcatEmptySeq DEF Joint
<1>18. [d \in DOMAIN frames |-> HeldCells(d)]' = G
  BY <1>7
<1> QED
  BY <1>7, <1>17, <1>18 DEF PoolIsStack
=============================================================================
