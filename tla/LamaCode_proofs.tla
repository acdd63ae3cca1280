--------------------------- MODULE LamaCode_proofs ---------------------------
(***************************************************************************)
(* The calling convention of the emitted code and the places of operands,  *)
(* arguments, locals and globals, for every number of registers, arguments *)
(* and locals and every depth of calls.                                    *)
(***************************************************************************)
EXTENDS LamaCode, SequenceTheorems, TLAPS

-----------------------------------------------------------------------------
(* The registers.                                                          *)

\* The elements of two sequences one behind the other.
LEMMA Joined ==
  ASSUME NEW S, NEW s \in Seq(S), NEW t \in Seq(S)
  PROVE  /\ s \o t \in Seq(S)
         /\ Len(s \o t) = Len(s) + Len(t)
         /\ \A i \in 1..Len(s) : (s \o t)[i] = s[i]
         /\ \A i \in 1..Len(t) : (s \o t)[Len(s) + i] = t[i]
<1>1. Len(s) \in Nat /\ Len(t) \in Nat
  OBVIOUS
<1> QED
  BY <1>1, ConcatProperties

\* An element in front of a sequence.
LEMMA Prefixed ==
  ASSUME NEW S, NEW x \in S, NEW t \in Seq(S)
  PROVE  /\ <<x>> \o t \in Seq(S)
         /\ Len(<<x>> \o t) = Len(t) + 1
         /\ (<<x>> \o t)[1] = x
         /\ \A i \in 1..Len(t) : (<<x>> \o t)[i + 1] = t[i]
<1>1. PICK s : s = <<x>>
  OBVIOUS
<1>2. s \in Seq(S)
  BY <1>1
<1>4. Len(s) = 1 /\ s[1] = x /\ Len(t) \in Nat
  BY <1>1
<1>3. /\ s \o t \in Seq(S) /\ Len(s \o t) = Len(s) + Len(t)
      /\ \A i \in 1..Len(s) : (s \o t)[i] = s[i]
      /\ \A i \in 1..Len(t) : (s \o t)[Len(s) + i] = t[i]
  BY <1>2, Joined
<1> QED
  BY <1>1, <1>3, <1>4

Names == {"fp", "ra", "gp", "temp1", "temp2"} \cup Elements(SReg) \cup Elements(TReg) \cup Elements(AReg)

\* Where the registers of the sequences are that the code is emitted from.
LEMMA RegisterSequences ==
  /\ Len(SReg) \in Nat \ {0} /\ Len(TReg) \in Nat /\ Len(AReg) \in Nat \ {0}
  /\ StackRegs \in Seq(Names) /\ Len(StackRegs) = Len(SReg) + Len(TReg)
  /\ \A i \in 1..Len(SReg) : StackRegs[i] = SReg[i]
  /\ \A i \in 1..Len(TReg) : StackRegs[Len(SReg) + i] = TReg[i]
  /\ Saved \in Seq(Names) /\ Len(Saved) = Len(SReg) + 1
  /\ Saved[1] = "fp" /\ \A i \in 1..Len(SReg) : Saved[i + 1] = SReg[i]
  /\ Temps \in Seq(Names) /\ Len(Temps) = Len(TReg) + 3
  /\ Temps[1] = "gp" /\ \A i \in 1..Len(TReg) : Temps[i + 1] = TReg[i]
  /\ Temps[Len(TReg) + 2] = "temp1" /\ Temps[Len(TReg) + 3] = "temp2"
  /\ AtCall \in Seq(Names) /\ Len(AtCall) = 1 + Len(Temps) + Len(AReg)
  /\ AtCall[1] = "ra" /\ \A i \in 1..Len(Temps) : AtCall[i + 1] = Temps[i]
  /\ \A i \in 1..Len(AReg) : AtCall[1 + Len(Temps) + i] = AReg[i]
<1>1. /\ SReg \in Seq(Names) /\ TReg \in Seq(Names) /\ AReg \in Seq(Names)
      /\ Len(SReg) >= 1 /\ Len(AReg) >= 1
  <2>1. IsSequence(SReg) /\ IsSequence(TReg) /\ IsSequence(AReg) /\ Len(SReg) >= 1 /\ Len(AReg) >= 1
    BY CodeAssumption
  <2>2. \A x : x \in Elements(SReg) \/ x \in Elements(TReg) \/ x \in Elements(AReg) => x \in Names
    BY DEF Names
  <2> QED
    BY <2>1, <2>2, SeqMonotonic DEF IsSequence
<1>2. "fp" \in Names /\ "gp" \in Names /\ "ra" \in Names /\ "temp1" \in Names /\ "temp2" \in Names
  BY DEF Names
<1>3. PICK q : q = <<"temp1", "temp2">>
  OBVIOUS
<1>31. q \in Seq(Names)
  BY <1>2, <1>3
<1>32. Len(q) = 2 /\ q[1] = "temp1" /\ q[2] = "temp2"
  BY <1>3
<1>4. Len(SReg) \in Nat \ {0} /\ Len(TReg) \in Nat /\ Len(AReg) \in Nat \ {0}
  BY <1>1
<1>5. /\ StackRegs \in Seq(Names) /\ Len(StackRegs) = Len(SReg) + Len(TReg)
      /\ \A i \in 1..Len(SReg) : StackRegs[i] = SReg[i]
      /\ \A i \in 1..Len(TReg) : StackRegs[Len(SReg) + i] = TReg[i]
  BY <1>1, Joined DEF StackRegs
<1>6. /\ Saved \in Seq(Names) /\ Len(Saved) = Len(SReg) + 1
      /\ Saved[1] = "fp" /\ \A i \in 1..Len(SReg) : Saved[i + 1] = SReg[i]
  BY <1>1, <1>2, Prefixed DEF Saved
<1>7. PICK s : s = <<"gp">> \o TReg
  OBVIOUS
<1>8. /\ s \in Seq(Names) /\ Len(s) = Len(TReg) + 1
      /\ s[1] = "gp" /\ \A i \in 1..Len(TReg) : s[i + 1] = TReg[i]
  BY <1>1, <1>2, <1>7, Prefixed
<1>9. /\ Temps \in Seq(Names) /\ Len(Temps) = Len(TReg) + 3
      /\ Temps[1] = "gp" /\ \A i \in 1..Len(TReg) : Temps[i + 1] = TReg[i]
      /\ Temps[Len(TReg) + 2] = "temp1" /\ Temps[Len(TReg) + 3] = "temp2"
  <2>1. Temps = s \o q
    BY <1>3, <1>7 DEF Temps
  <2>2. /\ Temps \in Seq(Names) /\ Len(Temps) = Len(s) + Len(q)
        /\ \A i \in 1..Len(s) : Temps[i] = s[i]
        /\ \A i \in 1..Len(q) : Temps[Len(s) + i] = q[i]
    <3>1. s \in Seq(Names)
      BY <1>8
    <3> QED
      BY <1>31, <2>1, <3>1, Joined
  <2> QED
    BY <1>32, <1>4, <1>8, <2>2
<1>10. PICK u : u = <<"ra">> \o Temps
  OBVIOUS
<1>11. /\ u \in Seq(Names) /\ Len(u) = Len(Temps) + 1
       /\ u[1] = "ra" /\ \A i \in 1..Len(Temps) : u[i + 1] = Temps[i]
  BY <1>2, <1>9, <1>10, Prefixed
<1>12. /\ AtCall \in Seq(Names) /\ Len(AtCall) = Len(u) + Len(AReg)
       /\ \A i \in 1..Len(u) : AtCall[i] = u[i]
       /\ \A i \in 1..Len(AReg) : AtCall[Len(u) + i] = AReg[i]
  <2>1. AtCall = u \o AReg
    BY <1>10 DEF AtCall
  <2>2. /\ AtCall \in Seq(Names) /\ Len(AtCall) = Len(u) + Len(AReg)
        /\ \A i \in 1..Len(u) : AtCall[i] = u[i]
        /\ \A i \in 1..Len(AReg) : AtCall[Len(u) + i] = AReg[i]
    <3>1. u \in Seq(Names) /\ AReg \in Seq(Names)
      BY <1>1, <1>11
    <3> QED
      BY <2>1, <3>1, Joined
  <2> QED
    BY <2>2
<1>13. AtCall[1] = "ra" /\ \A i \in 1..Len(Temps) : AtCall[i + 1] = Temps[i]
  <2>1. 1 \in 1..Len(u) /\ \A i \in 1..Len(Temps) : i + 1 \in 1..Len(u)
    BY <1>4, <1>9, <1>11
  <2> QED
    BY <1>11, <1>12, <2>1
<1> QED
  BY <1>4, <1>5, <1>6, <1>9, <1>11, <1>12, <1>13

\* Any sequence is one of its own elements.
LEMMA OwnElements ==
  ASSUME NEW S, NEW s \in Seq(S)
  PROVE  IsSequence(s)
<1>1. Len(s) \in Nat /\ s = [i \in 1..Len(s) |-> s[i]]
  OBVIOUS
<1>2. \A i \in 1..Len(s) : s[i] \in Elements(s)
  BY DEF Elements
<1>3. s \in [1..Len(s) -> Elements(s)]
  BY <1>1, <1>2
<1> QED
  BY <1>1, <1>3 DEF IsSequence

\* The elements of a sequence that starts with one more.
LEMMA ElementsOf ==
  ASSUME NEW S, NEW s \in Seq(S), NEW x
  PROVE  x \in Elements(s) <=> \E i \in 1..Len(s) : s[i] = x
BY DEF Elements

\* Place finds an element that is there once.
LEMMA PlaceOf ==
  ASSUME NEW s, NEW i \in 1..Len(s), \A k \in 1..Len(s) : s[i] = s[k] => i = k
  PROVE  Place(s[i], s) = i
<1>1. \E k \in 1..Len(s) : s[k] = s[i]
  OBVIOUS
<1>2. Place(s[i], s) \in 1..Len(s) /\ s[Place(s[i], s)] = s[i]
  BY <1>1 DEF Place
<1> QED
  BY <1>2

\* No register is in two of the sequences, or twice in one.
LEMMA RegistersApart ==
  /\ \A i \in 1..Len(SReg) : SReg[i] \notin {"sp", "fp", "ra", "gp", "temp1", "temp2"}
  /\ \A i \in 1..Len(TReg) : TReg[i] \notin {"sp", "fp", "ra", "gp", "temp1", "temp2"}
  /\ \A i \in 1..Len(AReg) : AReg[i] \notin {"sp", "fp", "ra", "gp", "temp1", "temp2"}
  /\ \A i \in 1..Len(SReg), j \in 1..Len(TReg) : SReg[i] # TReg[j]
  /\ \A i \in 1..Len(SReg), j \in 1..Len(AReg) : SReg[i] # AReg[j]
  /\ \A i \in 1..Len(TReg), j \in 1..Len(AReg) : TReg[i] # AReg[j]
  /\ \A i, j \in 1..Len(SReg) : SReg[i] = SReg[j] => i = j
  /\ \A i, j \in 1..Len(TReg) : TReg[i] = TReg[j] => i = j
  /\ \A i, j \in 1..Len(AReg) : AReg[i] = AReg[j] => i = j
<1> DEFINE Fixed == <<"sp", "fp", "ra", "gp", "temp1", "temp2">>
<1>1. PICK q : q = Fixed
  OBVIOUS
<1>2. Len(q) = 6 /\ q[1] = "sp" /\ q[2] = "fp" /\ q[3] = "ra" /\ q[4] = "gp"
      /\ q[5] = "temp1" /\ q[6] = "temp2"
  BY <1>1
<1>3. {"sp", "fp", "ra", "gp", "temp1", "temp2"} \subseteq Elements(q)
  BY <1>2 DEF Elements
<1>4. \A s \in {SReg, TReg, AReg} : Elements(s) \cap Elements(q) = {}
  BY <1>1, CodeAssumption DEF Disjoint
<1>5. \A s \in {SReg, TReg, AReg} : \A i \in 1..Len(s) : s[i] \in Elements(s)
  BY DEF Elements
<1>6. \A s \in {SReg, TReg, AReg} : \A i \in 1..Len(s) :
        s[i] \notin {"sp", "fp", "ra", "gp", "temp1", "temp2"}
  BY <1>3, <1>4, <1>5
<1>7. /\ Elements(SReg) \cap Elements(TReg) = {} /\ Elements(SReg) \cap Elements(AReg) = {}
      /\ Elements(TReg) \cap Elements(AReg) = {}
  BY CodeAssumption DEF Disjoint
<1>8. \A s \in {SReg, TReg, AReg} : \A i, j \in 1..Len(s) : s[i] = s[j] => i = j
  BY CodeAssumption
<1> QED
  BY <1>5, <1>6, <1>7, <1>8

\* Which registers there are.
LEMMA RegisterSets ==
  /\ Elements(Saved) = {"fp"} \cup Elements(SReg)
  /\ Elements(Temps) = {"gp", "temp1", "temp2"} \cup Elements(TReg)
  /\ Elements(AtCall) = {"ra", "gp", "temp1", "temp2"} \cup Elements(TReg) \cup Elements(AReg)
  /\ Elements(StackRegs) = Elements(SReg) \cup Elements(TReg)
  /\ Register = {"sp", "fp", "ra", "gp", "temp1", "temp2"}
                  \cup Elements(SReg) \cup Elements(TReg) \cup Elements(AReg)
<1>1. /\ Len(SReg) \in Nat \ {0} /\ Len(TReg) \in Nat /\ Len(AReg) \in Nat \ {0}
      /\ Len(Saved) = Len(SReg) + 1 /\ Len(Temps) = Len(TReg) + 3
      /\ Len(AtCall) = 1 + Len(Temps) + Len(AReg) /\ Len(StackRegs) = Len(SReg) + Len(TReg)
  BY RegisterSequences
<1>2. \A i \in 1..Len(Saved) : i = 1 \/ \E k \in 1..Len(SReg) : i = k + 1
  <2>1. \A i \in 1..Len(Saved) : i # 1 => i - 1 \in 1..Len(SReg) /\ i = (i - 1) + 1
    BY <1>1
  <2> QED
    BY <2>1
<1>3. \A i \in 1..Len(Temps) :
        i = 1 \/ i = Len(TReg) + 2 \/ i = Len(TReg) + 3 \/ \E k \in 1..Len(TReg) : i = k + 1
  <2>1. \A i \in 1..Len(Temps) : i # 1 /\ i # Len(TReg) + 2 /\ i # Len(TReg) + 3
          => i - 1 \in 1..Len(TReg) /\ i = (i - 1) + 1
    BY <1>1
  <2> QED
    BY <2>1
<1>4. \A i \in 1..Len(AtCall) : i = 1 \/ (\E k \in 1..Len(Temps) : i = k + 1)
                                  \/ \E k \in 1..Len(AReg) : i = 1 + Len(Temps) + k
  <2>1. \A i \in 1..Len(AtCall) :
          \/ i = 1
          \/ i - 1 \in 1..Len(Temps) /\ i = (i - 1) + 1
          \/ i - 1 - Len(Temps) \in 1..Len(AReg) /\ i = 1 + Len(Temps) + (i - 1 - Len(Temps))
    BY <1>1
  <2> QED
    BY <2>1
<1>5. \A i \in 1..Len(StackRegs) : i \in 1..Len(SReg) \/ \E k \in 1..Len(TReg) : i = Len(SReg) + k
  <2>1. \A i \in 1..Len(StackRegs) :
          i \in 1..Len(SReg) \/ (i - Len(SReg) \in 1..Len(TReg) /\ i = Len(SReg) + (i - Len(SReg)))
    BY <1>1
  <2> QED
    BY <2>1
<1>6. Elements(Saved) = {"fp"} \cup Elements(SReg)
  <2>1. \A k \in 1..Len(SReg) : k + 1 \in 1..Len(Saved)
    BY <1>1
  <2>2. 1 \in 1..Len(Saved)
    BY <1>1
  <2>3. Saved[1] = "fp" /\ \A k \in 1..Len(SReg) : Saved[k + 1] = SReg[k]
    BY RegisterSequences
  <2>4. ASSUME NEW i \in 1..Len(Saved)
        PROVE  Saved[i] \in {"fp"} \cup Elements(SReg)
    <3>1. CASE i = 1
      BY <2>3, <3>1
    <3>2. CASE i # 1
      <4>1. PICK k \in 1..Len(SReg) : i = k + 1
        BY <1>2, <3>2
      <4>2. Saved[i] = SReg[k]
        BY <2>3, <4>1
      <4> QED
        BY <4>2 DEF Elements
    <3> QED
      BY <3>1, <3>2
  <2>5. ASSUME NEW k \in 1..Len(SReg)
        PROVE  SReg[k] \in Elements(Saved)
    <3>1. Saved[k + 1] \in Elements(Saved)
      BY <2>1 DEF Elements
    <3> QED
      BY <2>3, <3>1
  <2>6. "fp" \in Elements(Saved)
    BY <2>2, <2>3 DEF Elements
  <2> QED
    BY <2>4, <2>5, <2>6 DEF Elements
<1>7. Elements(Temps) = {"gp", "temp1", "temp2"} \cup Elements(TReg)
  <2>1. \A k \in 1..Len(TReg) : k + 1 \in 1..Len(Temps)
    BY <1>1
  <2>2. 1 \in 1..Len(Temps) /\ Len(TReg) + 2 \in 1..Len(Temps) /\ Len(TReg) + 3 \in 1..Len(Temps)
    BY <1>1
  <2>3. \A x \in Elements(Temps) : x \in {"gp", "temp1", "temp2"} \cup Elements(TReg)
    <3>1. ASSUME NEW i \in 1..Len(Temps), i # 1, i # Len(TReg) + 2, i # Len(TReg) + 3
          PROVE  Temps[i] \in Elements(TReg)
      <4>1. PICK k \in 1..Len(TReg) : i = k + 1
        BY <1>3, <3>1
      <4>2. Temps[k + 1] = TReg[k]
        BY RegisterSequences
      <4> QED
        BY <4>1, <4>2 DEF Elements
    <3>2. Temps[1] = "gp" /\ Temps[Len(TReg) + 2] = "temp1" /\ Temps[Len(TReg) + 3] = "temp2"
      BY RegisterSequences
    <3> QED
      BY <3>1, <3>2 DEF Elements
  <2>4. \A x \in Elements(TReg) : x \in Elements(Temps)
    BY <2>1, RegisterSequences DEF Elements
  <2>5. "gp" \in Elements(Temps) /\ "temp1" \in Elements(Temps) /\ "temp2" \in Elements(Temps)
    BY <2>2, RegisterSequences DEF Elements
  <2> QED
    BY <2>3, <2>4, <2>5
<1>8. Elements(AtCall) = {"ra"} \cup Elements(Temps) \cup Elements(AReg)
  <2>1. /\ 1 \in 1..Len(AtCall) /\ \A k \in 1..Len(Temps) : k + 1 \in 1..Len(AtCall)
        /\ \A k \in 1..Len(AReg) : 1 + Len(Temps) + k \in 1..Len(AtCall)
    BY <1>1
  <2>2. \A x \in Elements(AtCall) : x \in {"ra"} \cup Elements(Temps) \cup Elements(AReg)
    <3>1. ASSUME NEW i \in 1..Len(AtCall), NEW k \in 1..Len(Temps), i = k + 1
          PROVE  AtCall[i] \in Elements(Temps)
      <4>1. AtCall[k + 1] = Temps[k]
        BY RegisterSequences
      <4> QED
        BY <3>1, <4>1 DEF Elements
    <3>2. ASSUME NEW i \in 1..Len(AtCall), NEW k \in 1..Len(AReg), i = 1 + Len(Temps) + k
          PROVE  AtCall[i] \in Elements(AReg)
      <4>1. AtCall[1 + Len(Temps) + k] = AReg[k]
        BY RegisterSequences
      <4> QED
        BY <3>2, <4>1 DEF Elements
    <3>3. AtCall[1] = "ra"
      BY RegisterSequences
    <3> QED
      BY <1>4, <3>1, <3>2, <3>3 DEF Elements
  <2>3. \A x \in Elements(Temps) : x \in Elements(AtCall)
    BY <2>1, RegisterSequences DEF Elements
  <2>4. \A x \in Elements(AReg) : x \in Elements(AtCall)
    <3>1. ASSUME NEW k \in 1..Len(AReg)
          PROVE  AReg[k] \in Elements(AtCall)
      <4>1. AtCall[1 + Len(Temps) + k] \in Elements(AtCall)
        BY <2>1 DEF Elements
      <4>2. AtCall[1 + Len(Temps) + k] = AReg[k]
        BY RegisterSequences
      <4> QED
        BY <4>1, <4>2
    <3> QED
      BY <3>1 DEF Elements
  <2>5. "ra" \in Elements(AtCall)
    BY <2>1, RegisterSequences DEF Elements
  <2> QED
    BY <2>2, <2>3, <2>4, <2>5
<1>9. Elements(StackRegs) = Elements(SReg) \cup Elements(TReg)
  <2>1. /\ \A k \in 1..Len(SReg) : k \in 1..Len(StackRegs)
        /\ \A k \in 1..Len(TReg) : Len(SReg) + k \in 1..Len(StackRegs)
    BY <1>1
  <2>2. \A x \in Elements(StackRegs) : x \in Elements(SReg) \cup Elements(TReg)
    <3>1. ASSUME NEW i \in 1..Len(StackRegs), NEW k \in 1..Len(TReg), i = Len(SReg) + k
          PROVE  StackRegs[i] \in Elements(TReg)
      <4>1. StackRegs[Len(SReg) + k] = TReg[k]
        BY RegisterSequences
      <4> QED
        BY <3>1, <4>1 DEF Elements
    <3>2. \A i \in 1..Len(SReg) : StackRegs[i] = SReg[i]
      BY RegisterSequences
    <3> QED
      BY <1>5, <3>1, <3>2 DEF Elements
  <2>3. \A x \in Elements(SReg) : x \in Elements(StackRegs)
    BY <2>1, RegisterSequences DEF Elements
  <2>4. \A x \in Elements(TReg) : x \in Elements(StackRegs)
    <3>1. ASSUME NEW k \in 1..Len(TReg)
          PROVE  TReg[k] \in Elements(StackRegs)
      <4>1. StackRegs[Len(SReg) + k] \in Elements(StackRegs)
        BY <2>1 DEF Elements
      <4>2. StackRegs[Len(SReg) + k] = TReg[k]
        BY RegisterSequences
      <4> QED
        BY <4>1, <4>2
    <3> QED
      BY <3>1 DEF Elements
  <2> QED
    BY <2>2, <2>3, <2>4
<1> QED
  BY <1>6, <1>7, <1>8, <1>9 DEF Register

LEMMA StackRegsOnce ==
  \A i, j \in 1..Len(StackRegs) : StackRegs[i] = StackRegs[j] => i = j
<1>1. /\ Len(SReg) \in Nat \ {0} /\ Len(TReg) \in Nat
      /\ Len(StackRegs) = Len(SReg) + Len(TReg)
      /\ \A i \in 1..Len(SReg) : StackRegs[i] = SReg[i]
      /\ \A i \in 1..Len(TReg) : StackRegs[Len(SReg) + i] = TReg[i]
  BY RegisterSequences
<1>2. ASSUME NEW i \in 1..Len(StackRegs), i \notin 1..Len(SReg)
      PROVE  i - Len(SReg) \in 1..Len(TReg) /\ StackRegs[i] = TReg[i - Len(SReg)]
  <2>1. PICK k : k = i - Len(SReg)
    OBVIOUS
  <2>2. k \in 1..Len(TReg) /\ i = Len(SReg) + k
    BY <1>1, <1>2, <2>1
  <2> QED
    BY <1>1, <2>1, <2>2
<1>3. ASSUME NEW i \in 1..Len(StackRegs), NEW j \in 1..Len(StackRegs),
             StackRegs[i] = StackRegs[j]
      PROVE  i = j
  <2>1. CASE i \in 1..Len(SReg) /\ j \in 1..Len(SReg)
    BY <1>1, <1>3, <2>1, RegistersApart
  <2>2. CASE i \in 1..Len(SReg) /\ j \notin 1..Len(SReg)
    BY <1>1, <1>2, <1>3, <2>2, RegistersApart
  <2>3. CASE i \notin 1..Len(SReg) /\ j \in 1..Len(SReg)
    BY <1>1, <1>2, <1>3, <2>3, RegistersApart
  <2>4. CASE i \notin 1..Len(SReg) /\ j \notin 1..Len(SReg)
    <3>1. i - Len(SReg) \in 1..Len(TReg) /\ j - Len(SReg) \in 1..Len(TReg)
          /\ TReg[i - Len(SReg)] = TReg[j - Len(SReg)]
      BY <1>2, <1>3, <2>4
    <3>2. i - Len(SReg) = j - Len(SReg)
      BY <3>1, RegistersApart
    <3> QED
      BY <1>1, <3>2
  <2> QED
    BY <2>1, <2>2, <2>3, <2>4
<1> QED
  BY <1>3

\* Where a callee-saved register lies among the saved ones.
LEMMA SavedPlaces ==
  /\ \A i, j \in 1..Len(Saved) : Saved[i] = Saved[j] => i = j
  /\ \A i \in 1..Len(Saved) : Place(Saved[i], Saved) = i
<1>1. /\ Len(SReg) \in Nat /\ Len(Saved) = Len(SReg) + 1
      /\ Saved[1] = "fp" /\ \A i \in 1..Len(SReg) : Saved[i + 1] = SReg[i]
  BY RegisterSequences
<1>2. ASSUME NEW i \in 1..Len(Saved), i # 1
      PROVE  i - 1 \in 1..Len(SReg) /\ Saved[i] = SReg[i - 1]
  <2>1. PICK k : k = i - 1
    OBVIOUS
  <2>2. k \in 1..Len(SReg) /\ i = k + 1
    BY <1>1, <1>2, <2>1
  <2> QED
    BY <1>1, <2>1, <2>2
<1>3. ASSUME NEW i \in 1..Len(Saved), NEW j \in 1..Len(Saved), Saved[i] = Saved[j]
      PROVE  i = j
  <2>1. CASE i = 1 /\ j # 1
    BY <1>1, <1>2, <1>3, <2>1, RegistersApart
  <2>2. CASE i # 1 /\ j = 1
    BY <1>1, <1>2, <1>3, <2>2, RegistersApart
  <2>3. CASE i # 1 /\ j # 1
    <3>1. i - 1 \in 1..Len(SReg) /\ j - 1 \in 1..Len(SReg) /\ SReg[i - 1] = SReg[j - 1]
      BY <1>2, <1>3, <2>3
    <3>2. i - 1 = j - 1
      BY <3>1, RegistersApart
    <3> QED
      BY <1>1, <3>2
  <2> QED
    BY <2>1, <2>2, <2>3
<1> QED
  BY <1>3, PlaceOf

\* gp comes first among the registers that a call saves.
LEMMA TempsPlaces == Place("gp", Temps) = 1
<1>1. /\ Len(TReg) \in Nat /\ Len(Temps) = Len(TReg) + 3
      /\ Temps[1] = "gp" /\ \A i \in 1..Len(TReg) : Temps[i + 1] = TReg[i]
      /\ Temps[Len(TReg) + 2] = "temp1" /\ Temps[Len(TReg) + 3] = "temp2"
  BY RegisterSequences
<1>2. ASSUME NEW i \in 1..Len(Temps), Temps[i] = "gp"
      PROVE  i = 1
  <2>1. CASE i # 1 /\ i # Len(TReg) + 2 /\ i # Len(TReg) + 3
    <3>1. PICK k : k = i - 1
      OBVIOUS
    <3>2. k \in 1..Len(TReg) /\ i = k + 1
      BY <1>1, <2>1, <3>1
    <3> QED
      BY <1>1, <1>2, <3>2, RegistersApart
  <2> QED
    BY <1>1, <1>2, <2>1
<1>3. 1 \in 1..Len(Temps)
  BY <1>1
<1> QED
  BY <1>1, <1>2, <1>3, PlaceOf

LEMMA ArgumentPlaces == \A i \in 1..Len(AReg) : Place(AReg[i], AReg) = i
BY RegistersApart, PlaceOf

\* What the lemmas about the actions need of the registers.
LEMMA SpecialRegisters ==
  /\ "sp" \in Register /\ "fp" \in Register /\ "ra" \in Register /\ "gp" \in Register
  /\ "sp" \notin Elements(StackRegs) /\ "fp" \notin Elements(StackRegs)
  /\ "ra" \notin Elements(StackRegs) /\ "gp" \notin Elements(StackRegs)
  /\ "sp" \notin Elements(AReg) /\ "fp" \notin Elements(AReg)
  /\ "ra" \notin Elements(AReg) /\ "gp" \notin Elements(AReg)
  /\ "sp" \notin Elements(Saved) /\ "fp" \in Elements(Saved)
  /\ "ra" \notin Elements(Saved) /\ "gp" \notin Elements(Saved)
  /\ "sp" \notin Elements(TReg) /\ "ra" \notin Elements(TReg) /\ "gp" \notin Elements(TReg)
  /\ Elements(Saved) \cap Elements(AtCall) = {} /\ "sp" \notin Elements(AtCall)
  /\ Elements(Saved) \cap Elements(TReg) = {} /\ Elements(Saved) \cap Elements(AReg) = {}
  /\ Elements(StackRegs) \cap Elements(AReg) = {}
  /\ Elements(Saved) \subseteq Register /\ Elements(AReg) \subseteq Register
  /\ Elements(StackRegs) \subseteq Register /\ Elements(AtCall) \subseteq Register
<1>1. \A s \in {SReg, TReg, AReg} : \A x \in {"sp", "fp", "ra", "gp", "temp1", "temp2"} :
        x \notin Elements(s)
  BY RegistersApart DEF Elements
<1>2. /\ Elements(SReg) \cap Elements(TReg) = {} /\ Elements(SReg) \cap Elements(AReg) = {}
      /\ Elements(TReg) \cap Elements(AReg) = {}
  BY CodeAssumption DEF Disjoint
<1> QED
  BY <1>1, <1>2, RegisterSets

-----------------------------------------------------------------------------
(* The frames of the activations.                                          *)

\* The numbers that the proofs about frames rest on.
LEMMA Numbers ==
  /\ StackTop \in Nat /\ GlobalBase \in Nat /\ GlobalBase > StackTop
  /\ Globals \in Nat /\ MainLocals \in Nat
  /\ MaxOperands \in Nat /\ MaxResult \in Nat /\ MaxResult >= 1 /\ MaxResult <= MaxOperands
  /\ Len(Saved) \in Nat /\ Len(AtCall) \in Nat /\ Len(AReg) \in Nat
  /\ Len(AtCall) >= 4
BY RegisterSequences, CodeAssumption

\* The lengths of the sequences of registers.
LEMMA Lengths ==
  /\ Len(SReg) \in Nat /\ Len(SReg) >= 1 /\ Len(TReg) \in Nat /\ Len(AReg) \in Nat /\ Len(AReg) >= 1
  /\ Len(StackRegs) \in Nat /\ Len(StackRegs) = Len(SReg) + Len(TReg)
  /\ Len(Saved) \in Nat /\ Len(Saved) = Len(SReg) + 1
  /\ Len(Temps) \in Nat /\ Len(Temps) = Len(TReg) + 3
  /\ Len(AtCall) \in Nat /\ Len(AtCall) = 1 + Len(Temps) + Len(AReg)
BY RegisterSequences

LEMMA EvenNumbers == Len(Saved) % 2 = 0 /\ Len(AtCall) % 2 = 0 /\ StackTop % 2 = 0
BY CodeAssumption

\* What an activation is.
LEMMA Activations ==
  ASSUME MachineOK, NEW j \in 1..Len(frames)
  PROVE  /\ frames[j].argc \in Nat /\ frames[j].locc \in Nat /\ frames[j].begun \in BOOLEAN
         /\ Len(frames[j].stack) \in Nat /\ Len(frames[j].stack) <= MaxOperands
         /\ frames[j].stack \in Seq(Elements(frames[j].stack))
         /\ on_stack(frames[j].argc) \in Nat
         /\ Len(frames) \in Nat \ {0}
<1>1. IsActivation(frames[j])
  BY DEF MachineOK
<1>2. frames[j].argc \in Nat /\ frames[j].stack \in Seq(Elements(frames[j].stack))
  BY <1>1 DEF IsActivation, IsSequence
<1>3. on_stack(frames[j].argc) \in Nat
  BY <1>2, Numbers DEF on_stack
<1> QED
  BY <1>1, <1>2, <1>3 DEF IsActivation, MachineOK

\* Frames are numbers, one below the other.
LEMMA FrameNumbers ==
  ASSUME MachineOK, CallsInOrder, FramesApart, NEW j \in 1..Len(frames)
  PROVE  /\ Base(j) \in Nat /\ FrameEnd(j) \in Nat /\ FrameEnd(j) <= Base(j) /\ Base(j) <= StackTop
         /\ frames[j].begun => FrameEnd(j) = Base(j) - (frames[j].locc + Len(Saved))
<1>1. Len(frames) \in Nat /\ frames[j].locc \in Nat /\ frames[j].begun \in BOOLEAN
  BY Activations
<1>2. ASSUME NEW k \in 1..Len(frames)
      PROVE  Base(k) \in Nat
  <2>1. CASE k = 1
    BY <2>1, Numbers DEF Base
  <2>2. CASE k # 1
    <3>1. k - 1 \in 1..Len(frames) /\ k - 1 < Len(frames)
      BY <1>1, <2>2
    <3>2. CallInPlace(k - 1)
      BY <3>1 DEF CallsInOrder, Suspended
    <3> QED
      BY <2>2, <3>2 DEF CallInPlace, Base
  <2> QED
    BY <2>1, <2>2
<1>3. ASSUME NEW k \in 1..Len(frames)
      PROVE  /\ FrameEnd(k) \in Nat /\ FrameEnd(k) <= Base(k)
             /\ frames[k].begun => FrameEnd(k) = Base(k) - (frames[k].locc + Len(Saved))
  <2>1. frames[k].locc \in Nat /\ FrameEnd(k) >= 0
    BY Activations DEF FramesApart
  <2> QED
    BY <1>2, <2>1, Numbers DEF FrameEnd
<1>4. Base(j) <= StackTop
  <2>1. CASE j = 1
    BY <2>1, Numbers DEF Base
  <2>2. CASE j # 1
    <3>1. 1 \in 1..Len(frames) /\ 1 < j /\ Base(1) = StackTop
      BY <1>1, <2>2 DEF Base
    <3>2. Base(j) + Len(AtCall) <= FrameEnd(1)
      BY <3>1 DEF FramesApart
    <3>3. FrameEnd(1) <= StackTop /\ FrameEnd(1) \in Nat
      BY <1>3, <3>1
    <3> QED
      BY <1>2, <3>2, <3>3, Numbers
  <2> QED
    BY <2>1, <2>2
<1> QED
  BY <1>2, <1>3, <1>4

\* A frame and its extra arguments lie below the words of the activations before.
LEMMA FramesBelow ==
  ASSUME MachineOK, CallsInOrder, FramesApart,
         NEW j \in 1..Len(frames), NEW m \in 1..Len(frames), j < m
  PROVE  Base(m) + on_stack(frames[m].argc) + Len(AtCall) <= FrameEnd(j)
<1>1. /\ m - 1 \in 1..Len(frames) /\ m - 1 < Len(frames) /\ m # 1
      /\ on_stack(frames[m].argc) \in Nat
  BY Activations
<1>2. CallInPlace(m - 1)
  BY <1>1 DEF CallsInOrder, Suspended
<1>3. on_stack(frames[m].argc) <= frames[m - 1].call.dropped
  BY <1>1 DEF FramesApart
<1>4. Base(m) = frames[m - 1].call.sp
  BY <1>1 DEF Base
<1>5. /\ FrameEnd(m - 1) \in Nat /\ FrameEnd(m - 1) <= Base(m - 1) /\ FrameEnd(j) \in Nat
      /\ Base(m - 1) \in Nat
  BY <1>1, FrameNumbers
<1>6. Base(m) + on_stack(frames[m].argc) + Len(AtCall) <= FrameEnd(m - 1)
  <2>1. /\ Base(m) \in Nat /\ frames[m - 1].call.dropped \in Nat
        /\ Base(m) + frames[m - 1].call.dropped + Len(AtCall) = FrameEnd(m - 1)
    BY <1>2, <1>4 DEF CallInPlace
  <2> QED
    <3>1. Len(AtCall) \in Nat /\ on_stack(frames[m].argc) \in Nat
      BY <1>1, Numbers
    <3>2. PICK b \in Nat, o \in Nat, d \in Nat, w \in Nat, e \in Nat :
            /\ b = Base(m) /\ o = on_stack(frames[m].argc) /\ d = frames[m - 1].call.dropped
            /\ w = Len(AtCall) /\ e = FrameEnd(m - 1)
      BY <1>5, <2>1, <3>1
    <3>3. o <= d /\ b + d + w = e
      BY <1>3, <2>1, <3>2
    <3>4. b + o + w <= e
      BY <3>3
    <3> QED
      BY <3>2, <3>4
<1>7. CASE j = m - 1
  BY <1>6, <1>7
<1>8. CASE j # m - 1
  <2>1. j < m - 1
    BY <1>8
  <2>2. Base(m - 1) + Len(AtCall) <= FrameEnd(j)
    BY <1>1, <2>1 DEF FramesApart
  <2>3. Base(m) \in Nat /\ Len(AtCall) \in Nat
    BY FrameNumbers, Numbers
  <2>4. PICK b \in Nat, o \in Nat, w \in Nat, e \in Nat, c \in Nat, d \in Nat :
          /\ b = Base(m) /\ o = on_stack(frames[m].argc) /\ w = Len(AtCall)
          /\ e = FrameEnd(m - 1) /\ c = Base(m - 1) /\ d = FrameEnd(j)
    BY <1>1, <1>5, <2>3
  <2>5. b + o + w <= e /\ e <= c /\ c + w <= d
    BY <1>5, <1>6, <2>2, <2>4
  <2>6. b + o + w <= d
    BY <2>5
  <2> QED
    BY <2>4, <2>6
<1> QED
  BY <1>7, <1>8

\* A saved register lies between the end of the frame and its locals.
LEMMA SavedWord ==
  ASSUME NEW b \in Nat, NEW l \in Nat, NEW k \in Nat, NEW i \in 1..k
  PROVE  /\ b - (i + l) \in Int /\ b - (i + l) < b - l
         /\ b - (l + k) <= b - (i + l) /\ b - (l + k) - 2 <= b - (i + l)
         /\ \A t \in Nat : b <= t => b - (i + l) <= t
OBVIOUS

\* What the calling convention depends on in an activation.
Alike(g, f) ==
  /\ g.argc = f.argc /\ g.locc = f.locc /\ g.begun = f.begun
  /\ g.stack = f.stack /\ g.call = f.call

\* A step that changes neither the activations below m nor words from the frame of
\* m upwards keeps what those activations rely on.
LEMMA LowerFrames ==
  ASSUME ConventionInvariant, pc # "exit", NEW m \in 1..Len(frames),
         \A j \in 1..m - 1 : Alike(frames'[j], frames[j]),
         \A a \in StackArea : a > Base(m) + on_stack(frames[m].argc) => mem'[a] = mem[a]
  PROVE  /\ \A j \in 1..m : Base(j)' = Base(j) /\ \A r : Found(j, r)' = Found(j, r)
         /\ \A j \in 1..m - 1 :
              FrameEnd(j)' = FrameEnd(j) /\ ReturnWords(j)' /\ CallWords(j)' /\ CallInPlace(j)'
<1>1. MachineOK /\ CallsInOrder /\ FramesApart /\ WordsHold
  BY DEF ConventionInvariant
<1>2. ASSUME NEW j \in 1..m
      PROVE  Base(j)' = Base(j) /\ \A r : Found(j, r)' = Found(j, r)
  <2>1. j = 1 \/ j - 1 \in 1..m - 1
    OBVIOUS
  <2> QED
    BY <2>1 DEF Base, Found, Alike
<1>3. ASSUME NEW j \in 1..m - 1
      PROVE  FrameEnd(j)' = FrameEnd(j) /\ ReturnWords(j)' /\ CallWords(j)' /\ CallInPlace(j)'
  <2>1. j \in 1..Len(frames) /\ j < m /\ j \in 1..m /\ j < Len(frames) /\ Len(frames) \in Nat
    BY <1>1, Activations
  <2>2. ReturnWords(j) /\ CallWords(j) /\ CallInPlace(j)
    BY <1>1, <2>1 DEF WordsHold, CallsInOrder, Suspended
  <2>3. Alike(frames'[j], frames[j]) /\ Base(j)' = Base(j) /\ FrameEnd(j)' = FrameEnd(j)
        /\ \A r : Found(j, r)' = Found(j, r)
    BY <1>2, <2>1 DEF FrameEnd, Alike
  <2>4. /\ Base(j) \in Nat /\ FrameEnd(j) \in Nat /\ FrameEnd(j) <= Base(j) /\ Base(j) <= StackTop
        /\ frames[j].begun => FrameEnd(j) = Base(j) - (frames[j].locc + Len(Saved))
        /\ Base(m) \in Nat /\ frames[j].locc \in Nat /\ on_stack(frames[m].argc) \in Nat
    BY <1>1, <2>1, FrameNumbers, Activations
  <2>5. Base(m) + on_stack(frames[m].argc) + Len(AtCall) <= FrameEnd(j)
    BY <1>1, <2>1, FramesBelow
  <2>6. \A a \in Int : FrameEnd(j) - 2 <= a /\ a <= StackTop => mem'[a] = mem[a]
    <3>1. StackTop \in Nat /\ Len(AtCall) \in Nat /\ Len(AtCall) >= 4
      BY Numbers
    <3>2. ASSUME NEW a \in Int, FrameEnd(j) - 2 <= a, a <= StackTop
          PROVE  a \in StackArea /\ a > Base(m) + on_stack(frames[m].argc)
      <4>1. PICK b \in Nat, o \in Nat, w \in Nat, e \in Nat, t \in Nat :
              /\ b = Base(m) /\ o = on_stack(frames[m].argc) /\ w = Len(AtCall)
              /\ e = FrameEnd(j) /\ t = StackTop
        BY <2>4, <3>1
      <4>2. b + o + w <= e /\ w >= 4 /\ e - 2 <= a /\ a <= t
        BY <2>5, <3>1, <3>2, <4>1
      <4>3. a \in 0..t /\ a > b + o
        BY <4>2
      <4> QED
        BY <4>1, <4>3 DEF StackArea
    <3> QED
      BY <3>2
  <2>7. CallWords(j)'
    <3>1. FrameEnd(j) - 1 \in Int /\ FrameEnd(j) - 2 \in Int /\ FrameEnd(j) - 2 <= FrameEnd(j) - 1
          /\ FrameEnd(j) - 1 <= StackTop /\ FrameEnd(j) - 2 <= StackTop
      <4>1. PICK e \in Nat, b \in Nat, t \in Nat : e = FrameEnd(j) /\ b = Base(j) /\ t = StackTop
        BY <2>4, Numbers
      <4>2. e <= b /\ b <= t
        BY <2>4, <4>1
      <4>3. /\ e - 1 \in Int /\ e - 2 \in Int /\ e - 2 <= e - 1 /\ e - 1 <= t /\ e - 2 <= t
        BY <4>2
      <4> QED
        BY <4>1, <4>3
    <3>2. mem'[FrameEnd(j) - 1] = mem[FrameEnd(j) - 1] /\ mem'[FrameEnd(j) - 2] = mem[FrameEnd(j) - 2]
      BY <2>6, <3>1
    <3> QED
      BY <2>2, <2>3, <3>2 DEF CallWords
  <2>8. ReturnWords(j)'
    <3>1. SUFFICES ASSUME frames[j].begun, NEW i \in 1..Len(Saved), Saved[i] \in Restored(j)
                   PROVE  mem'[Base(j) - (i + frames[j].locc)] = Found(j, Saved[i])
      BY <2>3 DEF ReturnWords, Restored, Alike
    <3>2. /\ Base(j) - (i + frames[j].locc) \in Int
          /\ FrameEnd(j) - 2 <= Base(j) - (i + frames[j].locc)
          /\ Base(j) - (i + frames[j].locc) <= StackTop
      <4>1. /\ FrameEnd(j) = Base(j) - (frames[j].locc + Len(Saved)) /\ frames[j].locc \in Nat
            /\ Base(j) \in Nat /\ Base(j) <= StackTop /\ StackTop \in Nat
        BY <2>4, <3>1, Numbers
      <4>2. Len(Saved) \in Nat
        BY Numbers
      <4> QED
        BY <4>1, <4>2, SavedWord
    <3>3. mem[Base(j) - (i + frames[j].locc)] = Found(j, Saved[i])
      BY <2>2, <3>1 DEF ReturnWords
    <3> QED
      BY <2>6, <3>2, <3>3
  <2>9. CallInPlace(j)'
    BY <2>2, <2>3 DEF CallInPlace, Alike
  <2> QED
    BY <2>3, <2>7, <2>8, <2>9
<1> QED
  BY <1>2, <1>3

\* The activations when the running one is replaced.
LEMMA RunningReplaced ==
  ASSUME MachineOK, NEW f, IsActivation(f), f.locc = F.locc,
         frames' = [frames EXCEPT ![Len(frames)] = f]
  PROVE  /\ Len(frames') = Len(frames) /\ IsSequence(frames') /\ frames'[Len(frames)] = f
         /\ \A j \in 1..Len(frames) - 1 : frames'[j] = frames[j]
         /\ \A j \in 1..Len(frames') : IsActivation(frames'[j])
         /\ frames'[1].locc = MainLocals /\ F' = f
<1>1. /\ Len(frames) \in Nat /\ Len(frames) >= 1 /\ frames \in Seq(Elements(frames))
      /\ \A j \in 1..Len(frames) : IsActivation(frames[j])
      /\ frames[1].locc = MainLocals
  BY DEF MachineOK, IsSequence
<1>2. PICK S : S = Elements(frames) \cup {f}
  OBVIOUS
<1>3. frames \in Seq(S) /\ f \in S
  BY <1>1, <1>2, SeqMonotonic
<1>4. frames' \in Seq(S) /\ Len(frames') = Len(frames)
  BY <1>1, <1>3
<1>5. \A j \in 1..Len(frames) : frames'[j] = IF j = Len(frames) THEN f ELSE frames[j]
  BY <1>1
<1>6. IsSequence(frames')
  BY <1>4, OwnElements
<1>7. frames'[1].locc = MainLocals
  BY <1>1, <1>5 DEF F
<1>8. F' = f
  BY <1>1, <1>4, <1>5 DEF F
<1>9. \A j \in 1..Len(frames) : IsActivation(frames'[j])
  BY <1>1, <1>5
<1>10. /\ frames'[Len(frames)] = f
       /\ \A j \in 1..Len(frames) - 1 : frames'[j] = frames[j]
  BY <1>1, <1>5
<1> QED
  BY <1>4, <1>6, <1>7, <1>8, <1>9, <1>10

\* A step that keeps the number of activations keeps the calling convention when the
\* running one is left as it has to be.
LEMMA SameActivations ==
  ASSUME ConventionInvariant, pc # "exit", NEW n, n = Len(frames), NEW f, IsActivation(f),
         f.argc = F.argc, f.locc = F.locc, frames' = [frames EXCEPT ![n] = f],
         DOMAIN reg' = Register,
         DOMAIN mem' = DOMAIN mem, DOMAIN globals' = DOMAIN globals,
         \A a \in StackArea : a > Base(n) + on_stack(F.argc) => mem'[a] = mem[a],
         pc' \in {"entry", "body", "runtime", "returned", "exit"},
         pc' = "exit" => n = 1,
         pc' = "entry" => ~f.begun, pc' \in {"body", "exit"} => f.begun,
         pc' \in {"runtime", "returned"} => f.begun \/ n = 1,
         FrameEnd(n)' >= 0,
         pc' \in {"runtime", "returned"} => CallInPlace(n)' /\ CallWords(n)',
         pc' # "exit" => ReturnWords(n)',
         RegistersHold'
  PROVE  ConventionInvariant'
<1>1. MachineOK /\ CallsInOrder /\ FramesApart
  BY DEF ConventionInvariant
<1>2. /\ Len(frames') = n /\ IsSequence(frames') /\ frames'[n] = f
      /\ \A j \in 1..n - 1 : frames'[j] = frames[j]
      /\ \A j \in 1..n : IsActivation(frames'[j])
      /\ frames'[1].locc = MainLocals /\ F' = f
  BY <1>1, RunningReplaced
<1>3. n \in Nat /\ n >= 1 /\ n \in 1..n /\ n <= MaxFrames /\ F = frames[n]
  BY <1>1 DEF MachineOK, F
<1>4. /\ \A j \in 1..n : Base(j)' = Base(j)
      /\ \A j \in 1..n - 1 :
           FrameEnd(j)' = FrameEnd(j) /\ ReturnWords(j)' /\ CallWords(j)' /\ CallInPlace(j)'
  BY <1>1, <1>2, <1>3, LowerFrames DEF Alike
<1>5. \A j \in 1..n : j = n \/ j \in 1..n - 1
  BY <1>3
<1>6. \A j \in 1..n : Suspended(j)' <=> j < n \/ pc' \in {"runtime", "returned"}
  BY <1>2 DEF Suspended
<1>7. \A j \in 1..n - 1 : Suspended(j) /\ j # n /\ j \in 1..Len(frames)
  BY <1>3 DEF Suspended
<1>8. MachineOK'
  <2>1. ASSUME NEW j \in 1..n, Suspended(j)'
        PROVE  frames'[j].begun \/ (j = 1 /\ n = 1)
    <3>1. CASE j = n
      BY <1>2, <1>6, <2>1, <3>1
    <3>2. CASE j \in 1..n - 1
      <4>1. frames[j].begun \/ (j = 1 /\ n = 1)
        BY <1>1, <1>7, <3>2 DEF MachineOK
      <4> QED
        BY <1>2, <3>2, <4>1
    <3> QED
      BY <1>5, <3>1, <3>2
  <2>2. DOMAIN mem' = StackArea \cup GlobalArea /\ DOMAIN globals' = 0..Globals - 1
    BY <1>1 DEF MachineOK
  <2> QED
    BY <1>2, <1>3, <2>1, <2>2 DEF MachineOK
<1>9. CallsInOrder'
  BY <1>2, <1>4, <1>5, <1>6 DEF CallsInOrder
<1>10. FramesApart'
  <2>1. \A j \in 1..n : (IF j = 1 THEN 0 ELSE frames'[j - 1].call.dropped)
                          = (IF j = 1 THEN 0 ELSE frames[j - 1].call.dropped)
    <3>1. \A j \in 1..n : j = 1 \/ j - 1 \in 1..n - 1
      BY <1>3
    <3> QED
      BY <1>2, <3>1
  <2>2. ASSUME NEW i \in 1..n, NEW j \in 1..n, i < j
        PROVE  Base(j)' + Len(AtCall) <= FrameEnd(i)'
    <3>1. i \in 1..n - 1
      BY <1>3, <2>2
    <3>2. Base(j) + Len(AtCall) <= FrameEnd(i)
      BY <1>1, <2>2 DEF FramesApart
    <3> QED
      BY <1>4, <3>1, <3>2
  <2>3. ASSUME NEW j \in 1..n
        PROVE  FrameEnd(j)' >= 0
    <3>1. FrameEnd(j) >= 0
      BY <1>1 DEF FramesApart
    <3> QED
      BY <1>4, <1>5, <3>1
  <2>4. ASSUME NEW j \in 1..n
        PROVE  on_stack(frames'[j].argc) <= IF j = 1 THEN 0 ELSE frames'[j - 1].call.dropped
    <3>1. on_stack(frames[j].argc) <= IF j = 1 THEN 0 ELSE frames[j - 1].call.dropped
      BY <1>1 DEF FramesApart
    <3>2. frames'[j].argc = frames[j].argc
      BY <1>2, <1>3, <1>5
    <3> QED
      BY <2>1, <3>1, <3>2
  <2> QED
    BY <1>2, <2>2, <2>3, <2>4 DEF FramesApart
<1>11. WordsHold'
  BY <1>2, <1>4, <1>5, <1>6 DEF WordsHold
<1> QED
  BY <1>8, <1>9, <1>10, <1>11 DEF ConventionInvariant

\* A step in the body of a function keeps the calling convention when it writes
\* locals, extra arguments, and registers and words that nobody relies on.
LEMMA BodySteps ==
  ASSUME ConventionInvariant, Running, pc' = "body", NEW f, IsActivation(f),
         f.argc = F.argc, f.locc = F.locc, f.begun = F.begun,
         frames' = [frames EXCEPT ![Len(frames)] = f],
         DOMAIN reg' = Register, \A x \in {"sp", "fp", "ra", "gp"} : reg'[x] = reg[x],
         DOMAIN mem' = DOMAIN mem, DOMAIN globals' = DOMAIN globals,
         \A a \in StackArea : \/ a > Base(Len(frames)) + on_stack(F.argc)
                              \/ FrameEnd(Len(frames)) <= a /\ a < Base(Len(frames)) - F.locc
                              => mem'[a] = mem[a]
  PROVE  ConventionInvariant'
<1>0. PICK n : n = Len(frames)
  OBVIOUS
<1>1. MachineOK /\ CallsInOrder /\ FramesApart /\ WordsHold /\ RegistersHold /\ pc = "body"
  BY DEF ConventionInvariant, Running
<1>2. /\ Len(frames') = n /\ frames'[n] = f
      /\ \A j \in 1..n - 1 : frames'[j] = frames[j]
  BY <1>0, <1>1, RunningReplaced
<1>3. n \in Nat /\ n >= 1 /\ n \in 1..n /\ F = frames[n] /\ F.begun
  BY <1>0, <1>1 DEF MachineOK, F
<1>4. Base(n)' = Base(n) /\ \A r : Found(n, r)' = Found(n, r)
  BY <1>0, <1>1, <1>2, <1>3, LowerFrames DEF Alike
<1>5. /\ Base(n) \in Nat /\ FrameEnd(n) \in Nat /\ Base(n) <= StackTop /\ F.locc \in Nat
      /\ FrameEnd(n) = Base(n) - (F.locc + Len(Saved))
  BY <1>0, <1>1, <1>3, FrameNumbers, Activations
<1>6. FrameEnd(n)' = FrameEnd(n)
  <2>1. FrameEnd(n)' = Base(n)' - (frames'[n].locc + Len(Saved))
    BY <1>2, <1>3 DEF FrameEnd
  <2> QED
    BY <1>2, <1>4, <1>5, <2>1
<1>7. RegistersHold'
  <2>1. reg["fp"] = Base(n) /\ reg["sp"] = FrameEnd(n) /\ reg["ra"] = Return(n) /\ reg["gp"] = GlobalBase
    BY <1>0, <1>1 DEF RegistersHold
  <2> QED
    BY <1>2, <1>4, <1>6, <2>1 DEF RegistersHold
<1>8. ReturnWords(n)'
  <2>1. SUFFICES ASSUME NEW i \in 1..Len(Saved), Saved[i] \in Restored(n)
                 PROVE  mem'[Base(n) - (i + F.locc)] = Found(n, Saved[i])
    BY <1>2, <1>3, <1>4 DEF ReturnWords, Restored
  <2>2. mem[Base(n) - (i + F.locc)] = Found(n, Saved[i])
    BY <1>0, <1>1, <1>3, <2>1 DEF WordsHold, ReturnWords
  <2>3. i \in Nat /\ i >= 1 /\ i <= Len(Saved) /\ Len(Saved) \in Nat
    BY Numbers
  <2>4. /\ Base(n) - (i + F.locc) \in Nat /\ Base(n) - (i + F.locc) <= StackTop
        /\ FrameEnd(n) <= Base(n) - (i + F.locc) /\ Base(n) - (i + F.locc) < Base(n) - F.locc
    <3>1. PICK b \in Nat, l \in Nat, w \in Nat, t \in Nat, e \in Nat :
            b = Base(n) /\ l = F.locc /\ w = Len(Saved) /\ t = StackTop /\ e = FrameEnd(n)
      BY <1>5, <2>3, Numbers
    <3>2. b <= t /\ e = b - (l + w) /\ i <= w
      BY <1>5, <2>3, <3>1
    <3>3. b - (i + l) \in Nat /\ b - (i + l) <= t /\ e <= b - (i + l) /\ b - (i + l) < b - l
      BY <2>3, <3>2
    <3> QED
      BY <3>1, <3>3
  <2>5. Base(n) - (i + F.locc) \in StackArea
    BY <2>4, Numbers DEF StackArea
  <2> QED
    BY <1>0, <2>2, <2>4, <2>5
<1>9. FrameEnd(n)' >= 0 /\ f.begun /\ ~(pc' \in {"runtime", "returned"})
  BY <1>3, <1>5, <1>6
<1> QED
  BY <1>0, <1>1, <1>7, <1>8, <1>9, SameActivations

-----------------------------------------------------------------------------
(* What an instruction writes.                                             *)

LEMMA WrittenCell ==
  ASSUME NEW r, NEW k \in Nat, NEW w, DOMAIN r = Register, in_register(k)
  PROVE  /\ Written(r, k, w)[StackRegs[k + 1]] = w
         /\ \A i \in 1..Len(StackRegs) :
              i # k + 1 => Written(r, k, w)[StackRegs[i]] = r[StackRegs[i]]
<1>1. k + 1 \in 1..Len(StackRegs)
  BY Lengths DEF in_register
<1>2. \A i \in 1..Len(StackRegs) : StackRegs[i] \in Register
  BY SpecialRegisters DEF Elements
<1>3. Written(r, k, w) = [r EXCEPT ![StackRegs[k + 1]] = w]
  BY DEF Written
<1>4. \A i \in 1..Len(StackRegs) : i # k + 1 => StackRegs[i] # StackRegs[k + 1]
  BY <1>1, StackRegsOnce
<1> QED
  BY <1>1, <1>2, <1>3, <1>4

LEMMA WrittenElsewhere ==
  ASSUME NEW r, NEW k \in Nat, NEW w, DOMAIN r = Register
  PROVE  /\ DOMAIN Written(r, k, w) = Register
         /\ \A x \in Register \ Elements(StackRegs) : Written(r, k, w)[x] = r[x]
<1>1. CASE ~in_register(k)
  BY <1>1 DEF Written
<1>2. CASE in_register(k)
  <2>1. StackRegs[k + 1] \in Elements(StackRegs)
    BY <1>2, Lengths DEF in_register, Elements
  <2>2. Written(r, k, w) = [r EXCEPT ![StackRegs[k + 1]] = w]
    BY <1>2 DEF Written
  <2> QED
    BY <2>1, <2>2
<1> QED
  BY <1>1, <1>2

LEMMA WrittenKeeps ==
  ASSUME NEW r, NEW k \in Nat, NEW w, DOMAIN r = Register
  PROVE  /\ DOMAIN Written(r, k, w) = Register
         /\ \A x \in {"sp", "fp", "ra", "gp"} : Written(r, k, w)[x] = r[x]
<1>1. /\ DOMAIN Written(r, k, w) = Register
      /\ \A x \in Register \ Elements(StackRegs) : Written(r, k, w)[x] = r[x]
  BY WrittenElsewhere
<1> QED
  BY <1>1, SpecialRegisters

LEMMA LiveRegsKeeps ==
  ASSUME NEW r, NEW n \in Nat
  PROVE  /\ DOMAIN LiveRegs(r, n) = Register
         /\ \A x \in Register : x \notin Elements(StackRegs) => LiveRegs(r, n)[x] = r[x]
         /\ \A i \in 1..Len(StackRegs) : i <= n => LiveRegs(r, n)[StackRegs[i]] = r[StackRegs[i]]
<1>1. Len(StackRegs) \in Nat
  BY Lengths
<1>2. \A k \in n + 1..Len(StackRegs) : k \in 1..Len(StackRegs) /\ k > n
  BY <1>1
<1>3. \A k \in 1..Len(StackRegs) : StackRegs[k] \in Elements(StackRegs)
  BY DEF Elements
<1>4. ASSUME NEW x \in Register, x \notin Elements(StackRegs)
      PROVE  LiveRegs(r, n)[x] = r[x]
  BY <1>2, <1>3, <1>4 DEF LiveRegs
<1>5. ASSUME NEW i \in 1..Len(StackRegs), i <= n
      PROVE  LiveRegs(r, n)[StackRegs[i]] = r[StackRegs[i]]
  <2>1. \A k \in n + 1..Len(StackRegs) : StackRegs[k] # StackRegs[i]
    BY <1>1, <1>2, <1>5, StackRegsOnce
  <2>2. StackRegs[i] \in Register
    BY <1>3, SpecialRegisters
  <2> QED
    BY <2>1, <2>2 DEF LiveRegs
<1> QED
  BY <1>4, <1>5 DEF LiveRegs

LEMMA StoredKeeps ==
  ASSUME NEW m, NEW a, NEW w
  PROVE  /\ DOMAIN Stored(m, a, w) = DOMAIN m
         /\ \A b \in DOMAIN m : b # a => Stored(m, a, w)[b] = m[b]
         /\ a \in DOMAIN m => Stored(m, a, w)[a] = w
BY DEF Stored

LEMMA LiveMemKeeps ==
  ASSUME NEW m, NEW sp \in Int, NEW n
  PROVE  /\ DOMAIN LiveMem(m, sp, n) = DOMAIN m
         /\ \A a \in DOMAIN m : a \notin StackArea \/ a >= sp => LiveMem(m, sp, n)[a] = m[a]
<1>1. \A a \in DOMAIN m : a \in StackArea /\ a >= sp => ~(a < sp)
  BY Numbers DEF StackArea
<1> QED
  BY <1>1 DEF LiveMem

\* The running activation with another stack.
LEMMA NewStack ==
  ASSUME MachineOK, NEW S, NEW s \in Seq(S), Len(s) <= MaxOperands,
         frames' = With(s)
  PROVE  \E f : /\ frames' = [frames EXCEPT ![Len(frames)] = f]
                /\ IsActivation(f) /\ f.stack = s
                /\ f.argc = F.argc /\ f.locc = F.locc /\ f.begun = F.begun
                /\ f.args = F.args /\ f.locals = F.locals
<1>1. IsActivation(F) /\ Len(frames) \in 1..Len(frames)
  BY DEF MachineOK, F
<1>2. PICK f : f = [F EXCEPT !.stack = s]
  OBVIOUS
<1>3. f = [argc |-> F.argc, locc |-> F.locc, begun |-> F.begun, stack |-> s,
           args |-> F.args, locals |-> F.locals, call |-> F.call, result |-> F.result]
  <2>1. PICK g : g = F
    OBVIOUS
  <2>2. g = [argc |-> g.argc, locc |-> g.locc, begun |-> g.begun, stack |-> g.stack,
             args |-> g.args, locals |-> g.locals, call |-> g.call, result |-> g.result]
    BY <1>1, <2>1 DEF IsActivation
  <2> QED
    BY <1>2, <2>1, <2>2
<1>4. IsSequence(s)
  BY OwnElements
<1>5. IsActivation(f)
  BY <1>1, <1>3, <1>4 DEF IsActivation
<1>6. frames' = [frames EXCEPT ![Len(frames)] = f]
  BY <1>2 DEF With, F
<1>7. /\ f.stack = s /\ f.argc = F.argc /\ f.locc = F.locc /\ f.begun = F.begun
      /\ f.args = F.args /\ f.locals = F.locals
  BY <1>3
<1> QED
  BY <1>5, <1>6, <1>7

LEMMA StackSteps ==
  ASSUME ConventionInvariant, Running, pc' = "body",
         NEW S, NEW s \in Seq(S), Len(s) <= MaxOperands, frames' = With(s),
         DOMAIN reg' = Register, \A x \in {"sp", "fp", "ra", "gp"} : reg'[x] = reg[x],
         DOMAIN mem' = DOMAIN mem, DOMAIN globals' = DOMAIN globals,
         \A a \in StackArea : a >= reg["sp"] => mem'[a] = mem[a]
  PROVE  ConventionInvariant'
<1>1. MachineOK /\ CallsInOrder /\ FramesApart /\ RegistersHold /\ pc = "body"
  BY DEF ConventionInvariant, Running
<1>2. PICK f : /\ frames' = [frames EXCEPT ![Len(frames)] = f]
               /\ IsActivation(f) /\ f.argc = F.argc /\ f.locc = F.locc /\ f.begun = F.begun
  BY <1>1, NewStack
<1>3. /\ Len(frames) \in 1..Len(frames) /\ reg["sp"] = FrameEnd(Len(frames))
      /\ F = frames[Len(frames)]
  BY <1>1 DEF MachineOK, RegistersHold, F
<1>4. /\ Base(Len(frames)) \in Nat /\ FrameEnd(Len(frames)) \in Nat
      /\ FrameEnd(Len(frames)) <= Base(Len(frames)) /\ on_stack(F.argc) \in Nat
  BY <1>1, <1>3, FrameNumbers, Activations
<1>5. ASSUME NEW a \in StackArea, \/ a > Base(Len(frames)) + on_stack(F.argc)
                                  \/ FrameEnd(Len(frames)) <= a
      PROVE  mem'[a] = mem[a]
  <2>1. a \in Nat
    BY Numbers DEF StackArea
  <2>2. a >= FrameEnd(Len(frames))
    BY <1>4, <1>5, <2>1
  <2> QED
    BY <1>3, <2>2
<1> QED
  BY <1>2, <1>5, BodySteps

\* What an instruction starts from, when every operand has a register.
LEMMA AtInstruction ==
  ASSUME ConventionInvariant, OperandsInRegisters, Running
  PROVE  /\ MachineOK /\ pc = "body" /\ DOMAIN reg = Register
         /\ DOMAIN mem = StackArea \cup GlobalArea
         /\ StackArea \cap GlobalArea = {}
         /\ top \in Nat /\ top <= MaxOperands /\ F.stack \in Seq(Elements(F.stack))
         /\ \A k \in Nat : k < top \/ (k = top /\ Room) => in_register(k)
         /\ \A k \in Nat : k <= MaxOperands => spilled_count(k) = 0
         /\ reg["sp"] \in Nat /\ reg["fp"] \in Nat /\ reg["sp"] = FrameEnd(Len(frames))
         /\ reg["fp"] = Base(Len(frames)) /\ reg["fp"] <= StackTop
         /\ reg["sp"] = reg["fp"] - (F.locc + Len(Saved))
         /\ F = frames[Len(frames)] /\ Len(frames) \in 1..Len(frames)
         /\ F.argc \in Nat /\ F.locc \in Nat /\ DOMAIN F.locals \subseteq 0..F.locc - 1
         /\ F.begun /\ DOMAIN globals = 0..Globals - 1 /\ reg["gp"] = GlobalBase
<1>1. MachineOK /\ CallsInOrder /\ FramesApart /\ RegistersHold /\ pc = "body"
  BY DEF ConventionInvariant, Running
<1>2. /\ F = frames[Len(frames)] /\ Len(frames) \in 1..Len(frames) /\ IsActivation(F) /\ F.begun
      /\ DOMAIN reg = Register /\ DOMAIN mem = StackArea \cup GlobalArea
  BY <1>1 DEF MachineOK, F
<1>3. /\ top \in Nat /\ top <= MaxOperands /\ F.stack \in Seq(Elements(F.stack))
      /\ F.argc \in Nat /\ F.locc \in Nat /\ DOMAIN F.locals \subseteq 0..F.locc - 1
  BY <1>2 DEF IsActivation, IsSequence, top
<1>4. MaxOperands \in Nat /\ Len(StackRegs) \in Nat /\ MaxOperands <= Len(StackRegs)
  BY Numbers, Lengths DEF OperandsInRegisters
<1>5. \A k \in Nat : k < top \/ (k = top /\ Room) => in_register(k)
  BY <1>3, <1>4 DEF in_register, Room
<1>6. \A k \in Nat : k <= MaxOperands => spilled_count(k) = 0
  BY <1>4 DEF spilled_count
<1>7. reg["sp"] = FrameEnd(Len(frames)) /\ reg["fp"] = Base(Len(frames))
  BY <1>1 DEF RegistersHold
<1>8. /\ Base(Len(frames)) \in Nat /\ FrameEnd(Len(frames)) \in Nat /\ Base(Len(frames)) <= StackTop
      /\ FrameEnd(Len(frames)) = Base(Len(frames)) - (F.locc + Len(Saved))
  BY <1>1, <1>2, FrameNumbers
<1>9. DOMAIN globals = 0..Globals - 1 /\ reg["gp"] = GlobalBase
  BY <1>1 DEF MachineOK, RegistersHold
<1>10. StackArea \cap GlobalArea = {}
  BY Numbers DEF StackArea, GlobalArea
<1> QED
  BY <1>1, <1>2, <1>3, <1>5, <1>6, <1>7, <1>8, <1>9, <1>10

\* An instruction whose result gets the cell behind the last operand.
LEMMA Pushes ==
  ASSUME ConventionInvariant, OperandsInRegisters, Running, Room, pc' = pc,
         NEW v, frames' = With(Append(F.stack, v)),
         NEW w, reg' = Written(reg, top, w), mem' = mem, globals' = globals
  PROVE  ConventionInvariant'
<1>1. /\ DOMAIN reg = Register /\ top \in Nat /\ top <= MaxOperands
      /\ F.stack \in Seq(Elements(F.stack)) /\ pc = "body"
  BY AtInstruction
<1>2. PICK S : S = Elements(F.stack) \cup {v}
  OBVIOUS
<1>3. F.stack \in Seq(S) /\ v \in S
  BY <1>1, <1>2, SeqMonotonic
<1>4. Append(F.stack, v) \in Seq(S) /\ Len(Append(F.stack, v)) = top + 1
  BY <1>3 DEF top
<1>5. Len(Append(F.stack, v)) <= MaxOperands
  BY <1>1, <1>4, Numbers DEF Room
<1>6. DOMAIN reg' = Register /\ \A x \in {"sp", "fp", "ra", "gp"} : reg'[x] = reg[x]
  <2>1. DOMAIN reg = Register /\ top \in Nat
    BY <1>1
  <2> QED
    BY <2>1, WrittenKeeps
<1> QED
  BY <1>1, <1>4, <1>5, <1>6, StackSteps

LEMMA ConstKeeps ==
  ASSUME ConventionInvariant, OperandsInRegisters, Const
  PROVE  ConventionInvariant'
<1>1. in_register(top)
  BY AtInstruction DEF Const
<1> QED
  BY <1>1, Pushes DEF Const

LEMMA LoadKeeps ==
  ASSUME ConventionInvariant, OperandsInRegisters, LoadArg \/ LoadLocal \/ LoadGlobal
  PROVE  ConventionInvariant'
BY Pushes DEF LoadArg, LoadLocal, LoadGlobal

LEMMA DuplicateKeeps ==
  ASSUME ConventionInvariant, OperandsInRegisters, Duplicate
  PROVE  ConventionInvariant'
BY Pushes DEF Duplicate

LEMMA DropKeeps ==
  ASSUME ConventionInvariant, OperandsInRegisters, Drop
  PROVE  ConventionInvariant'
<1>1. Running /\ top >= 1 /\ pc' = "body" /\ globals' = globals
  BY DEF Drop, Running
<1>2. /\ DOMAIN mem = StackArea \cup GlobalArea /\ top \in Nat /\ top <= MaxOperands
      /\ F.stack \in Seq(Elements(F.stack)) /\ reg["sp"] \in Nat
  BY <1>1, AtInstruction
<1>3. /\ Popped(1) \in Seq(Elements(F.stack)) /\ Len(Popped(1)) = top - 1
  BY <1>1, <1>2 DEF Popped, top
<1>4. DOMAIN reg' = Register /\ \A x \in {"sp", "fp", "ra", "gp"} : reg'[x] = reg[x]
  <2>1. top - 1 \in Nat
    BY <1>1, <1>2
  <2> QED
    BY <2>1, LiveRegsKeeps, SpecialRegisters DEF Drop
<1>5. DOMAIN mem' = DOMAIN mem /\ \A a \in StackArea : a >= reg["sp"] => mem'[a] = mem[a]
  BY <1>2, LiveMemKeeps DEF Drop
<1>6. Len(Popped(1)) <= MaxOperands
  BY <1>2, <1>3, Numbers
<1> QED
  BY <1>1, <1>3, <1>4, <1>5, <1>6, StackSteps DEF Drop

LEMMA SwapKeeps ==
  ASSUME ConventionInvariant, OperandsInRegisters, Swap
  PROVE  ConventionInvariant'
<1>1. Running /\ top >= 2 /\ pc' = "body" /\ mem' = mem /\ globals' = globals
  BY DEF Swap, Running
<1>2. /\ DOMAIN reg = Register /\ top \in Nat /\ top <= MaxOperands
      /\ F.stack \in Seq(Elements(F.stack))
  BY <1>1, AtInstruction
<1>3. PICK S : S = Elements(F.stack)
  OBVIOUS
<1>4. PICK x, y : x = Operand(top - 1) /\ y = Operand(top - 2)
  OBVIOUS
<1>5. x \in S /\ y \in S
  <2>1. top \in 1..Len(F.stack) /\ top - 1 \in 1..Len(F.stack)
        /\ x = F.stack[top] /\ y = F.stack[top - 1]
    BY <1>1, <1>2, <1>4 DEF Operand, top
  <2> QED
    BY <1>3, <2>1 DEF Elements
<1>6. Popped(2) \in Seq(S) /\ Len(Popped(2)) = top - 2
  BY <1>1, <1>2, <1>3 DEF Popped, top
<1>7. PICK q : q = <<x, y>>
  OBVIOUS
<1>8. q \in Seq(S) /\ Len(q) = 2
  BY <1>5, <1>7
<1>9. Popped(2) \o q \in Seq(S) /\ Len(Popped(2) \o q) = Len(Popped(2)) + Len(q)
  <2>1. q \in Seq(S)
    BY <1>8
  <2> QED
    BY <1>6, <2>1, Joined
<1>10. Len(Popped(2) \o q) <= MaxOperands
  BY <1>1, <1>2, <1>6, <1>8, <1>9, Numbers
<1>11. DOMAIN reg' = Register /\ \A r \in {"sp", "fp", "ra", "gp"} : reg'[r] = reg[r]
  <2>1. top - 1 \in Nat /\ top - 2 \in Nat
    BY <1>1, <1>2
  <2>2. PICK u, v : reg' = Written(Written(reg, top - 1, u), top - 2, v)
    BY DEF Swap
  <2> QED
    BY <1>2, <2>1, <2>2, WrittenKeeps
<1>12. frames' = With(Popped(2) \o q)
  BY <1>4, <1>7 DEF Swap
<1> QED
  BY <1>1, <1>9, <1>10, <1>11, <1>12, StackSteps

LEMMA BinopKeeps ==
  ASSUME ConventionInvariant, OperandsInRegisters, Binop
  PROVE  ConventionInvariant'
<1>1. Running /\ top >= 2 /\ pc' = "body" /\ globals' = globals
  BY DEF Binop, Running
<1>2. /\ DOMAIN reg = Register /\ DOMAIN mem = StackArea \cup GlobalArea
      /\ top \in Nat /\ top <= MaxOperands
      /\ F.stack \in Seq(Elements(F.stack)) /\ reg["sp"] \in Nat
      /\ \A k \in Nat : k < top \/ (k = top /\ Room) => in_register(k)
  BY <1>1, AtInstruction
<1>3. PICK v, w : /\ frames' = With(Append(Popped(2), v))
                  /\ reg' = LiveRegs(Written(reg, top - 2, w), top - 1)
  BY DEF Binop
<1>4. in_register(top - 2)
  BY <1>1, <1>2
<1>5. mem' = LiveMem(mem, reg["sp"], top - 1)
  BY <1>4 DEF Binop, StoredBack
<1>6. PICK S : S = Elements(F.stack) \cup {v}
  OBVIOUS
<1>7. F.stack \in Seq(S) /\ v \in S
  BY <1>2, <1>6, SeqMonotonic
<1>8. Popped(2) \in Seq(S) /\ Len(Popped(2)) = top - 2
  BY <1>1, <1>2, <1>7 DEF Popped, top
<1>9. Append(Popped(2), v) \in Seq(S) /\ Len(Append(Popped(2), v)) = top - 1
  BY <1>2, <1>7, <1>8
<1>10. Len(Append(Popped(2), v)) <= MaxOperands
  BY <1>2, <1>9, Numbers
<1>11. DOMAIN reg' = Register /\ \A r \in {"sp", "fp", "ra", "gp"} : reg'[r] = reg[r]
  <2>1. top - 1 \in Nat /\ top - 2 \in Nat
    BY <1>1, <1>2
  <2> QED
    BY <1>2, <1>3, <2>1, WrittenKeeps, LiveRegsKeeps, SpecialRegisters
<1>12. DOMAIN mem' = DOMAIN mem /\ \A a \in StackArea : a >= reg["sp"] => mem'[a] = mem[a]
  BY <1>2, <1>5, LiveMemKeeps
<1> QED
  BY <1>1, <1>3, <1>9, <1>10, <1>11, <1>12, StackSteps

\* The fields of an activation, one of which an instruction replaces.
LEMMA ArgsReplaced ==
  ASSUME NEW g, IsActivation(g), NEW a, NEW f, f = [g EXCEPT !.args = a]
  PROVE  /\ IsActivation(f)
         /\ f.argc = g.argc /\ f.locc = g.locc /\ f.begun = g.begun /\ f.stack = g.stack
         /\ f.args = a /\ f.locals = g.locals
<1>1. PICK argc, locc, begun, stack, args, locals, call, result :
        g = [argc |-> argc, locc |-> locc, begun |-> begun, stack |-> stack,
             args |-> args, locals |-> locals, call |-> call, result |-> result]
  BY DEF IsActivation
<1>2. f = [argc |-> argc, locc |-> locc, begun |-> begun, stack |-> stack,
           args |-> a, locals |-> locals, call |-> call, result |-> result]
  BY <1>1
<1>3. /\ f.argc = g.argc /\ f.locc = g.locc /\ f.begun = g.begun /\ f.stack = g.stack
      /\ f.args = a /\ f.locals = g.locals
  BY <1>1, <1>2
<1>4. IsActivation(f)
  BY <1>2, <1>3 DEF IsActivation
<1> QED
  BY <1>3, <1>4

LEMMA LocalsReplaced ==
  ASSUME NEW g, IsActivation(g), NEW l, DOMAIN l \subseteq 0..g.locc - 1,
         NEW f, f = [g EXCEPT !.locals = l]
  PROVE  /\ IsActivation(f)
         /\ f.argc = g.argc /\ f.locc = g.locc /\ f.begun = g.begun /\ f.stack = g.stack
         /\ f.args = g.args /\ f.locals = l
<1>1. PICK argc, locc, begun, stack, args, locals, call, result :
        g = [argc |-> argc, locc |-> locc, begun |-> begun, stack |-> stack,
             args |-> args, locals |-> locals, call |-> call, result |-> result]
  BY DEF IsActivation
<1>2. f = [argc |-> argc, locc |-> locc, begun |-> begun, stack |-> stack,
           args |-> args, locals |-> l, call |-> call, result |-> result]
  BY <1>1
<1>3. /\ f.argc = g.argc /\ f.locc = g.locc /\ f.begun = g.begun /\ f.stack = g.stack
      /\ f.args = g.args /\ f.locals = l
  BY <1>1, <1>2
<1>4. IsActivation(f)
  BY <1>2, <1>3 DEF IsActivation
<1> QED
  BY <1>3, <1>4

LEMMA StoreArgKeeps ==
  ASSUME ConventionInvariant, OperandsInRegisters, StoreArg
  PROVE  ConventionInvariant'
<1>1. Running /\ top >= 1 /\ pc' = "body" /\ globals' = globals
  BY DEF StoreArg, Running
<1>2. /\ MachineOK /\ DOMAIN reg = Register /\ DOMAIN mem = StackArea \cup GlobalArea
      /\ top \in Nat /\ reg["fp"] \in Nat /\ reg["fp"] = Base(Len(frames))
      /\ F.argc \in Nat /\ F.locc \in Nat
      /\ F = frames[Len(frames)] /\ Len(frames) \in 1..Len(frames)
  BY <1>1, AtInstruction
<1>3. PICK i \in 0..F.argc - 1 :
        /\ reg' = IF i < Len(AReg) THEN Written(reg, top - 1, reg[AReg[i + 1]]) ELSE reg
        /\ mem' = IF i < Len(AReg) THEN mem
                  ELSE Stored(mem, reg["fp"] + (i - Len(AReg)), Cell(top - 1))
        /\ frames' = [frames EXCEPT ![Len(frames)].args[i + 1] = Operand(top - 1)]
  BY DEF StoreArg
<1>4. DOMAIN reg' = Register /\ \A r \in {"sp", "fp", "ra", "gp"} : reg'[r] = reg[r]
  <2>1. top - 1 \in Nat
    BY <1>1, <1>2
  <2> QED
    BY <1>2, <1>3, <2>1, WrittenKeeps
<1>5. DOMAIN mem' = DOMAIN mem
  BY <1>3, StoredKeeps
<1>6. ASSUME NEW a \in StackArea,
             \/ a > Base(Len(frames)) + on_stack(F.argc)
             \/ a < Base(Len(frames)) - F.locc
      PROVE  mem'[a] = mem[a]
  <2>1. CASE i < Len(AReg)
    BY <1>3, <2>1
  <2>2. CASE ~(i < Len(AReg))
    <3>1. on_stack(F.argc) = F.argc - Len(AReg) /\ Len(AReg) \in Nat
      BY <1>2, <2>2, Numbers DEF on_stack
    <3>2. a \in Nat
      BY Numbers DEF StackArea
    <3>3. a # reg["fp"] + (i - Len(AReg))
      BY <1>2, <1>6, <2>2, <3>1, <3>2
    <3> QED
      BY <1>2, <1>3, <2>2, <3>3, StoredKeeps
  <2> QED
    BY <2>1, <2>2
<1>7. PICK f : f = [F EXCEPT !.args = [F.args EXCEPT ![i + 1] = Operand(top - 1)]]
  OBVIOUS
<1>8. IsActivation(f) /\ f.argc = F.argc /\ f.locc = F.locc /\ f.begun = F.begun
  <2>1. IsActivation(F)
    BY <1>2 DEF MachineOK
  <2>2. PICK a : a = [F.args EXCEPT ![i + 1] = Operand(top - 1)]
    OBVIOUS
  <2>3. f = [F EXCEPT !.args = a]
    BY <1>7, <2>2
  <2> QED
    BY <2>1, <2>3, ArgsReplaced
<1>9. frames' = [frames EXCEPT ![Len(frames)] = f]
  BY <1>2, <1>3, <1>7
<1> QED
  BY <1>1, <1>4, <1>5, <1>6, <1>8, <1>9, BodySteps

LEMMA StoreLocalKeeps ==
  ASSUME ConventionInvariant, OperandsInRegisters, StoreLocal
  PROVE  ConventionInvariant'
<1>1. Running /\ top >= 1 /\ pc' = "body" /\ reg' = reg /\ globals' = globals
  BY DEF StoreLocal, Running
<1>2. /\ MachineOK /\ DOMAIN reg = Register /\ DOMAIN mem = StackArea \cup GlobalArea
      /\ reg["fp"] \in Nat /\ reg["fp"] = Base(Len(frames))
      /\ F.argc \in Nat /\ F.locc \in Nat /\ DOMAIN F.locals \subseteq 0..F.locc - 1
      /\ F = frames[Len(frames)] /\ Len(frames) \in 1..Len(frames)
  BY <1>1, AtInstruction
<1>3. PICK i, l :
        /\ i \in 0..F.locc - 1
        /\ mem' = Stored(mem, reg["fp"] - i, Cell(top - 1))
        /\ DOMAIN l = DOMAIN F.locals \cup {i}
        /\ frames' = [frames EXCEPT ![Len(frames)].locals = l]
  <2>1. PICK i \in 0..F.locc - 1 :
          /\ mem' = Stored(mem, reg["fp"] - i, Cell(top - 1))
          /\ frames' = [frames EXCEPT ![Len(frames)].locals =
                          [j \in DOMAIN F.locals \cup {i} |->
                             IF j = i THEN Operand(top - 1) ELSE F.locals[j]]]
    BY DEF StoreLocal
  <2>2. PICK l : l = [j \in DOMAIN F.locals \cup {i} |->
                        IF j = i THEN Operand(top - 1) ELSE F.locals[j]]
    OBVIOUS
  <2>3. DOMAIN l = DOMAIN F.locals \cup {i}
    BY <2>2
  <2> QED
    BY <2>1, <2>2, <2>3
<1>4. DOMAIN mem' = DOMAIN mem
  BY <1>3, StoredKeeps
<1>5. ASSUME NEW a \in StackArea,
             \/ a > Base(Len(frames)) + on_stack(F.argc)
             \/ a < Base(Len(frames)) - F.locc
      PROVE  mem'[a] = mem[a]
  <2>2. on_stack(F.argc) \in Nat
    BY <1>2, Numbers DEF on_stack
  <2>3. a \in Nat
    BY Numbers DEF StackArea
  <2>4. a # reg["fp"] - i
    BY <1>2, <1>3, <1>5, <2>2, <2>3
  <2> QED
    BY <1>2, <1>3, <2>4, StoredKeeps
<1>6. PICK f : f = [F EXCEPT !.locals = l]
  OBVIOUS
<1>7. IsActivation(f) /\ f.argc = F.argc /\ f.locc = F.locc /\ f.begun = F.begun
  <2>1. IsActivation(F) /\ DOMAIN l \subseteq 0..F.locc - 1
    BY <1>2, <1>3 DEF MachineOK
  <2> QED
    BY <1>6, <2>1, LocalsReplaced
<1>8. frames' = [frames EXCEPT ![Len(frames)] = f]
  BY <1>2, <1>3, <1>6
<1> QED
  BY <1>1, <1>2, <1>4, <1>5, <1>7, <1>8, BodySteps

LEMMA StoreGlobalKeeps ==
  ASSUME ConventionInvariant, OperandsInRegisters, StoreGlobal
  PROVE  ConventionInvariant'
<1>1. Running /\ pc' = "body" /\ reg' = reg /\ frames' = frames
  BY DEF StoreGlobal, Running
<1>2. /\ MachineOK /\ DOMAIN reg = Register
      /\ DOMAIN globals = 0..Globals - 1 /\ reg["gp"] = GlobalBase
      /\ StackArea \cap GlobalArea = {}
      /\ F = frames[Len(frames)] /\ Len(frames) \in 1..Len(frames)
  BY <1>1, AtInstruction
<1>3. PICK i \in 0..Globals - 1 :
        /\ mem' = Stored(mem, GlobalBase + i, Cell(top - 1))
        /\ globals' = [globals EXCEPT ![i] = Operand(top - 1)]
  BY <1>2 DEF StoreGlobal
<1>4. DOMAIN mem' = DOMAIN mem /\ DOMAIN globals' = DOMAIN globals
  BY <1>3, StoredKeeps
<1>5. ASSUME NEW a \in StackArea
      PROVE  mem'[a] = mem[a]
  <2>1. GlobalBase + i \in GlobalArea
    BY Numbers DEF GlobalArea
  <2>2. a # GlobalBase + i
    BY <1>2, <2>1
  <2>3. a \in DOMAIN mem
    BY <1>2 DEF MachineOK
  <2> QED
    BY <1>3, <2>2, <2>3, StoredKeeps
<1>6. IsActivation(F) /\ frames \in Seq(Elements(frames))
  BY <1>2 DEF MachineOK, IsSequence
<1>7. frames' = [frames EXCEPT ![Len(frames)] = F]
  BY <1>1, <1>2, <1>6
<1> QED
  BY <1>1, <1>2, <1>4, <1>5, <1>6, <1>7, BodySteps

-----------------------------------------------------------------------------
(* The ends of a function.                                                 *)

LEMMA SaveRegistersKeeps ==
  ASSUME ConventionInvariant, SaveRegisters
  PROVE  ConventionInvariant'
<1>1. /\ MachineOK /\ CallsInOrder /\ FramesApart /\ RegistersHold
      /\ pc = "entry" /\ pc' = "body" /\ globals' = globals
  BY DEF ConventionInvariant, SaveRegisters
<1>2. PICK n : n = Len(frames)
  OBVIOUS
<1>3. n \in Nat /\ n >= 1 /\ n \in 1..n /\ F = frames[n] /\ IsActivation(F)
      /\ DOMAIN mem = StackArea \cup GlobalArea
  BY <1>1, <1>2 DEF MachineOK, F
<1>4. PICK f : f = [F EXCEPT !.begun = TRUE]
  OBVIOUS
<1>5. f.argc = F.argc /\ f.locc = F.locc /\ f.begun /\ IsActivation(f)
  <2>1. PICK argc, locc, begun, stack, args, locals, call, result :
          F = [argc |-> argc, locc |-> locc, begun |-> begun, stack |-> stack,
               args |-> args, locals |-> locals, call |-> call, result |-> result]
    BY <1>3 DEF IsActivation
  <2>2. f = [argc |-> argc, locc |-> locc, begun |-> TRUE, stack |-> stack,
             args |-> args, locals |-> locals, call |-> call, result |-> result]
    BY <1>4, <2>1
  <2>3. /\ f.argc = F.argc /\ f.locc = F.locc /\ f.begun /\ f.stack = F.stack
        /\ f.locals = F.locals
    BY <2>1, <2>2
  <2> QED
    BY <1>3, <2>2, <2>3 DEF IsActivation
<1>6. frames' = [frames EXCEPT ![n] = f]
  BY <1>2, <1>3, <1>4 DEF SaveRegisters
<1>7. frames'[n] = f /\ Len(frames') = n /\ \A j \in 1..n - 1 : frames'[j] = frames[j]
  BY <1>1, <1>2, <1>5, <1>6, RunningReplaced
<1>8. reg["sp"] = Base(n) /\ reg["ra"] = Return(n) /\ reg["gp"] = GlobalBase
      /\ \A r \in Restored(n) : reg[r] = Found(n, r)
  BY <1>1, <1>2 DEF RegistersHold
<1>9. /\ Base(n) \in Nat /\ Base(n) <= StackTop /\ F.locc \in Nat
      /\ on_stack(F.argc) \in Nat /\ top \in Nat
  BY <1>1, <1>2, <1>3, FrameNumbers, Activations DEF top
<1>10. Base(n) >= F.locc + Len(Saved) /\ Len(Saved) \in Nat /\ StackTop \in Nat
  BY <1>8, Numbers DEF SaveRegisters, frame_size
<1>11. DOMAIN mem' = DOMAIN mem
       /\ \A a \in DOMAIN mem :
            mem'[a] = IF \E i \in 1..Len(Saved) : a = Base(n) - (i + F.locc)
                      THEN LET i == CHOOSE i \in 1..Len(Saved) : a = Base(n) - (i + F.locc)
                           IN  reg[Saved[i]]
                      ELSE mem[a]
  BY <1>8 DEF SaveRegisters, saved_offset
<1>12. ASSUME NEW a \in StackArea, a > Base(n) + on_stack(F.argc)
       PROVE  mem'[a] = mem[a]
  <2>1. a \in Nat /\ a \in DOMAIN mem
    BY <1>3, <1>10 DEF StackArea
  <2>2. \A i \in 1..Len(Saved) : a # Base(n) - (i + F.locc)
    BY <1>9, <1>10, <1>12, <2>1
  <2> QED
    BY <1>11, <2>1, <2>2
<1>13. Base(n)' = Base(n) /\ \A r : Found(n, r)' = Found(n, r)
  <2>1. ConventionInvariant /\ pc # "exit" /\ n \in 1..Len(frames) /\ F = frames[n]
    BY <1>1, <1>2, <1>3
  <2> QED
    BY <1>3, <1>7, <1>12, <2>1, LowerFrames DEF Alike
<1>14. FrameEnd(n)' = Base(n) - (F.locc + Len(Saved))
  BY <1>5, <1>7, <1>13 DEF FrameEnd
<1>15. DOMAIN reg' = Register /\ reg'["fp"] = Base(n) /\ reg'["sp"] = Base(n) - (F.locc + Len(Saved))
       /\ reg'["ra"] = Return(n) /\ reg'["gp"] = GlobalBase
  <2>1. LiveRegs(reg, top)["ra"] = reg["ra"] /\ LiveRegs(reg, top)["gp"] = reg["gp"]
        /\ DOMAIN LiveRegs(reg, top) = Register
    BY <1>9, LiveRegsKeeps, SpecialRegisters
  <2>2. reg' = [LiveRegs(reg, top) EXCEPT !["fp"] = reg["sp"], !["sp"] = reg["sp"] - frame_size]
    BY DEF SaveRegisters
  <2> QED
    BY <1>8, <2>1, <2>2, SpecialRegisters DEF frame_size
<1>16. ReturnWords(n)'
  <2>1. SUFFICES ASSUME NEW i \in 1..Len(Saved), Saved[i] \in Restored(n)
                 PROVE  mem'[Base(n) - (i + F.locc)] = Found(n, Saved[i])
    BY <1>5, <1>7, <1>13 DEF ReturnWords, Restored
  <2>2. PICK a : a = Base(n) - (i + F.locc)
    OBVIOUS
  <2>3. i \in Nat /\ i >= 1 /\ i <= Len(Saved)
    BY <1>10
  <2>4. a \in DOMAIN mem
    <3>1. a \in Nat /\ a <= StackTop
      BY <1>9, <1>10, <2>2, <2>3
    <3> QED
      BY <1>3, <1>10, <3>1 DEF StackArea
  <2>5. \A k \in 1..Len(Saved) : a = Base(n) - (k + F.locc) => k = i
    BY <1>9, <1>10, <2>2, <2>3
  <2>6. PICK k : k = CHOOSE m \in 1..Len(Saved) : a = Base(n) - (m + F.locc)
    OBVIOUS
  <2>7. k = i
    BY <2>2, <2>5, <2>6
  <2>8. mem'[a] = reg[Saved[k]]
    BY <1>11, <2>2, <2>4, <2>6
  <2>9. reg[Saved[i]] = Found(n, Saved[i])
    BY <1>8, <2>1
  <2> QED
    BY <2>2, <2>7, <2>8, <2>9
<1>17. RegistersHold'
  BY <1>1, <1>7, <1>13, <1>14, <1>15 DEF RegistersHold
<1>18. FrameEnd(n)' >= 0 /\ DOMAIN mem' = DOMAIN mem
  BY <1>9, <1>10, <1>11, <1>14
<1> QED
  BY <1>1, <1>2, <1>5, <1>6, <1>12, <1>15, <1>16, <1>17, <1>18, SameActivations

\* main leaves its result behind and returns; another function gives it to the
\* activation that has called it.
LEMMA EndKeeps ==
  ASSUME ConventionInvariant, OperandsInRegisters, End
  PROVE  ConventionInvariant'
<1>1. /\ MachineOK /\ CallsInOrder /\ FramesApart /\ RegistersHold /\ WordsHold
      /\ pc = "body" /\ globals' = globals /\ mem' = LiveMem(mem, reg["fp"], 0)
  BY DEF ConventionInvariant, End, Running
<1>2. PICK n : n = Len(frames)
  OBVIOUS
<1>3. n \in Nat /\ n >= 1 /\ n \in 1..n /\ F = frames[n] /\ IsActivation(F) /\ F.begun
      /\ DOMAIN mem = StackArea \cup GlobalArea
  BY <1>1, <1>2 DEF MachineOK, F
<1>4. reg["fp"] = Base(n) /\ reg["ra"] = Return(n) /\ reg["gp"] = GlobalBase
  BY <1>1, <1>2 DEF RegistersHold
<1>5. /\ Base(n) \in Nat /\ Base(n) <= StackTop /\ FrameEnd(n) \in Nat /\ F.locc \in Nat
      /\ FrameEnd(n) = Base(n) - (F.locc + Len(Saved))
  BY <1>1, <1>2, <1>3, FrameNumbers, Activations
<1>6. DOMAIN mem' = DOMAIN mem /\ \A a \in StackArea : a >= Base(n) => mem'[a] = mem[a]
  BY <1>1, <1>3, <1>4, <1>5, LiveMemKeeps
\* What the epilogue loads is what the prologue has saved.
<1>7. ASSUME NEW r \in Restored(n)
      PROVE  WordAt(mem, reg["fp"] - saved_offset(Place(r, Saved))) = Found(n, r)
  <2>1. r \in Elements(Saved)
    BY <1>7 DEF Restored
  <2>2. PICK i \in 1..Len(Saved) : r = Saved[i]
    BY <2>1 DEF Elements
  <2>3. Place(r, Saved) = i
    BY <2>2, SavedPlaces
  <2>4. mem[Base(n) - (i + F.locc)] = Found(n, r)
    BY <1>1, <1>2, <1>3, <1>7, <2>2 DEF WordsHold, ReturnWords
  <2>5. Base(n) - (i + F.locc) \in DOMAIN mem
    <3>1. i \in Nat /\ i >= 1 /\ i <= Len(Saved) /\ Len(Saved) \in Nat /\ StackTop \in Nat
      BY Numbers
    <3>2. Base(n) - (i + F.locc) \in Nat /\ Base(n) - (i + F.locc) <= StackTop
      BY <1>5, <3>1
    <3> QED
      BY <1>3, <3>1, <3>2 DEF StackArea
  <2> QED
    BY <1>4, <2>3, <2>4, <2>5 DEF WordAt, saved_offset
<1>8. /\ DOMAIN reg' = Register /\ reg'["sp"] = Base(n) /\ reg'["ra"] = Return(n)
      /\ \A r \in Restored(n) : reg'[r] = Found(n, r)
  <2>1. "sp" \notin Elements(Saved) /\ "sp" # AReg[1] /\ "ra" # "sp" /\ "ra" # AReg[1]
        /\ "ra" \notin Elements(Saved) /\ "ra" \notin Elements(TReg) /\ "sp" \notin Elements(TReg)
        /\ Elements(Saved) \cap Elements(TReg) = {}
        /\ Elements(Saved) \subseteq Register /\ AReg[1] \notin Elements(Saved)
        /\ "sp" \in Register /\ "ra" \in Register
    <3>1. AReg[1] \in Elements(AReg)
      BY Lengths DEF Elements
    <3> QED
      BY <3>1, SpecialRegisters
  <2>2. \A r \in Restored(n) : r \in Elements(Saved) /\ r # "sp" /\ r # AReg[1] /\ r \in Register
                              /\ r \notin Elements(TReg)
    BY <2>1 DEF Restored
  <2>3. PICK v : reg' = [r \in Register |->
                      CASE r = "sp" -> reg["fp"]
                        [] r = AReg[1] -> v
                        [] r \in Elements(Saved) ->
                             WordAt(mem, reg["fp"] - saved_offset(Place(r, Saved)))
                        [] r \in Elements(TReg) -> Junk
                        [] OTHER -> reg[r]]
    BY DEF End
  <2>4. reg'["sp"] = reg["fp"]
    BY <2>1, <2>3
  <2>5. reg'["ra"] = reg["ra"]
    BY <2>1, <2>3
  <2>6. \A r \in Restored(n) : reg'[r] = WordAt(mem, reg["fp"] - saved_offset(Place(r, Saved)))
    BY <2>2, <2>3
  <2> QED
    BY <1>4, <1>7, <2>3, <2>4, <2>5, <2>6
<1>9. CASE n = 1
  <2>1. pc' = "exit" /\ frames' = frames
    BY <1>2, <1>9 DEF End
  <2>2. frames \in Seq(Elements(frames)) /\ frames' = [frames EXCEPT ![n] = F]
    <3>1. frames \in Seq(Elements(frames))
      BY <1>1 DEF MachineOK, IsSequence
    <3> QED
      BY <1>2, <1>3, <2>1, <3>1
  <2>3. \A a \in StackArea : a > Base(n) + on_stack(F.argc) => mem'[a] = mem[a]
    <3>1. on_stack(F.argc) \in Nat
      BY <1>1, <1>2, <1>3, Activations
    <3>2. \A a \in StackArea : a \in Nat
      BY Numbers DEF StackArea
    <3> QED
      BY <1>5, <1>6, <3>1, <3>2
  <2>4. Base(n)' = Base(n) /\ FrameEnd(n)' = FrameEnd(n) /\ Base(n) = StackTop
        /\ \A r : Found(n, r)' = Found(n, r)
    BY <1>9, <2>1 DEF Base, FrameEnd, Found
  <2>5. RegistersHold'
    BY <1>2, <1>8, <1>9, <2>1, <2>4 DEF RegistersHold, Restored
  <2>6. FrameEnd(n)' >= 0 /\ pc # "exit" /\ DOMAIN globals' = DOMAIN globals
    BY <1>1, <1>5, <2>4
  <2> QED
    BY <1>2, <1>3, <1>6, <1>8, <1>9, <2>1, <2>2, <2>3, <2>5, <2>6, SameActivations
<1>10. CASE n # 1
  <2>1. PICK m : m = n - 1
    OBVIOUS
  <2>2. m \in Nat /\ m >= 1 /\ n = m + 1 /\ m \in 1..n
    BY <1>3, <1>10, <2>1
  <2>3. pc' = "returned" /\ \E v : frames' = [SubSeq(frames, 1, m) EXCEPT ![m].result = v]
    BY <1>2, <1>10, <2>1 DEF End
  <2>4. PICK v : frames' = [SubSeq(frames, 1, m) EXCEPT ![m].result = v]
    BY <2>3
  <2>5. PICK s : s = SubSeq(frames, 1, m)
    OBVIOUS
  <2>6. PICK S : S = Elements(frames)
    OBVIOUS
  <2>7. frames \in Seq(S) /\ Len(frames) = m + 1
    BY <1>1, <1>2, <2>2, <2>6 DEF MachineOK, IsSequence
  <2>8. s \in Seq(S) /\ Len(s) = m /\ \A j \in 1..m : s[j] = frames[j]
    BY <2>2, <2>5, <2>7
  <2>9. PICK g : g = [frames[m] EXCEPT !.result = v]
    OBVIOUS
  <2>10. frames' = [s EXCEPT ![m] = g]
    <3>1. s[m] = frames[m]
      BY <2>2, <2>8
    <3>2. frames' = [s EXCEPT ![m].result = v]
      BY <2>4, <2>5
    <3> QED
      BY <2>9, <3>1, <3>2
  <2>11. /\ Len(frames') = m /\ IsSequence(frames') /\ frames'[m] = g
         /\ \A j \in 1..m - 1 : frames'[j] = frames[j]
    <3>1. PICK U : U = S \cup {g}
      OBVIOUS
    <3>2. s \in Seq(U) /\ g \in U
      BY <2>8, <3>1, SeqMonotonic
    <3>3. frames' \in Seq(U) /\ Len(frames') = m /\ \A j \in 1..m : frames'[j] = IF j = m THEN g ELSE s[j]
      BY <2>2, <2>8, <2>10, <3>2
    <3> QED
      BY <2>2, <2>8, <3>3, OwnElements
  <2>12. /\ IsActivation(frames[m]) /\ frames[m].begun /\ frames[1].locc = MainLocals
         /\ \A j \in 1..m : IsActivation(frames[j])
         /\ \A j \in 1..m : frames[j].begun \/ (j = 1 /\ n = 1)
         /\ m \in 1..Len(frames) /\ m < Len(frames)
    BY <1>1, <1>2, <1>10, <2>2 DEF MachineOK, Suspended
  <2>13. /\ g.argc = frames[m].argc /\ g.locc = frames[m].locc /\ g.begun = frames[m].begun
         /\ g.stack = frames[m].stack /\ g.call = frames[m].call /\ IsActivation(g)
         /\ g.args = frames[m].args /\ g.locals = frames[m].locals /\ g.result = v
    <3>1. PICK argc, locc, begun, stack, args, locals, call, result :
            frames[m] = [argc |-> argc, locc |-> locc, begun |-> begun, stack |-> stack,
                 args |-> args, locals |-> locals, call |-> call, result |-> result]
      BY <2>12 DEF IsActivation
    <3>2. g = [argc |-> argc, locc |-> locc, begun |-> begun, stack |-> stack,
               args |-> args, locals |-> locals, call |-> call, result |-> v]
      BY <2>9, <3>1
    <3>3. /\ g.argc = frames[m].argc /\ g.locc = frames[m].locc /\ g.begun = frames[m].begun
          /\ g.stack = frames[m].stack /\ g.call = frames[m].call
          /\ g.args = frames[m].args /\ g.locals = frames[m].locals /\ g.result = v
      BY <3>1, <3>2
    <3> QED
      BY <2>12, <3>2, <3>3 DEF IsActivation
  <2>14. \A j \in 1..n - 1 : Alike(frames'[j], frames[j])
    BY <2>2, <2>11, <2>13 DEF Alike
  <2>15. ConventionInvariant /\ pc # "exit" /\ n \in 1..Len(frames) /\ frames[n] = F
    BY <1>1, <1>2, <1>3
  <2>16. \A a \in StackArea : a > Base(n) + on_stack(F.argc) => mem'[a] = mem[a]
    <3>1. on_stack(F.argc) \in Nat
      BY <1>1, <1>2, <1>3, Activations
    <3>2. \A a \in StackArea : a \in Nat
      BY Numbers DEF StackArea
    <3> QED
      BY <1>5, <1>6, <3>1, <3>2
  <2>17. /\ \A j \in 1..n : Base(j)' = Base(j)
         /\ \A j \in 1..n - 1 :
              FrameEnd(j)' = FrameEnd(j) /\ ReturnWords(j)' /\ CallWords(j)' /\ CallInPlace(j)'
    BY <2>14, <2>15, <2>16, LowerFrames
  <2>18. \A j \in 1..m : j \in 1..n /\ j \in 1..n - 1 /\ j \in 1..Len(frames)
    BY <1>2, <2>2
  <2>19. MachineOK'
    <3>1. \A j \in 1..m : IsActivation(frames'[j])
      BY <2>2, <2>11, <2>12, <2>13
    <3>2. frames'[1].locc = MainLocals
      BY <2>2, <2>11, <2>12, <2>13
    <3>3. \A j \in 1..m : frames'[j].begun
      <4>1. \A j \in 1..m : frames[j].begun
        BY <1>10, <2>12
      <4>2. \A j \in 1..m : j = m \/ j \in 1..m - 1
        BY <2>2
      <4> QED
        BY <2>11, <2>13, <4>1, <4>2
    <3>4. m \in 1..MaxFrames
      <4>1. n \in 1..MaxFrames
        BY <1>1, <1>2 DEF MachineOK
      <4>2. MaxFrames \in Nat
        BY CodeAssumption
      <4> QED
        BY <2>2, <4>1, <4>2
    <3>5. DOMAIN mem' = StackArea \cup GlobalArea /\ DOMAIN globals' = 0..Globals - 1
      BY <1>1, <1>3, <1>6 DEF MachineOK
    <3> QED
      BY <1>8, <2>3, <2>11, <3>1, <3>2, <3>3, <3>4, <3>5 DEF MachineOK
  <2>20. CallsInOrder'
    BY <2>11, <2>17, <2>18 DEF CallsInOrder
  <2>21. FramesApart'
    <3>1. ASSUME NEW i \in 1..m, NEW j \in 1..m, i < j
          PROVE  Base(j)' + Len(AtCall) <= FrameEnd(i)'
      <4>1. Base(j) + Len(AtCall) <= FrameEnd(i)
        BY <1>1, <2>18, <3>1 DEF FramesApart
      <4> QED
        BY <2>17, <2>18, <4>1
    <3>2. ASSUME NEW j \in 1..m
          PROVE  /\ FrameEnd(j)' >= 0
                 /\ on_stack(frames'[j].argc) <= IF j = 1 THEN 0 ELSE frames'[j - 1].call.dropped
      <4>1. /\ FrameEnd(j) >= 0
            /\ on_stack(frames[j].argc) <= IF j = 1 THEN 0 ELSE frames[j - 1].call.dropped
        BY <1>1, <2>18 DEF FramesApart
      <4>2. Alike(frames'[j], frames[j]) /\ (j # 1 => Alike(frames'[j - 1], frames[j - 1]))
        BY <2>2, <2>14, <2>18
      <4> QED
        BY <2>17, <2>18, <4>1, <4>2 DEF Alike
    <3> QED
      BY <2>11, <3>1, <3>2 DEF FramesApart
  <2>22. WordsHold'
    BY <2>11, <2>17, <2>18 DEF WordsHold
  <2>23. RegistersHold'
    <3>1. Base(n) = g.call.sp
      BY <1>10, <2>1, <2>13 DEF Base
    <3>2. \A r \in Elements(Saved) : Found(n, r) = g.call.kept[r]
      BY <1>10, <2>1, <2>13 DEF Found
    <3>3. F' = g /\ Restored(n) = Elements(Saved)
      BY <1>10, <2>11 DEF F, Restored
    <3> QED
      BY <1>8, <2>3, <3>1, <3>2, <3>3 DEF RegistersHold
  <2> QED
    BY <2>19, <2>20, <2>21, <2>22, <2>23 DEF ConventionInvariant
<1> QED
  BY <1>9, <1>10

-----------------------------------------------------------------------------
(* Calls.                                                                  *)

\* A step that keeps the words from the end of the frame upwards.
LEMMA FrameKept ==
  ASSUME ConventionInvariant, pc # "exit", NEW n, n = Len(frames),
         \A j \in 1..n - 1 : frames'[j] = frames[j],
         frames'[n].locc = F.locc, frames'[n].begun = F.begun,
         \A a \in StackArea : a >= FrameEnd(n) => mem'[a] = mem[a]
  PROVE  /\ Base(n)' = Base(n) /\ FrameEnd(n)' = FrameEnd(n) /\ \A r : Found(n, r)' = Found(n, r)
         /\ ReturnWords(n)' /\ FrameEnd(n)' >= 0
         /\ \A a \in StackArea : a > Base(n) + on_stack(F.argc) => mem'[a] = mem[a]
<1>1. MachineOK /\ CallsInOrder /\ FramesApart /\ WordsHold
  BY DEF ConventionInvariant
<1>2. /\ frames'[n].locc = F.locc /\ frames'[n].begun = F.begun
      /\ \A j \in 1..n - 1 : frames'[j] = frames[j]
  OBVIOUS
<1>3. n \in Nat /\ n >= 1 /\ n \in 1..n /\ F = frames[n]
  BY <1>1 DEF MachineOK, F
<1>4. /\ Base(n) \in Nat /\ FrameEnd(n) \in Nat /\ FrameEnd(n) <= Base(n) /\ Base(n) <= StackTop
      /\ F.begun => FrameEnd(n) = Base(n) - (F.locc + Len(Saved))
      /\ F.locc \in Nat /\ F.begun \in BOOLEAN /\ on_stack(F.argc) \in Nat
  BY <1>1, <1>3, FrameNumbers, Activations
<1>5. \A a \in StackArea : a > Base(n) + on_stack(F.argc) => mem'[a] = mem[a]
  <2>1. \A a \in StackArea : a \in Nat
    BY Numbers DEF StackArea
  <2> QED
    BY <1>4, <2>1
<1>6. Base(n)' = Base(n) /\ \A r : Found(n, r)' = Found(n, r)
  BY <1>2, <1>3, <1>5, LowerFrames DEF Alike
<1>7. FrameEnd(n)' = FrameEnd(n)
  <2>1. CASE F.begun
    <3>1. FrameEnd(n)' = Base(n)' - (frames'[n].locc + Len(Saved))
      BY <1>2, <2>1 DEF FrameEnd
    <3> QED
      BY <1>2, <1>4, <1>6, <2>1, <3>1
  <2>2. CASE ~F.begun
    BY <1>2, <1>3, <1>6, <2>2 DEF FrameEnd
  <2> QED
    BY <2>1, <2>2
<1>8. ReturnWords(n)'
  <2>1. SUFFICES ASSUME F.begun, NEW i \in 1..Len(Saved), Saved[i] \in Restored(n)
                 PROVE  mem'[Base(n) - (i + F.locc)] = Found(n, Saved[i])
    BY <1>2, <1>3, <1>6 DEF ReturnWords, Restored
  <2>2. mem[Base(n) - (i + F.locc)] = Found(n, Saved[i])
    BY <1>1, <1>3, <2>1 DEF WordsHold, ReturnWords
  <2>3. Len(Saved) \in Nat /\ StackTop \in Nat
    BY Numbers
  <2>4. /\ Base(n) - (i + F.locc) \in Int /\ Base(n) - (i + F.locc) <= StackTop
        /\ FrameEnd(n) <= Base(n) - (i + F.locc)
    <3>1. PICK b \in Nat, l \in Nat, w \in Nat, t \in Nat, e \in Nat :
            b = Base(n) /\ l = F.locc /\ w = Len(Saved) /\ t = StackTop /\ e = FrameEnd(n)
      BY <1>4, <2>3
    <3>2. b <= t /\ e = b - (l + w) /\ i \in 1..w
      BY <1>4, <2>1, <3>1
    <3>3. b - (i + l) \in Int /\ b - (i + l) <= t /\ e <= b - (i + l)
      BY <3>2
    <3> QED
      BY <3>1, <3>3
  <2>5. Base(n) - (i + F.locc) \in StackArea
    BY <1>4, <2>3, <2>4 DEF StackArea
  <2> QED
    BY <2>2, <2>4, <2>5
<1> QED
  BY <1>2, <1>4, <1>5, <1>6, <1>7, <1>8

\* The words that a call saves lie between the stack pointer of the callee and the
\* frame of the caller.
LEMMA CallGap ==
  ASSUME NEW sp \in Nat, NEW d \in Nat, NEW k \in Nat, k >= 4, NEW e \in Nat, sp + d + k = e,
         NEW t \in Nat, e <= t
  PROVE  /\ e - 1 \in 0..t /\ e - 2 \in 0..t /\ e - 1 >= sp /\ e - 2 >= sp
         /\ \A i \in 1..k : e - i \in 0..t /\ e - i >= sp
OBVIOUS

\* What lies below the frame of an activation that has called.
LEMMA CallBelow ==
  ASSUME ConventionInvariant, NEW j \in 1..Len(frames), Suspended(j)
  PROVE  /\ frames[j].call.sp \in Nat /\ frames[j].call.dropped \in Nat /\ FrameEnd(j) \in Nat
         /\ frames[j].call.sp + frames[j].call.dropped + Len(AtCall) = FrameEnd(j)
         /\ FrameEnd(j) <= StackTop
<1>1. MachineOK /\ CallsInOrder /\ FramesApart
  BY DEF ConventionInvariant
<1>2. CallInPlace(j)
  BY <1>1 DEF CallsInOrder
<1>3. FrameEnd(j) \in Nat /\ FrameEnd(j) <= Base(j) /\ Base(j) <= StackTop /\ Base(j) \in Nat
  BY <1>1, FrameNumbers
<1> QED
  BY <1>2, <1>3, Numbers DEF CallInPlace

LEMMA RuntimeReturnsKeeps ==
  ASSUME ConventionInvariant, RuntimeReturns
  PROVE  ConventionInvariant'
<1>1. /\ MachineOK /\ CallsInOrder /\ FramesApart /\ RegistersHold /\ WordsHold
      /\ pc = "runtime" /\ pc' = "returned" /\ globals' = globals
      /\ mem' = LiveMem(mem, reg["sp"], 0)
  BY DEF ConventionInvariant, RuntimeReturns
<1>2. PICK n : n = Len(frames)
  OBVIOUS
<1>3. n \in Nat /\ n >= 1 /\ n \in 1..n /\ F = frames[n] /\ IsActivation(F) /\ Suspended(n)
      /\ DOMAIN mem = StackArea \cup GlobalArea /\ n \in 1..Len(frames)
  BY <1>1, <1>2 DEF MachineOK, F, Suspended
<1>4. PICK v : /\ reg' = [r \in Register |->
                            CASE r = AReg[1] -> v
                              [] r \in Elements(AtCall) \ {AReg[1]} -> Junk
                              [] OTHER -> reg[r]]
               /\ frames' = [frames EXCEPT ![n].result = v]
  BY <1>2 DEF RuntimeReturns
<1>5. PICK f : f = [F EXCEPT !.result = v]
  OBVIOUS
<1>6. Alike(f, F) /\ IsActivation(f)
  <2>1. PICK argc, locc, begun, stack, args, locals, call, result :
          F = [argc |-> argc, locc |-> locc, begun |-> begun, stack |-> stack,
               args |-> args, locals |-> locals, call |-> call, result |-> result]
    BY <1>3 DEF IsActivation
  <2>2. f = [argc |-> argc, locc |-> locc, begun |-> begun, stack |-> stack,
             args |-> args, locals |-> locals, call |-> call, result |-> v]
    BY <1>5, <2>1
  <2>3. Alike(f, F) /\ f.locals = F.locals /\ f.args = F.args /\ f.result = v
    BY <2>1, <2>2 DEF Alike
  <2> QED
    BY <1>3, <2>2, <2>3 DEF IsActivation, Alike
<1>7. frames' = [frames EXCEPT ![n] = f]
  BY <1>2, <1>3, <1>4, <1>5
<1>8. /\ F.call.sp \in Nat /\ F.call.dropped \in Nat /\ FrameEnd(n) \in Nat
      /\ F.call.sp + F.call.dropped + Len(AtCall) = FrameEnd(n) /\ FrameEnd(n) <= StackTop
  BY <1>3, CallBelow
<1>9. reg["sp"] = F.call.sp /\ \A r \in Elements(Saved) : reg[r] = F.call.kept[r]
  BY <1>1 DEF RegistersHold
<1>10. DOMAIN mem' = DOMAIN mem /\ \A a \in StackArea : a >= F.call.sp => mem'[a] = mem[a]
  BY <1>1, <1>3, <1>8, <1>9, LiveMemKeeps
<1>11. Len(AtCall) \in Nat /\ Len(AtCall) >= 4 /\ StackTop \in Nat
  BY Numbers
<1>12. \A a \in StackArea : a >= FrameEnd(n) => mem'[a] = mem[a]
  <2>1. \A a \in StackArea : a \in Nat
    BY <1>11 DEF StackArea
  <2> QED
    BY <1>8, <1>10, <1>11, <2>1
<1>13. /\ Base(n)' = Base(n) /\ FrameEnd(n)' = FrameEnd(n) /\ \A r : Found(n, r)' = Found(n, r)
       /\ ReturnWords(n)' /\ FrameEnd(n)' >= 0 /\ F' = f /\ frames'[n] = f /\ Len(frames') = n
       /\ \A a \in StackArea : a > Base(n) + on_stack(F.argc) => mem'[a] = mem[a]
  <2>1. f.locc = F.locc /\ f.begun = F.begun /\ pc # "exit"
    BY <1>1, <1>6 DEF Alike
  <2>2. /\ Len(frames') = n /\ frames'[n] = f /\ F' = f
        /\ \A j \in 1..n - 1 : frames'[j] = frames[j]
    BY <1>1, <1>2, <1>6, <1>7, <2>1, RunningReplaced
  <2>3. frames'[n].locc = F.locc /\ frames'[n].begun = F.begun
    BY <2>1, <2>2
  <2> QED
    BY <1>2, <1>12, <2>1, <2>2, <2>3, FrameKept
<1>14. CallInPlace(n)'
  <2>1. CallInPlace(n)
    BY <1>1, <1>3 DEF CallsInOrder
  <2> QED
    BY <1>3, <1>6, <1>13, <2>1 DEF CallInPlace, Alike
<1>15. CallWords(n)'
  <2>1. CallWords(n)
    BY <1>1, <1>2, <1>3 DEF WordsHold
  <2>2. FrameEnd(n) - 1 \in StackArea /\ FrameEnd(n) - 2 \in StackArea
        /\ FrameEnd(n) - 1 >= F.call.sp /\ FrameEnd(n) - 2 >= F.call.sp
    BY <1>8, <1>11, CallGap DEF StackArea
  <2>3. mem'[FrameEnd(n) - 1] = mem[FrameEnd(n) - 1] /\ mem'[FrameEnd(n) - 2] = mem[FrameEnd(n) - 2]
    BY <1>10, <2>2
  <2> QED
    BY <1>13, <2>1, <2>3 DEF CallWords
<1>16. DOMAIN reg' = Register /\ reg'["sp"] = reg["sp"]
       /\ \A r \in Elements(Saved) : reg'[r] = reg[r]
  <2>1. AReg[1] \in Elements(AReg)
    BY Lengths DEF Elements
  <2>2. \A r \in Elements(Saved) \cup {"sp"} : r \in Register /\ r # AReg[1] /\ r \notin Elements(AtCall)
    BY <2>1, SpecialRegisters
  <2> QED
    BY <1>4, <2>2
<1>17. RegistersHold'
  BY <1>1, <1>6, <1>9, <1>13, <1>16 DEF RegistersHold, Alike
<1>18. f.argc = F.argc /\ f.locc = F.locc /\ (f.begun \/ n = 1)
  <2>1. F.begun \/ n = 1
    BY <1>1, <1>2, <1>3 DEF MachineOK
  <2> QED
    BY <1>6, <2>1 DEF Alike
<1>19. pc # "exit" /\ DOMAIN globals' = DOMAIN globals
  BY <1>1
<1> QED
  BY <1>1, <1>2, <1>6, <1>7, <1>10, <1>13, <1>14, <1>15, <1>16, <1>17, <1>18, <1>19, SameActivations

LEMMA AfterCallKeeps ==
  ASSUME ConventionInvariant, OperandsInRegisters, AfterCall
  PROVE  ConventionInvariant'
<1>1. /\ MachineOK /\ CallsInOrder /\ FramesApart /\ RegistersHold /\ WordsHold
      /\ pc = "returned" /\ globals' = globals
  BY DEF ConventionInvariant, AfterCall
<1>2. PICK n : n = Len(frames)
  OBVIOUS
<1>3. n \in Nat /\ n >= 1 /\ n \in 1..n /\ F = frames[n] /\ IsActivation(F) /\ Suspended(n)
      /\ DOMAIN mem = StackArea \cup GlobalArea /\ DOMAIN reg = Register /\ n \in 1..Len(frames)
  BY <1>1, <1>2 DEF MachineOK, F, Suspended
<1>4. F.begun \/ n = 1
  BY <1>1, <1>2, <1>3 DEF MachineOK
<1>5. /\ F.call.sp \in Nat /\ F.call.dropped \in Nat /\ FrameEnd(n) \in Nat
      /\ F.call.sp + F.call.dropped + Len(AtCall) = FrameEnd(n) /\ FrameEnd(n) <= StackTop
  BY <1>3, CallBelow
<1>6. CallInPlace(n) /\ CallWords(n)
  BY <1>1, <1>2, <1>3 DEF CallsInOrder, WordsHold
<1>7. reg["sp"] = F.call.sp /\ \A r \in Elements(Saved) : reg[r] = F.call.kept[r]
  BY <1>1 DEF RegistersHold
<1>8. reg["sp"] + F.call.dropped + Len(AReg) + Len(Temps) + 1 = FrameEnd(n)
  <2>1. PICK b \in Nat, d \in Nat, a \in Nat, t \in Nat, w \in Nat, e \in Nat :
          /\ b = F.call.sp /\ d = F.call.dropped /\ a = Len(AReg) /\ t = Len(Temps)
          /\ w = Len(AtCall) /\ e = FrameEnd(n)
    BY <1>5, Lengths
  <2>2. b + d + w = e /\ w = 1 + t + a
    BY <1>5, <2>1, Lengths
  <2>3. b + d + a + t + 1 = e
    BY <2>2
  <2> QED
    BY <1>7, <2>1, <2>3
<1>9. top \in Nat /\ top < MaxResult /\ F.stack \in Seq(Elements(F.stack))
  BY <1>1, <1>2, <1>3, <1>6, Activations DEF top, CallInPlace
<1>10. top + 1 <= MaxOperands /\ spilled_count(top + 1) = 0
  <2>1. top + 1 <= MaxOperands /\ top + 1 <= Len(StackRegs)
    BY <1>9, Numbers, Lengths DEF OperandsInRegisters
  <2> QED
    BY <1>9, <2>1, Lengths DEF spilled_count
<1>11. PICK w : reg' = [r \in Register |->
                   CASE r = "sp" -> FrameEnd(n)
                     [] r = "ra" -> WordAt(mem, FrameEnd(n) - 1)
                     [] r \in Elements(Temps) -> WordAt(mem, FrameEnd(n) - temp_offset(Place(r, Temps)))
                     [] r \in Elements(AReg) ->
                          WordAt(mem, reg["sp"] + F.call.dropped + argument_offset(Place(r, AReg)))
                     [] OTHER -> Written(reg, top, w)[r]]
  <2>1. FrameEnd(n) + spilled_count(top + 1) = FrameEnd(n)
    BY <1>5, <1>10
  <2> QED
    BY <1>8, <2>1 DEF AfterCall, restored_temps
<1>12. Len(AtCall) \in Nat /\ Len(AtCall) >= 4 /\ StackTop \in Nat
  BY Numbers
<1>13. WordAt(mem, FrameEnd(n) - 1) = Return(n) /\ WordAt(mem, FrameEnd(n) - 2) = GlobalBase
  <2>1. FrameEnd(n) - 1 \in DOMAIN mem /\ FrameEnd(n) - 2 \in DOMAIN mem
    BY <1>3, <1>5, <1>12, CallGap DEF StackArea
  <2> QED
    BY <1>6, <2>1 DEF WordAt, CallWords
<1>14. /\ DOMAIN reg' = Register /\ reg'["sp"] = FrameEnd(n) /\ reg'["ra"] = Return(n)
       /\ reg'["gp"] = GlobalBase
       /\ \A r \in Elements(Saved) : reg'[r] = Written(reg, top, w)[r]
  <2>1. "gp" \in Elements(Temps) /\ Elements(Temps) \subseteq Elements(AtCall)
    BY RegisterSets
  <2>2. temp_offset(Place("gp", Temps)) = 2
    BY TempsPlaces DEF temp_offset
  <2>3. "sp" \notin Elements(Temps) /\ "ra" \notin Elements(Temps)
    BY <2>1, RegistersApart, RegisterSets DEF Elements
  <2>4. reg'["sp"] = FrameEnd(n)
    BY <1>11, <2>3, SpecialRegisters
  <2>5. reg'["ra"] = WordAt(mem, FrameEnd(n) - 1)
    BY <1>11, <2>3, SpecialRegisters
  <2>6. reg'["gp"] = WordAt(mem, FrameEnd(n) - temp_offset(Place("gp", Temps)))
    BY <1>11, <2>1, SpecialRegisters
  <2>7. \A r \in Elements(Saved) :
          r \in Register /\ r # "sp" /\ r # "ra" /\ r \notin Elements(Temps) /\ r \notin Elements(AReg)
    BY <2>1, SpecialRegisters
  <2>8. \A r \in Elements(Saved) : reg'[r] = Written(reg, top, w)[r]
    BY <1>11, <2>7
  <2>9. DOMAIN reg' = Register
    BY <1>11
  <2> QED
    BY <1>13, <2>2, <2>4, <2>5, <2>6, <2>8, <2>9
<1>15. PICK f : f = [F EXCEPT !.stack = Append(F.stack, F.result), !.call = << >>, !.result = Junk]
  OBVIOUS
<1>16. /\ f.argc = F.argc /\ f.locc = F.locc /\ f.begun = F.begun /\ f.locals = F.locals
       /\ f.args = F.args /\ f.stack = Append(F.stack, F.result) /\ IsActivation(f)
  <2>1. PICK argc, locc, begun, stack, args, locals, call, result :
          F = [argc |-> argc, locc |-> locc, begun |-> begun, stack |-> stack,
               args |-> args, locals |-> locals, call |-> call, result |-> result]
    BY <1>3 DEF IsActivation
  <2>2. f = [argc |-> argc, locc |-> locc, begun |-> begun, stack |-> Append(F.stack, F.result),
             args |-> args, locals |-> locals, call |-> << >>, result |-> Junk]
    BY <1>15, <2>1
  <2>3. /\ f.argc = F.argc /\ f.locc = F.locc /\ f.begun = F.begun /\ f.locals = F.locals
        /\ f.args = F.args /\ f.stack = Append(F.stack, F.result)
    BY <2>1, <2>2
  <2>4. IsSequence(f.stack) /\ Len(f.stack) <= MaxOperands
    <3>1. PICK S : S = Elements(F.stack) \cup {F.result}
      OBVIOUS
    <3>2. F.stack \in Seq(S) /\ F.result \in S
      BY <1>9, <3>1, SeqMonotonic
    <3>3. Append(F.stack, F.result) \in Seq(S) /\ Len(Append(F.stack, F.result)) = top + 1
      BY <3>2 DEF top
    <3> QED
      BY <1>10, <2>3, <3>3, OwnElements
  <2> QED
    BY <1>3, <2>2, <2>3, <2>4 DEF IsActivation
<1>17. frames' = [frames EXCEPT ![n] = f]
  BY <1>2, <1>15 DEF AfterCall
<1>18. /\ DOMAIN mem' = DOMAIN mem /\ \A a \in StackArea : a >= FrameEnd(n) => mem'[a] = mem[a]
  <2>1. mem' = LiveMem(mem, FrameEnd(n), top + 1)
    BY <1>14 DEF AfterCall
  <2> QED
    BY <1>3, <1>5, <2>1, LiveMemKeeps
<1>19. /\ Base(n)' = Base(n) /\ FrameEnd(n)' = FrameEnd(n) /\ \A r : Found(n, r)' = Found(n, r)
       /\ ReturnWords(n)' /\ FrameEnd(n)' >= 0 /\ F' = f /\ frames'[n] = f /\ Len(frames') = n
       /\ \A a \in StackArea : a > Base(n) + on_stack(F.argc) => mem'[a] = mem[a]
  <2>1. f.locc = F.locc /\ f.begun = F.begun /\ IsActivation(f)
    BY <1>16
  <2>2. \A a \in StackArea : a >= FrameEnd(n) => mem'[a] = mem[a]
    BY <1>18
  <2>3. pc # "exit"
    BY <1>1
  <2>4. /\ Len(frames') = n /\ frames'[n] = f /\ F' = f
        /\ \A j \in 1..n - 1 : frames'[j] = frames[j]
    BY <1>1, <1>2, <1>17, <2>1, RunningReplaced
  <2>5. frames'[n].locc = F.locc /\ frames'[n].begun = F.begun
    BY <2>1, <2>4
  <2> QED
    BY <1>2, <2>2, <2>3, <2>4, <2>5, FrameKept
<1>20. CASE F.begun
  <2>1. pc' = "body" /\ f.begun
    BY <1>16, <1>20 DEF AfterCall
  <2>2. reg'["fp"] = Base(n)
    <3>1. F.call.kept["fp"] = Base(n)
      BY <1>3, <1>6, <1>20 DEF CallInPlace
    <3>2. Written(reg, top, w)["fp"] = reg["fp"]
      BY <1>3, <1>9, WrittenKeeps
    <3> QED
      BY <1>7, <1>14, <3>1, <3>2, SpecialRegisters
  <2>3. RegistersHold'
    BY <1>14, <1>19, <2>1, <2>2 DEF RegistersHold
  <2>4. pc # "exit" /\ DOMAIN globals' = DOMAIN globals
    BY <1>1
  <2> QED
    BY <1>2, <1>14, <1>16, <1>17, <1>18, <1>19, <2>1, <2>3, <2>4, SameActivations
<1>21. CASE ~F.begun
  <2>1. pc' = "entry" /\ ~f.begun /\ n = 1
    BY <1>4, <1>16, <1>21 DEF AfterCall
  <2>2. top = 0 /\ \A r \in Elements(Saved) : F.call.kept[r] = Found(n, r)
    BY <1>3, <1>6, <1>21 DEF CallInPlace, top
  <2>3. FrameEnd(n) = Base(n)
    BY <1>3, <1>21 DEF FrameEnd
  <2>4. ASSUME NEW r \in Restored(n)
        PROVE  reg'[r] = Found(n, r)
    <3>1. r \in Elements(Saved) /\ r # SReg[1]
      BY <2>1, <2>4 DEF Restored
    <3>2. SReg[1] = StackRegs[1] /\ DOMAIN reg = Register /\ r \in Register
      BY <1>3, <3>1, RegisterSequences, SpecialRegisters
    <3>3. Written(reg, top, w)[r] = reg[r]
      BY <2>2, <3>1, <3>2 DEF Written
    <3> QED
      BY <1>7, <1>14, <2>2, <3>1, <3>3
  <2>5. RegistersHold'
    BY <1>14, <1>19, <2>1, <2>3, <2>4 DEF RegistersHold, Restored
  <2>6. pc # "exit" /\ DOMAIN globals' = DOMAIN globals
    BY <1>1
  <2> QED
    BY <1>2, <1>14, <1>16, <1>17, <1>18, <1>19, <2>1, <2>5, <2>6, SameActivations
<1> QED
  BY <1>20, <1>21

\* The padding makes the stack pointer of a call even.
LEMMA Padding ==
  ASSUME NEW b \in Nat, NEW l \in Nat, NEW s \in Nat, NEW k \in Nat, NEW o \in Nat,
         b % 2 = 0, s % 2 = 0, k % 2 = 0, NEW e \in Nat, NEW sp \in Nat,
         sp = e - k - ((l + 0 + o) % 2) - o,
         e = b - (l + s) \/ (e = b /\ l % 2 = 0)
  PROVE  sp % 2 = 0
OBVIOUS

LEMMA CallAreas ==
  ASSUME NEW e \in Nat, NEW k \in Nat, NEW p \in Int, p <= e - k, NEW sp \in Int
  PROVE  /\ \A a \in Nat : a >= e => a \notin sp..p - 1 /\ a \notin e - k..e - 1
         /\ \A i \in 1..k : e - i \in e - k..e - 1 /\ e - i \notin sp..p - 1 /\ e - (e - i) = i
OBVIOUS

\* The running activation n calls with argc arguments, k of them operands.
Calls(n, argc, add, k, target) ==
  /\ ConventionInvariant /\ OperandsInRegisters /\ pc \in {"main", "body"}
  /\ n = Len(frames) /\ argc \in Nat /\ add \in {0, 1} /\ k \in Nat /\ argc = k + add /\ k <= top
  /\ Prepare(argc, add, target)

Prepared(n, argc, k) ==
  LET sp == padded(argc) - on_stack(argc)
  IN  /\ sp \in Nat /\ dropped(argc) \in Nat /\ on_stack(argc) <= dropped(argc)
      /\ sp + dropped(argc) + Len(AtCall) = FrameEnd(n)
      /\ MainLocals % 2 = 0 => sp % 2 = 0
      /\ DOMAIN mem' = DOMAIN mem
      /\ \A a \in DOMAIN mem : a \notin StackArea \/ a >= FrameEnd(n) => mem'[a] = mem[a]
      /\ \A i \in 1..Len(AtCall) : mem'[FrameEnd(n) - i] = reg[AtCall[i]]
      /\ DOMAIN reg' = Register /\ reg'["sp"] = sp /\ reg'["ra"] = Return(n + 1)
      /\ reg'["gp"] = GlobalBase
      /\ \A r \in Elements(Saved) : reg'[r] = left(k)[r]
      /\ left(k)["fp"] = reg["fp"]
      /\ ~F.begun => \A r \in Elements(Saved) : left(k)[r] = reg[r]

\* What compile_call does up to the call instruction.
LEMMA PrepareEffect ==
  ASSUME NEW n, NEW argc, NEW add, NEW k, NEW target, Calls(n, argc, add, k, target)
  PROVE  Prepared(n, argc, k)
<1>a. argc \in Nat /\ add \in {0, 1} /\ k \in Nat /\ argc = k + add /\ k <= top
  BY DEF Calls
<1>b. argc - add = k
  BY <1>a
<1> SUFFICES ASSUME ConventionInvariant, OperandsInRegisters, pc \in {"main", "body"},
                    n = Len(frames), Prepare(argc, add, target)
             PROVE  Prepared(n, argc, argc - add)
  BY <1>b DEF Calls
<1>1. MachineOK /\ CallsInOrder /\ FramesApart /\ RegistersHold
  BY DEF ConventionInvariant
<1>2. n \in Nat /\ n >= 1 /\ n \in 1..n /\ n \in 1..Len(frames) /\ F = frames[n] /\ IsActivation(F)
      /\ DOMAIN mem = StackArea \cup GlobalArea
  BY <1>1 DEF MachineOK, F
<1>3. reg["sp"] = FrameEnd(n) /\ reg["ra"] = Return(n) /\ reg["gp"] = GlobalBase
  <2>1. CASE pc = "body"
    BY <1>1, <2>1 DEF RegistersHold
  <2>2. CASE pc = "main"
    <3>1. ~frames[n].begun
      BY <1>1, <1>2, <2>2 DEF MachineOK
    <3>2. FrameEnd(n) = Base(n)
      BY <3>1 DEF FrameEnd
    <3> QED
      BY <1>1, <2>2, <3>2 DEF RegistersHold
  <2> QED
    BY <2>1, <2>2
<1>4. FrameEnd(n) \in Nat /\ F.locc \in Nat /\ top \in Nat /\ top <= MaxOperands
      /\ Base(n) \in Nat /\ FrameEnd(n) <= StackTop
  <2>1. /\ FrameEnd(n) \in Nat /\ Base(n) \in Nat /\ FrameEnd(n) <= Base(n) /\ Base(n) <= StackTop
        /\ F.locc \in Nat /\ Len(F.stack) \in Nat /\ Len(F.stack) <= MaxOperands
    BY <1>1, <1>2, FrameNumbers, Activations
  <2> QED
    BY <2>1, Numbers DEF top
<1>5. spilled_count(top) = 0
  BY <1>4, Numbers, Lengths DEF spilled_count, OperandsInRegisters
<1>6. Len(AtCall) \in Nat /\ Len(AtCall) >= 4 /\ Len(AReg) \in Nat /\ Len(Saved) \in Nat
      /\ StackTop \in Nat
  BY Numbers
<1>7. on_stack(argc) \in Nat
  BY <1>6, <1>a DEF on_stack
<1>8. skipped = FrameEnd(n) /\ pushed = FrameEnd(n) - Len(AtCall)
  BY <1>3, <1>4, <1>5 DEF skipped, pushed
<1>9. PICK al : al = alignment(argc)
  OBVIOUS
<1>10. al = (F.locc + 0 + on_stack(argc)) % 2
  BY <1>5, <1>9 DEF alignment
<1>11. al \in {0, 1}
  <2>1. PICK l \in Nat, o \in Nat : l = F.locc /\ o = on_stack(argc)
    BY <1>4, <1>7
  <2>2. (l + 0 + o) % 2 \in {0, 1}
    OBVIOUS
  <2> QED
    BY <1>10, <2>1, <2>2
<1>12. padded(argc) = FrameEnd(n) - Len(AtCall) - al /\ dropped(argc) = on_stack(argc) + al
  BY <1>8, <1>9 DEF padded, dropped
<1>13. PICK sp : sp = padded(argc) - on_stack(argc) /\ sp >= 0
  BY DEF Prepare
<1>14. /\ sp \in Nat /\ dropped(argc) \in Nat /\ on_stack(argc) <= dropped(argc)
       /\ sp + dropped(argc) + Len(AtCall) = FrameEnd(n)
       /\ padded(argc) \in Int /\ padded(argc) <= FrameEnd(n) - Len(AtCall)
  <2>1. PICK e \in Nat, w \in Nat, o \in Nat :
          e = FrameEnd(n) /\ w = Len(AtCall) /\ o = on_stack(argc)
    BY <1>4, <1>6, <1>7
  <2>2. padded(argc) = e - w - al /\ dropped(argc) = o + al /\ sp = (e - w - al) - o /\ sp >= 0
    BY <1>12, <1>13, <2>1
  <2>3. /\ sp \in Nat /\ dropped(argc) \in Nat /\ o <= dropped(argc)
        /\ sp + dropped(argc) + w = e /\ padded(argc) \in Int /\ padded(argc) <= e - w
    BY <1>11, <2>2
  <2> QED
    BY <2>1, <2>3
<1>15. /\ \A a \in Nat : a >= FrameEnd(n) => /\ a \notin sp..padded(argc) - 1
                                             /\ a \notin FrameEnd(n) - Len(AtCall)..FrameEnd(n) - 1
       /\ \A i \in 1..Len(AtCall) :
            /\ FrameEnd(n) - i \in FrameEnd(n) - Len(AtCall)..FrameEnd(n) - 1
            /\ FrameEnd(n) - i \notin sp..padded(argc) - 1 /\ FrameEnd(n) - (FrameEnd(n) - i) = i
  <2>1. /\ FrameEnd(n) \in Nat /\ Len(AtCall) \in Nat /\ padded(argc) \in Int /\ sp \in Int
        /\ padded(argc) <= FrameEnd(n) - Len(AtCall)
    BY <1>4, <1>6, <1>14
  <2> QED
    BY <2>1, CallAreas
<1>16. ASSUME MainLocals % 2 = 0
       PROVE  sp % 2 = 0
  <2>1. Base(n) % 2 = 0
    <3>1. CASE n = 1
      BY <3>1, EvenNumbers DEF Base
    <3>2. CASE n # 1
      <4>1. n - 1 \in 1..Len(frames) /\ n - 1 < Len(frames)
        BY <1>2, <3>2
      <4>2. CallInPlace(n - 1)
        BY <1>1, <4>1 DEF CallsInOrder, Suspended
      <4> QED
        BY <1>16, <3>2, <4>2 DEF CallInPlace, Base
    <3> QED
      BY <3>1, <3>2
  <2>2. sp = FrameEnd(n) - Len(AtCall) - ((F.locc + 0 + on_stack(argc)) % 2) - on_stack(argc)
    BY <1>10, <1>12, <1>13
  <2>3. /\ Base(n) \in Nat /\ F.locc \in Nat /\ Len(Saved) \in Nat /\ Len(AtCall) \in Nat
        /\ on_stack(argc) \in Nat /\ FrameEnd(n) \in Nat /\ sp \in Nat
        /\ Len(Saved) % 2 = 0 /\ Len(AtCall) % 2 = 0
    BY <1>4, <1>6, <1>7, <1>14, EvenNumbers
  <2>4. FrameEnd(n) = Base(n) - (F.locc + Len(Saved)) \/ (FrameEnd(n) = Base(n) /\ F.locc % 2 = 0)
    <3>1. CASE F.begun
      BY <1>2, <3>1 DEF FrameEnd
    <3>2. CASE ~F.begun
      <4>1. pc = "main"
        BY <1>1, <3>2 DEF MachineOK
      <4>2. F.locc = MainLocals
        BY <1>1, <1>2, <4>1 DEF MachineOK
      <4>3. FrameEnd(n) = Base(n)
        BY <1>2, <3>2 DEF FrameEnd
      <4> QED
        BY <1>16, <4>2, <4>3
    <3> QED
      BY <3>1, <3>2
  <2>5. PICK b \in Nat, l \in Nat, z \in Nat, w \in Nat, o \in Nat, e \in Nat :
          /\ b = Base(n) /\ l = F.locc /\ z = Len(Saved) /\ w = Len(AtCall)
          /\ o = on_stack(argc) /\ e = FrameEnd(n)
    BY <2>3
  <2>6. /\ b % 2 = 0 /\ z % 2 = 0 /\ w % 2 = 0
        /\ sp = e - w - ((l + 0 + o) % 2) - o
        /\ e = b - (l + z) \/ (e = b /\ l % 2 = 0)
    BY <2>1, <2>2, <2>3, <2>4, <2>5
  <2> QED
    BY <2>3, <2>6, Padding
<1>17. PICK g : mem' = [a \in DOMAIN mem |->
                  IF a \in sp..padded(argc) - 1 THEN g[padded(argc) - a] ELSE with_saved[a]]
  BY <1>13 DEF Prepare
<1>18. \A a \in DOMAIN mem : with_saved[a] =
         IF a \in FrameEnd(n) - Len(AtCall)..FrameEnd(n) - 1 THEN reg[AtCall[FrameEnd(n) - a]] ELSE mem[a]
  BY <1>8 DEF with_saved
<1>19. ASSUME NEW a \in DOMAIN mem, a \notin StackArea \/ a >= FrameEnd(n)
       PROVE  mem'[a] = mem[a]
  <2>1. a \in Nat
    BY <1>2, Numbers DEF StackArea, GlobalArea
  <2>2. a >= FrameEnd(n)
    BY <1>4, <1>6, <1>19, <2>1 DEF StackArea
  <2>3. a \notin sp..padded(argc) - 1 /\ a \notin FrameEnd(n) - Len(AtCall)..FrameEnd(n) - 1
    BY <1>15, <2>1, <2>2
  <2> QED
    BY <1>17, <1>18, <2>3
<1>20. ASSUME NEW i \in 1..Len(AtCall)
       PROVE  mem'[FrameEnd(n) - i] = reg[AtCall[i]]
  <2>1. PICK a : a = FrameEnd(n) - i
    OBVIOUS
  <2>2. a \in 0..StackTop
    <3>1. /\ sp \in Nat /\ dropped(argc) \in Nat /\ Len(AtCall) \in Nat /\ Len(AtCall) >= 4
          /\ FrameEnd(n) \in Nat /\ StackTop \in Nat /\ FrameEnd(n) <= StackTop
          /\ sp + dropped(argc) + Len(AtCall) = FrameEnd(n)
      BY <1>4, <1>6, <1>14
    <3> QED
      BY <2>1, <3>1, CallGap
  <2>3. a \in DOMAIN mem
    BY <1>2, <2>2 DEF StackArea
  <2>4. /\ a \in FrameEnd(n) - Len(AtCall)..FrameEnd(n) - 1 /\ FrameEnd(n) - a = i
        /\ a \notin sp..padded(argc) - 1
    BY <1>15, <2>1
  <2> QED
    BY <1>17, <1>18, <2>1, <2>3, <2>4
<1>21. top - (argc - add) \in Nat
  BY <1>4, <1>a, <1>b
<1>22. /\ DOMAIN left(argc - add) = Register \/ ~F.begun
       /\ left(argc - add)["fp"] = reg["fp"] /\ left(argc - add)["gp"] = reg["gp"]
  BY <1>21, LiveRegsKeeps, SpecialRegisters DEF left
<1>23. PICK v, c : reg' = [r \in Register |->
               CASE r = "sp" -> sp
                 [] r = "ra" -> Return(n + 1)
                 [] r = AReg[1] /\ add = 1 -> v
                 [] \E i \in add + 1..in_regs(argc) : AReg[i] = r -> c[r]
                 [] OTHER -> left(argc - add)[r]]
  <2>1. PICK c : c = [r \in Register |-> CellFrom(pushed, with_saved, argument_cell(argc, Place(r, AReg)))]
    OBVIOUS
  <2>2. \A r \in Register : c[r] = CellFrom(pushed, with_saved, argument_cell(argc, Place(r, AReg)))
    BY <2>1
  <2> QED
    BY <1>13, <2>2 DEF Prepare
<1>24. \A i \in add + 1..in_regs(argc) : AReg[i] \in Elements(AReg)
  <2>1. in_regs(argc) <= Len(AReg) /\ in_regs(argc) \in Int
    BY <1>6, <1>a DEF in_regs, on_stack
  <2>2. add + 1..in_regs(argc) \subseteq 1..Len(AReg)
    BY <1>6, <1>a, <2>1
  <2> QED
    BY <2>2 DEF Elements
<1>25. AReg[1] \in Elements(AReg)
  BY Lengths DEF Elements
<1>26. /\ DOMAIN reg' = Register /\ reg'["sp"] = sp /\ reg'["ra"] = Return(n + 1)
       /\ reg'["gp"] = left(argc - add)["gp"]
       /\ \A r \in Elements(Saved) : reg'[r] = left(argc - add)[r]
  <2>1. \A r \in Elements(Saved) \cup {"gp"} :
          r \in Register /\ r # "sp" /\ r # "ra" /\ r \notin Elements(AReg)
    BY SpecialRegisters
  <2>2. \A r \in Elements(Saved) \cup {"gp"} : reg'[r] = left(argc - add)[r]
    BY <1>23, <1>24, <1>25, <2>1
  <2>3. reg'["sp"] = sp
    BY <1>23, <1>24, <1>25, SpecialRegisters
  <2>4. reg'["ra"] = Return(n + 1)
    BY <1>23, <1>24, <1>25, SpecialRegisters
  <2> QED
    BY <1>23, <2>2, <2>3, <2>4
<1>27. ~F.begun => \A r \in Elements(Saved) : left(argc - add)[r] = reg[r]
  BY DEF left
<1>28. DOMAIN mem' = DOMAIN mem
  BY <1>17
<1> QED
  BY <1>3, <1>13, <1>14, <1>16, <1>19, <1>20, <1>22, <1>26, <1>27, <1>28 DEF Prepared

\* The activation that F becomes with the call.
Suspends(f, argc, k) ==
  /\ IsActivation(f)
  /\ f.argc = F.argc /\ f.locc = F.locc /\ f.begun = F.begun
  /\ f.args = F.args /\ f.locals = F.locals
  /\ f.stack = Popped(k) /\ Len(f.stack) = top - k
  /\ f.call.dropped = dropped(argc) /\ f.call.sp = padded(argc) - on_stack(argc)
  /\ \A r \in Elements(Saved) : f.call.kept[r] = left(k)[r]

LEMMA CallingEffect ==
  ASSUME NEW n, NEW argc, NEW add, NEW k, NEW target, Calls(n, argc, add, k, target)
  PROVE  \E f : Calling(argc, add) = [frames EXCEPT ![n] = f] /\ Suspends(f, argc, k)
<1> SUFFICES ASSUME MachineOK, n = Len(frames), k = argc - add, k \in Nat, k <= top
             PROVE  \E f : Calling(argc, add) = [frames EXCEPT ![n] = f] /\ Suspends(f, argc, k)
  <2>1. MachineOK /\ n = Len(frames) /\ k \in Nat /\ k <= top
    BY DEF Calls, ConventionInvariant
  <2>2. k = argc - add
    BY DEF Calls
  <2> QED
    BY <2>1, <2>2
<1>1. IsActivation(F) /\ n \in 1..Len(frames) /\ F = frames[n]
  BY DEF MachineOK, F
<1>2. top \in Nat /\ top <= MaxOperands /\ F.stack \in Seq(Elements(F.stack))
  BY <1>1 DEF IsActivation, IsSequence, top
<1>3. PICK g : g = [r \in Elements(Saved) |-> left(k)[r]]
  OBVIOUS
<1>4. PICK c : c = [dropped |-> dropped(argc), kept |-> g, sp |-> padded(argc) - on_stack(argc)]
  OBVIOUS
<1>5. PICK f : f = [F EXCEPT !.stack = Popped(k), !.call = c]
  OBVIOUS
<1>6. Calling(argc, add) = [frames EXCEPT ![n] = f]
  <2>1. Calling(argc, add) = [frames EXCEPT ![n].stack = Popped(k), ![n].call = c]
    BY <1>3, <1>4 DEF Calling
  <2> QED
    BY <1>1, <1>5, <2>1
<1>7. PICK argcs, locc, begun, stack, args, locals, call, result :
        F = [argc |-> argcs, locc |-> locc, begun |-> begun, stack |-> stack,
             args |-> args, locals |-> locals, call |-> call, result |-> result]
  BY <1>1 DEF IsActivation
<1>8. f = [argc |-> argcs, locc |-> locc, begun |-> begun, stack |-> Popped(k),
           args |-> args, locals |-> locals, call |-> c, result |-> result]
  BY <1>5, <1>7
<1>9. /\ f.argc = F.argc /\ f.locc = F.locc /\ f.begun = F.begun /\ f.args = F.args
      /\ f.locals = F.locals /\ f.stack = Popped(k) /\ f.call = c
  BY <1>7, <1>8
<1>10. Popped(k) \in Seq(Elements(F.stack)) /\ Len(Popped(k)) = top - k
  BY <1>2 DEF Popped, top
<1>11. IsSequence(f.stack) /\ Len(f.stack) <= MaxOperands
  <2>1. IsSequence(Popped(k)) /\ f.stack = Popped(k)
    BY <1>9, <1>10, OwnElements
  <2>2. PICK t \in Nat, c1 \in Nat : t = top /\ c1 = MaxOperands
    BY <1>2, Numbers
  <2>3. t - k <= c1
    BY <1>2, <2>2
  <2> QED
    BY <1>10, <2>1, <2>2, <2>3
<1>12. IsActivation(f)
  BY <1>1, <1>8, <1>9, <1>11 DEF IsActivation
<1>13. /\ c.dropped = dropped(argc) /\ c.sp = padded(argc) - on_stack(argc)
       /\ \A r \in Elements(Saved) : c.kept[r] = left(k)[r]
  BY <1>3, <1>4
<1>14. /\ f.call.dropped = dropped(argc) /\ f.call.sp = padded(argc) - on_stack(argc)
       /\ \A r \in Elements(Saved) : f.call.kept[r] = left(k)[r]
  BY <1>9, <1>13
<1>15. Len(f.stack) = top - k
  BY <1>9, <1>10
<1>16. Suspends(f, argc, k)
  BY <1>9, <1>12, <1>14, <1>15 DEF Suspends
<1> QED
  BY <1>6, <1>16

\* The activation that calls keeps its frame and finds its way back.
CallReady(n) ==
  /\ Base(n)' = Base(n) /\ FrameEnd(n)' = FrameEnd(n) /\ FrameEnd(n)' >= 0
  /\ ReturnWords(n)' /\ CallInPlace(n)' /\ CallWords(n)'
  /\ \A a \in StackArea : a > Base(n) + on_stack(F.argc) => mem'[a] = mem[a]

LEMMA CallPrepared ==
  ASSUME NEW n, NEW argc, NEW add, NEW k, NEW target, NEW f,
         Calls(n, argc, add, k, target), Suspends(f, argc, k), top - k < MaxResult,
         \A j \in 1..n - 1 : frames'[j] = frames[j], frames'[n] = f
  PROVE  CallReady(n)
<1> SUFFICES ASSUME ConventionInvariant, OperandsInRegisters, pc \in {"main", "body"},
                    n = Len(frames), k \in Nat, k <= top, Prepared(n, argc, k)
             PROVE  CallReady(n)
  BY PrepareEffect DEF Calls
<1> f.locc = F.locc /\ Len(f.stack) = top - k
    /\ f.call.dropped = dropped(argc) /\ f.call.sp = padded(argc) - on_stack(argc)
    /\ \A r \in Elements(Saved) : f.call.kept[r] = left(k)[r]
  BY DEF Suspends
<1> f.begun = F.begun
  BY DEF Suspends
<1>1. MachineOK /\ CallsInOrder /\ FramesApart /\ RegistersHold
  BY DEF ConventionInvariant
<1>2. n \in 1..Len(frames) /\ F = frames[n] /\ F.begun \in BOOLEAN
      /\ DOMAIN mem = StackArea \cup GlobalArea
  BY <1>1, Activations DEF MachineOK, F
<1>3. PICK sp : sp = padded(argc) - on_stack(argc)
  OBVIOUS
<1>4. /\ sp \in Nat /\ dropped(argc) \in Nat
      /\ sp + dropped(argc) + Len(AtCall) = FrameEnd(n)
      /\ MainLocals % 2 = 0 => sp % 2 = 0
      /\ \A a \in DOMAIN mem : a \notin StackArea \/ a >= FrameEnd(n) => mem'[a] = mem[a]
      /\ \A i \in 1..Len(AtCall) : mem'[FrameEnd(n) - i] = reg[AtCall[i]]
      /\ left(k)["fp"] = reg["fp"]
      /\ ~F.begun => \A r \in Elements(Saved) : left(k)[r] = reg[r]
  BY <1>3 DEF Prepared
<1>5. \A a \in StackArea : a >= FrameEnd(n) => mem'[a] = mem[a]
  BY <1>2, <1>4
<1>6. /\ Base(n)' = Base(n) /\ FrameEnd(n)' = FrameEnd(n) /\ \A r : Found(n, r)' = Found(n, r)
      /\ ReturnWords(n)' /\ FrameEnd(n)' >= 0
      /\ \A a \in StackArea : a > Base(n) + on_stack(F.argc) => mem'[a] = mem[a]
  <2>1. pc # "exit" /\ frames'[n].locc = F.locc /\ frames'[n].begun = F.begun
    OBVIOUS
  <2> QED
    BY <1>5, <2>1, FrameKept
<1>7. CallWords(n)'
  <2>1. reg["ra"] = Return(n) /\ reg["gp"] = GlobalBase
    BY <1>1 DEF RegistersHold
  <2>2. 1 \in 1..Len(AtCall) /\ 2 \in 1..Len(AtCall)
    BY Numbers
  <2>3. AtCall[1] = "ra" /\ AtCall[2] = "gp"
    <3>1. 1 \in 1..Len(Temps)
      BY Lengths
    <3>2. AtCall[1] = "ra" /\ AtCall[1 + 1] = Temps[1] /\ Temps[1] = "gp"
      BY <3>1, RegisterSequences
    <3> QED
      BY <3>2
  <2> QED
    BY <1>4, <1>6, <2>1, <2>2, <2>3 DEF CallWords
<1>8. CallInPlace(n)'
  <2>1. F.begun => f.call.kept["fp"] = Base(n)
    <3>1. SUFFICES ASSUME F.begun
                   PROVE  f.call.kept["fp"] = Base(n)
      OBVIOUS
    <3>2. pc = "body"
      BY <1>1, <3>1 DEF MachineOK
    <3> QED
      BY <1>1, <1>4, <3>2, SpecialRegisters DEF RegistersHold
  <2>2. ASSUME ~F.begun
        PROVE  Len(f.stack) = 0 /\ \A r \in Elements(Saved) : f.call.kept[r] = Found(n, r)
    <3>1. pc = "main"
      BY <1>1, <2>2 DEF MachineOK
    <3>2. top = 0 /\ \A r \in Elements(Saved) : reg[r] = Found(n, r)
      BY <1>1, <3>1 DEF RegistersHold
    <3>3. k = 0
      BY <3>2
    <3> QED
      <4>1. Len(f.stack) = 0
        BY <3>2, <3>3
      <4>2. \A r \in Elements(Saved) : left(k)[r] = reg[r]
        BY <1>4, <2>2
      <4> QED
        BY <3>2, <4>1, <4>2
  <2>3. /\ f.call.sp \in Nat /\ f.call.dropped \in Nat
        /\ f.call.sp + f.call.dropped + Len(AtCall) = FrameEnd(n)
        /\ MainLocals % 2 = 0 => f.call.sp % 2 = 0
        /\ Len(f.stack) < MaxResult
    BY <1>3, <1>4
  <2> QED
    BY <1>6, <2>1, <2>2, <2>3 DEF CallInPlace
<1> QED
  BY <1>6, <1>7, <1>8 DEF CallReady

\* A call that the stack machine does not follow: of a C function.
LEMMA CallsOut ==
  ASSUME NEW n, NEW argc, NEW add, NEW k, Calls(n, argc, add, k, "runtime"), top - k < MaxResult,
         frames' = Calling(argc, add), globals' = globals
  PROVE  ConventionInvariant'
<1>1. /\ ConventionInvariant /\ MachineOK /\ RegistersHold /\ n = Len(frames)
      /\ pc' = "runtime" /\ pc \in {"main", "body"}
  BY DEF Calls, ConventionInvariant, Prepare
<1>2. n \in 1..Len(frames) /\ F = frames[n]
  BY <1>1 DEF MachineOK, F
<1>3. PICK f : Calling(argc, add) = [frames EXCEPT ![n] = f] /\ Suspends(f, argc, k)
  BY CallingEffect
<1>4. /\ frames' = [frames EXCEPT ![n] = f] /\ IsActivation(f)
      /\ f.argc = F.argc /\ f.locc = F.locc /\ f.begun = F.begun
  BY <1>3 DEF Suspends
<1>5. /\ Len(frames') = n /\ frames'[n] = f /\ F' = f
      /\ \A j \in 1..n - 1 : frames'[j] = frames[j]
  BY <1>1, <1>4, RunningReplaced
<1>6. /\ f.call.sp = padded(argc) - on_stack(argc)
      /\ \A r \in Elements(Saved) : f.call.kept[r] = left(k)[r]
  BY <1>3 DEF Suspends
<1>7. CallReady(n)
  BY <1>3, <1>5, CallPrepared
<1>8. /\ FrameEnd(n)' >= 0 /\ ReturnWords(n)' /\ CallInPlace(n)' /\ CallWords(n)'
      /\ \A a \in StackArea : a > Base(n) + on_stack(F.argc) => mem'[a] = mem[a]
  BY <1>7 DEF CallReady
<1>9. Prepared(n, argc, k)
  BY PrepareEffect
<1>10. /\ DOMAIN mem' = DOMAIN mem /\ DOMAIN reg' = Register
       /\ reg'["sp"] = padded(argc) - on_stack(argc)
       /\ \A r \in Elements(Saved) : reg'[r] = left(k)[r]
  BY <1>9 DEF Prepared
<1>11. RegistersHold'
  BY <1>1, <1>5, <1>6, <1>10 DEF RegistersHold
<1>12. f.begun \/ n = 1
  <2>1. F.begun \/ n = 1
    BY <1>1 DEF MachineOK
  <2> QED
    BY <1>4, <2>1
<1>13. pc # "exit" /\ DOMAIN globals' = DOMAIN globals
  BY <1>1
<1> QED
  BY <1>1, <1>2, <1>4, <1>8, <1>10, <1>11, <1>12, <1>13, SameActivations

LEMMA CallInitKeeps ==
  ASSUME ConventionInvariant, OperandsInRegisters, CallInit
  PROVE  ConventionInvariant'
<1>1. pc = "main" /\ Prepare(0, 0, "runtime") /\ frames' = Calling(0, 0) /\ globals' = globals
  BY DEF CallInit
<1>2. top = 0 /\ MachineOK
  BY <1>1 DEF ConventionInvariant, RegistersHold
<1>3. top - 0 < MaxResult
  BY <1>2, Numbers
<1>4. Calls(Len(frames), 0, 0, 0, "runtime")
  <2>1. 0 \in Nat /\ 0 \in {0, 1} /\ 0 = 0 + 0 /\ 0 <= top
    BY <1>2
  <2> QED
    BY <1>1, <2>1 DEF Calls
<1> QED
  BY <1>1, <1>3, <1>4, CallsOut

LEMMA CallRuntimeKeeps ==
  ASSUME ConventionInvariant, OperandsInRegisters, CallRuntime
  PROVE  ConventionInvariant'
<1>1. PICK f \in Runtimes : /\ f.operands <= top /\ top - f.operands < MaxResult
                            /\ Prepare(f.operands + f.add, f.add, "runtime")
                            /\ frames' = Calling(f.operands + f.add, f.add)
  BY DEF CallRuntime
<1>2. PICK k \in Nat, add \in {0, 1} : k = f.operands /\ add = f.add
  BY CodeAssumption
<1>3. PICK argc : argc = k + add
  OBVIOUS
<1>4. pc \in {"main", "body"} /\ globals' = globals /\ MachineOK
  BY DEF CallRuntime, Running, ConventionInvariant
<1>5. argc \in Nat /\ argc = k + add /\ k <= top /\ top - k < MaxResult
  <2>1. top \in Nat
    BY <1>4, Activations DEF top
  <2> QED
    BY <1>1, <1>2, <1>3, <2>1
<1>6. Prepare(argc, add, "runtime") /\ frames' = Calling(argc, add)
  BY <1>1, <1>2, <1>3
<1>7. Calls(Len(frames), argc, add, k, "runtime")
  BY <1>2, <1>4, <1>5, <1>6 DEF Calls
<1> QED
  BY <1>4, <1>5, <1>6, <1>7, CallsOut

\* The callee gets a frame below the words that the call has saved.
LEMMA CallFunctionKeeps ==
  ASSUME ConventionInvariant, OperandsInRegisters, CallFunction
  PROVE  ConventionInvariant'
<1>1. /\ MachineOK /\ CallsInOrder /\ FramesApart /\ RegistersHold /\ pc = "body"
      /\ Len(frames) < MaxFrames /\ globals' = globals
  BY DEF ConventionInvariant, CallFunction, Running
<1>2. PICK n : n = Len(frames)
  OBVIOUS
<1>3. n \in Nat /\ n >= 1 /\ n \in 1..Len(frames) /\ F = frames[n] /\ F.begun
  BY <1>1, <1>2 DEF MachineOK, F
<1>4. PICK s \in Shapes :
        /\ s.argc <= top /\ top - s.argc < MaxResult
        /\ Prepare(s.argc, 0, "entry")
        /\ frames' = Append(Calling(s.argc, 0),
                            [argc |-> s.argc, locc |-> s.locc, begun |-> FALSE, stack |-> << >>,
                             args |-> SubSeq(F.stack, top - s.argc + 1, top), locals |-> << >>,
                             call |-> << >>, result |-> Junk])
  BY DEF CallFunction
<1>5. PICK argc \in Nat, locc \in Nat : argc = s.argc /\ locc = s.locc
  BY CodeAssumption
<1>6. PICK args, new :
        /\ args = SubSeq(F.stack, top - argc + 1, top)
        /\ new = [argc |-> argc, locc |-> locc, begun |-> FALSE, stack |-> << >>, args |-> args,
                  locals |-> << >>, call |-> << >>, result |-> Junk]
  OBVIOUS
<1>7. /\ argc <= top /\ top - argc < MaxResult /\ Prepare(argc, 0, "entry")
      /\ frames' = Append(Calling(argc, 0), new) /\ pc' = "entry"
  BY <1>4, <1>5, <1>6 DEF Prepare
<1>8. Calls(n, argc, 0, argc, "entry")
  <2>1. 0 \in {0, 1} /\ argc = argc + 0 /\ argc <= top
    <3>1. top \in Nat
      BY <1>1, Activations DEF top
    <3> QED
      BY <1>7, <3>1
  <2>2. pc \in {"main", "body"}
    BY <1>1
  <2> QED
    BY <1>2, <1>5, <1>7, <2>1, <2>2 DEF Calls
<1>9. PICK f : /\ Calling(argc, 0) = [frames EXCEPT ![n] = f] /\ Suspends(f, argc, argc)
               /\ IsActivation(f) /\ f.argc = F.argc /\ f.locc = F.locc /\ f.begun = F.begun
               /\ Len(f.stack) = top - argc
               /\ f.call.dropped = dropped(argc) /\ f.call.sp = padded(argc) - on_stack(argc)
               /\ \A r \in Elements(Saved) : f.call.kept[r] = left(argc)[r]
  BY <1>8, CallingEffect DEF Suspends
<1>10. /\ new.argc = argc /\ new.locc = locc /\ new.begun = FALSE /\ new.stack = << >>
       /\ new.args = args /\ new.locals = << >> /\ IsActivation(new)
  <2>1. /\ new.argc = argc /\ new.locc = locc /\ new.begun = FALSE /\ new.stack = << >>
        /\ new.args = args /\ new.locals = << >>
    BY <1>6
  <2>2. IsSequence(new.stack) /\ Len(new.stack) <= MaxOperands
    BY <2>1, Numbers DEF IsSequence
  <2>3. DOMAIN new.locals \subseteq 0..new.locc - 1
    BY <2>1
  <2>4. new = [argc |-> new.argc, locc |-> new.locc, begun |-> new.begun, stack |-> new.stack,
               args |-> new.args, locals |-> new.locals, call |-> new.call, result |-> new.result]
    BY <1>6
  <2> QED
    BY <2>1, <2>2, <2>3, <2>4 DEF IsActivation
<1>11. /\ Len(frames') = n + 1 /\ IsSequence(frames') /\ frames'[n] = f /\ frames'[n + 1] = new
       /\ \A j \in 1..n - 1 : frames'[j] = frames[j]
  <2>1. PICK S : S = Elements(frames) \cup {f, new}
    OBVIOUS
  <2>2. frames \in Seq(Elements(frames))
    BY <1>1 DEF MachineOK, IsSequence
  <2>3. frames \in Seq(S) /\ f \in S /\ new \in S
    BY <2>1, <2>2, SeqMonotonic
  <2>4. PICK t : t = [frames EXCEPT ![n] = f]
    OBVIOUS
  <2>5. t \in Seq(S) /\ Len(t) = n /\ \A j \in 1..n : t[j] = IF j = n THEN f ELSE frames[j]
    BY <1>2, <1>3, <2>3, <2>4
  <2>6. frames' = Append(t, new)
    BY <1>7, <1>9, <2>4
  <2>7. frames' \in Seq(S) /\ Len(frames') = n + 1 /\ frames'[n + 1] = new
        /\ \A j \in 1..n : frames'[j] = t[j]
    BY <2>3, <2>5, <2>6
  <2>8. IsSequence(frames')
    BY <2>7, OwnElements
  <2> QED
    BY <1>3, <2>5, <2>7, <2>8
<1>12. PICK sp : sp = padded(argc) - on_stack(argc)
  OBVIOUS
<1>13. /\ sp \in Nat /\ dropped(argc) \in Nat /\ on_stack(argc) <= dropped(argc)
       /\ sp + dropped(argc) + Len(AtCall) = FrameEnd(n)
       /\ DOMAIN mem' = DOMAIN mem
       /\ DOMAIN reg' = Register /\ reg'["sp"] = sp /\ reg'["ra"] = Return(n + 1)
       /\ reg'["gp"] = GlobalBase
       /\ \A r \in Elements(Saved) : reg'[r] = left(argc)[r]
  BY <1>8, <1>12, PrepareEffect DEF Prepared
<1>14. /\ Base(n)' = Base(n) /\ FrameEnd(n)' = FrameEnd(n) /\ FrameEnd(n)' >= 0
       /\ ReturnWords(n)' /\ CallInPlace(n)' /\ CallWords(n)'
       /\ \A a \in StackArea : a > Base(n) + on_stack(F.argc) => mem'[a] = mem[a]
  BY <1>7, <1>8, <1>9, <1>11, CallPrepared DEF CallReady
<1>15. /\ \A j \in 1..n : Base(j)' = Base(j)
       /\ \A j \in 1..n - 1 :
            FrameEnd(j)' = FrameEnd(j) /\ ReturnWords(j)' /\ CallWords(j)' /\ CallInPlace(j)'
  <2>1. pc # "exit" /\ frames[n] = F
    BY <1>1, <1>3
  <2> QED
    BY <1>3, <1>11, <1>14, <2>1, LowerFrames DEF Alike
<1>16. PICK m : m = n + 1
  OBVIOUS
<1>17. m \in Nat /\ m - 1 = n /\ m # 1 /\ m # n /\ 1 # m /\ \A j \in 1..m : j = m \/ j = n \/ j \in 1..n - 1
  BY <1>3, <1>16
<1>18. Base(m)' = sp /\ FrameEnd(m)' = sp
  <2>1. Base(m)' = f.call.sp
    BY <1>11, <1>17 DEF Base
  <2>2. frames'[m] = new /\ ~new.begun
    BY <1>10, <1>11, <1>16
  <2> QED
    BY <1>9, <1>12, <2>1, <2>2 DEF FrameEnd
<1>19. \A j \in 1..m : Suspended(j)' <=> j # m
  BY <1>3, <1>7, <1>11, <1>16 DEF Suspended
<1>20. MachineOK'
  <2>1. \A j \in 1..m : IsActivation(frames'[j])
    <3>1. \A j \in 1..n - 1 : IsActivation(frames[j])
      BY <1>1, <1>2, <1>3 DEF MachineOK
    <3> QED
      BY <1>9, <1>10, <1>11, <1>16, <1>17, <3>1
  <2>2. frames'[1].locc = MainLocals
    <3>1. frames[1].locc = MainLocals
      BY <1>1 DEF MachineOK
    <3>2. n = 1 \/ 1 \in 1..n - 1
      BY <1>3
    <3> QED
      BY <1>3, <1>9, <1>11, <3>1, <3>2
  <2>3. \A j \in 1..n : frames'[j].begun
    <3>1. \A j \in 1..n - 1 : frames[j].begun
      <4>1. \A j \in 1..n - 1 : j \in 1..Len(frames) /\ Suspended(j) /\ ~(j = 1 /\ Len(frames) = 1)
        BY <1>2, <1>3 DEF Suspended
      <4> QED
        BY <1>1, <4>1 DEF MachineOK
    <3>2. \A j \in 1..n : j = n \/ j \in 1..n - 1
      BY <1>3
    <3> QED
      BY <1>3, <1>9, <1>11, <3>1, <3>2
  <2>4. ~F'.begun
    BY <1>10, <1>11 DEF F
  <2>5. m \in 1..MaxFrames /\ Len(frames') = m
    <3>1. MaxFrames \in Nat
      BY CodeAssumption
    <3> QED
      BY <1>1, <1>2, <1>3, <1>11, <1>16, <3>1
  <2>6. DOMAIN mem' = StackArea \cup GlobalArea /\ DOMAIN globals' = 0..Globals - 1
    BY <1>1, <1>13 DEF MachineOK
  <2>7. \A j \in 1..m : Suspended(j)' => frames'[j].begun
    BY <1>17, <1>19, <2>3
  <2> QED
    BY <1>7, <1>11, <1>13, <2>1, <2>2, <2>4, <2>5, <2>6, <2>7 DEF MachineOK
<1>21. CallsInOrder'
  BY <1>11, <1>14, <1>15, <1>16, <1>17, <1>19 DEF CallsInOrder
<1>22. FramesApart'
  <2>1. ASSUME NEW i \in 1..m, NEW j \in 1..m, i < j
        PROVE  Base(j)' + Len(AtCall) <= FrameEnd(i)'
    <3>1. CASE j # m
      <4>1. i \in 1..n - 1 /\ i \in 1..Len(frames) /\ j \in 1..n /\ j \in 1..Len(frames)
        BY <1>2, <1>3, <1>16, <2>1, <3>1
      <4>2. Base(j) + Len(AtCall) <= FrameEnd(i)
        BY <1>1, <2>1, <4>1 DEF FramesApart
      <4> QED
        BY <1>15, <4>1, <4>2
    <3>2. CASE j = m
      <4>1. sp + Len(AtCall) <= FrameEnd(n)
        <5>1. Len(AtCall) \in Nat
          BY Numbers
        <5> QED
          BY <1>13, <5>1
      <4>2. CASE i = n
        BY <1>14, <1>18, <3>2, <4>1, <4>2
      <4>3. CASE i # n
        <5>1. i \in 1..n - 1 /\ i \in 1..Len(frames) /\ i < n
          BY <1>2, <1>3, <1>16, <2>1, <4>3
        <5>2. Base(n) + Len(AtCall) <= FrameEnd(i)
          BY <1>1, <1>3, <5>1 DEF FramesApart
        <5>3. /\ FrameEnd(n) <= Base(n) /\ FrameEnd(n) \in Nat /\ Base(n) \in Nat
              /\ FrameEnd(i) \in Nat
          BY <1>1, <1>3, <5>1, FrameNumbers
        <5>4. sp + Len(AtCall) <= FrameEnd(i)
          <6>1. Len(AtCall) \in Nat
            BY Numbers
          <6> QED
            BY <1>13, <4>1, <5>2, <5>3, <6>1
        <5> QED
          BY <1>15, <1>18, <3>2, <5>1, <5>4
      <4> QED
        BY <4>2, <4>3
    <3> QED
      BY <3>1, <3>2
  <2>2. ASSUME NEW j \in 1..m
        PROVE  FrameEnd(j)' >= 0
    <3>1. \A i \in 1..n - 1 : FrameEnd(i) >= 0
      BY <1>1, <1>2, <1>3 DEF FramesApart
    <3> QED
      BY <1>13, <1>14, <1>15, <1>17, <1>18, <3>1
  <2>3. ASSUME NEW j \in 1..m
        PROVE  on_stack(frames'[j].argc) <= IF j = 1 THEN 0 ELSE frames'[j - 1].call.dropped
    <3>1. CASE j = m
      BY <1>9, <1>10, <1>11, <1>13, <1>16, <1>17, <3>1
    <3>2. CASE j # m
      <4>1. j \in 1..n /\ j \in 1..Len(frames) /\ (j # 1 => j - 1 \in 1..n - 1)
            /\ (j = n \/ j \in 1..n - 1)
        BY <1>2, <1>3, <1>16, <3>2
      <4>2. on_stack(frames[j].argc) <= IF j = 1 THEN 0 ELSE frames[j - 1].call.dropped
        BY <1>1, <4>1 DEF FramesApart
      <4>3. frames'[j].argc = frames[j].argc
        BY <1>3, <1>9, <1>11, <4>1
      <4> QED
        BY <1>11, <4>1, <4>2, <4>3
    <3> QED
      BY <3>1, <3>2
  <2> QED
    BY <1>11, <1>16, <2>1, <2>2, <2>3 DEF FramesApart
<1>23. ReturnWords(m)'
  BY <1>10, <1>11, <1>16 DEF ReturnWords
<1>24. WordsHold'
  BY <1>11, <1>14, <1>15, <1>16, <1>17, <1>19, <1>23 DEF WordsHold
<1>25. RegistersHold'
  <2>1. \A r \in Elements(Saved) : Found(m, r)' = f.call.kept[r]
    BY <1>11, <1>17 DEF Found
  <2>2. Restored(m) = Elements(Saved)
    BY <1>17 DEF Restored
  <2>3. \A r \in Elements(Saved) : reg'[r] = f.call.kept[r]
    BY <1>8, <1>9, <1>13
  <2>4. Len(frames') = m
    BY <1>11, <1>16
  <2>5. Return(m) = Return(n + 1)
    BY <1>16
  <2> QED
    BY <1>7, <1>13, <1>18, <2>1, <2>2, <2>3, <2>4, <2>5 DEF RegistersHold
<1> QED
  BY <1>20, <1>21, <1>22, <1>24, <1>25 DEF ConventionInvariant

-----------------------------------------------------------------------------
(* The calling convention.                                                 *)

LEMMA ConventionInit ==
  ASSUME CodeInit
  PROVE  ConventionInvariant
<1>1. PICK f : /\ f = [argc |-> 0, locc |-> MainLocals, begun |-> FALSE, stack |-> << >>,
                       args |-> << >>, locals |-> << >>, call |-> << >>, result |-> Junk]
               /\ frames = <<f>>
  BY DEF CodeInit
<1>2. /\ f.argc = 0 /\ f.locc = MainLocals /\ f.begun = FALSE /\ f.stack = << >>
      /\ f.args = << >> /\ f.locals = << >>
  BY <1>1
<1>3. Len(frames) = 1 /\ frames[1] = f /\ F = f /\ frames \in Seq({f})
  BY <1>1 DEF F
<1>4. IsSequence(frames)
  BY <1>3, OwnElements
<1>5. IsActivation(f)
  <2>1. IsSequence(f.stack) /\ Len(f.stack) <= MaxOperands
    BY <1>2, Numbers DEF IsSequence
  <2>2. f = [argc |-> f.argc, locc |-> f.locc, begun |-> f.begun, stack |-> f.stack,
             args |-> f.args, locals |-> f.locals, call |-> f.call, result |-> f.result]
    BY <1>1
  <2>3. DOMAIN f.locals \subseteq 0..f.locc - 1
    BY <1>2
  <2>4. f.argc \in Nat /\ f.locc \in Nat
    BY <1>2, Numbers
  <2>5. f.begun \in BOOLEAN
    BY <1>2
  <2> QED
    BY <2>1, <2>2, <2>3, <2>4, <2>5 DEF IsActivation
<1>6. pc = "main" /\ DOMAIN mem = StackArea \cup GlobalArea /\ DOMAIN globals = 0..Globals - 1
  BY DEF CodeInit, GlobalArea
<1>7. /\ DOMAIN reg = Register /\ reg["sp"] = StackTop /\ reg["ra"] = Return(1)
      /\ reg["gp"] = GlobalBase
      /\ \A r \in Elements(Saved) : reg[r] = Foreign(Place(r, Saved))
  BY SpecialRegisters DEF CodeInit
<1>8. Base(1) = StackTop /\ FrameEnd(1) = StackTop
  <2>1. Base(1) = StackTop
    BY DEF Base
  <2> QED
    BY <1>2, <1>3, <2>1 DEF FrameEnd
<1>9. \A j \in 1..Len(frames) : j = 1 /\ ~Suspended(j)
  BY <1>3, <1>6 DEF Suspended
<1>10. MachineOK
  <2>1. Len(frames) \in 1..MaxFrames
    BY <1>3, CodeAssumption
  <2>2. ~F.begun
    BY <1>2, <1>3
  <2> QED
    BY <1>2, <1>3, <1>4, <1>5, <1>6, <1>7, <1>9, <2>1, <2>2 DEF MachineOK
<1>11. CallsInOrder
  BY <1>9 DEF CallsInOrder
<1>12. FramesApart
  <2>1. \A i, j \in 1..Len(frames) : ~(i < j)
    BY <1>3
  <2>2. FrameEnd(1) >= 0
    BY <1>8, Numbers
  <2>3. on_stack(frames[1].argc) <= 0
    BY <1>2, <1>3, Numbers DEF on_stack
  <2> QED
    BY <1>9, <2>1, <2>2, <2>3 DEF FramesApart
<1>13. RegistersHold
  <2>1. top = 0
    BY <1>2, <1>3 DEF top
  <2>2. \A r \in Elements(Saved) : reg[r] = Found(1, r)
    BY <1>7 DEF Found
  <2> QED
    BY <1>3, <1>6, <1>7, <1>8, <2>1, <2>2 DEF RegistersHold
<1>14. WordsHold
  <2>1. ReturnWords(1)
    BY <1>2, <1>3 DEF ReturnWords
  <2> QED
    BY <1>9, <2>1 DEF WordsHold
<1> QED
  BY <1>10, <1>11, <1>12, <1>13, <1>14 DEF ConventionInvariant

LEMMA ConventionStep ==
  ASSUME ConventionInvariant, OperandsInRegisters, [CodeNext]_vars
  PROVE  ConventionInvariant'
<1>1. CASE CallInit
  BY <1>1, CallInitKeeps
<1>2. CASE AfterCall
  BY <1>2, AfterCallKeeps
<1>3. CASE SaveRegisters
  BY <1>3, SaveRegistersKeeps
<1>4. CASE End
  BY <1>4, EndKeeps
<1>5. CASE CallRuntime
  BY <1>5, CallRuntimeKeeps
<1>6. CASE RuntimeReturns
  BY <1>6, RuntimeReturnsKeeps
<1>7. CASE CallFunction
  BY <1>7, CallFunctionKeeps
<1>8. CASE Const
  BY <1>8, ConstKeeps
<1>9. CASE LoadArg \/ LoadLocal \/ LoadGlobal
  BY <1>9, LoadKeeps
<1>10. CASE StoreArg
  BY <1>10, StoreArgKeeps
<1>11. CASE StoreLocal
  BY <1>11, StoreLocalKeeps
<1>12. CASE StoreGlobal
  BY <1>12, StoreGlobalKeeps
<1>13. CASE Drop
  BY <1>13, DropKeeps
<1>14. CASE Duplicate
  BY <1>14, DuplicateKeeps
<1>15. CASE Swap
  BY <1>15, SwapKeeps
<1>16. CASE Binop
  BY <1>16, BinopKeeps
<1>17. CASE UNCHANGED vars
  <2>1. frames' = frames /\ pc' = pc /\ reg' = reg /\ mem' = mem /\ globals' = globals
    BY <1>17 DEF vars
  <2>2. MachineOK'
    BY <2>1 DEF ConventionInvariant, MachineOK, Suspended, F
  <2>3. /\ \A j : Base(j)' = Base(j) /\ FrameEnd(j)' = FrameEnd(j)
        /\ \A j, x : Found(j, x)' = Found(j, x)
    BY <2>1 DEF Base, FrameEnd, Found
  <2>4. CallsInOrder'
    BY <2>1, <2>3 DEF ConventionInvariant, CallsInOrder, CallInPlace, Suspended
  <2>5. FramesApart'
    BY <2>1, <2>3 DEF ConventionInvariant, FramesApart
  <2>6. RegistersHold'
    BY <2>1, <2>3 DEF ConventionInvariant, RegistersHold, F, top
  <2>7. WordsHold'
    BY <2>1, <2>3 DEF ConventionInvariant, WordsHold, ReturnWords, CallWords, Suspended
  <2> QED
    BY <2>2, <2>4, <2>5, <2>6, <2>7 DEF ConventionInvariant
<1> QED
  BY <1>1, <1>2, <1>3, <1>4, <1>5, <1>6, <1>7, <1>8, <1>9, <1>10, <1>11, <1>12, <1>13, <1>14,
     <1>15, <1>16, <1>17 DEF CodeNext

\* Through every program the frames of the activations and the words and registers that
\* calls save stay where the prologue (Begin), compile_call and the epilogue (End) of
\* symb_stack.h and emit.cpp look for them, as long as every operand has a register.
THEOREM ConventionHolds == OperandsInRegisters /\ CodeSpec => []ConventionInvariant
<1> SUFFICES ASSUME OperandsInRegisters
             PROVE  CodeSpec => []ConventionInvariant
  OBVIOUS
<1>1. CodeInit => ConventionInvariant
  BY ConventionInit
<1>2. ConventionInvariant /\ [CodeNext]_vars => ConventionInvariant'
  BY ConventionStep
<1> QED
  BY <1>1, <1>2, PTL DEF CodeSpec

\* Whenever an instruction starts, the stack pointer is at the end of the frame and ra
\* leads back to the caller: SymbolicStack and compile_call leave nothing of a call.
THEOREM FrameInPlaceHolds == OperandsInRegisters /\ CodeSpec => []FrameInPlace
<1>1. ConventionInvariant => FrameInPlace
  <2> SUFFICES ASSUME ConventionInvariant, pc = "body"
               PROVE  /\ reg["sp"] = reg["fp"] - (F.locc + Len(Saved))
                      /\ reg["ra"] = Return(Len(frames))
    BY DEF FrameInPlace, Running
  <2>1. MachineOK /\ RegistersHold
    BY DEF ConventionInvariant
  <2>2. reg["fp"] = Base(Len(frames)) /\ reg["sp"] = FrameEnd(Len(frames))
        /\ reg["ra"] = Return(Len(frames))
    BY <2>1 DEF RegistersHold
  <2>3. F.begun
    BY <2>1 DEF MachineOK
  <2> QED
    BY <2>2, <2>3 DEF FrameEnd, F
<1> QED
  BY <1>1, ConventionHolds, PTL

\* A function returns with the callee-saved registers and the stack pointer that its
\* caller has at the call: Begin saves what End restores, under every nesting of calls.
THEOREM CalleeRestoresHolds == OperandsInRegisters /\ CodeSpec => []CalleeRestores
<1>1. ConventionInvariant => CalleeRestores
  BY DEF ConventionInvariant, RegistersHold, CalleeRestores
<1> QED
  BY <1>1, ConventionHolds, PTL

\* main returns with the stack pointer, the return address and the saved registers of
\* its caller, but for the one that the call of __init gives its result (main and End).
THEOREM LeavesAsFoundHolds == OperandsInRegisters /\ CodeSpec => []LeavesAsFound
<1>1. ConventionInvariant => LeavesAsFound
  <2> SUFFICES ASSUME ConventionInvariant, pc = "exit"
               PROVE  /\ reg["sp"] = StackTop /\ reg["ra"] = Return(1)
                      /\ \A r \in Elements(Saved) \ {SReg[1]} : reg[r] = Foreign(Place(r, Saved))
    BY DEF LeavesAsFound
  <2>1. Len(frames) = 1
    BY DEF ConventionInvariant, MachineOK
  <2> QED
    BY <2>1 DEF ConventionInvariant, RegistersHold, Restored, Found
<1> QED
  BY <1>1, ConventionHolds, PTL

\* "Align sp to 16 bytes" (compile_call): if main has an even number of locals, every
\* function is entered with an aligned stack, whatever frames and arguments lie above.
THEOREM CallsAlignedHolds ==
  OperandsInRegisters /\ MainLocals % 2 = 0 /\ CodeSpec => []CallsAligned
<1> SUFFICES ASSUME OperandsInRegisters, MainLocals % 2 = 0
             PROVE  CodeSpec => []CallsAligned
  OBVIOUS
<1>1. ConventionInvariant => CallsAligned
  <2> SUFFICES ASSUME ConventionInvariant, pc \in {"runtime", "entry"}
               PROVE  reg["sp"] % 2 = 0
    BY DEF CallsAligned
  <2>1. MachineOK /\ RegistersHold /\ CallsInOrder
    BY DEF ConventionInvariant
  <2>2. PICK n : n = Len(frames)
    OBVIOUS
  <2>3. n \in Nat /\ n >= 1 /\ n \in 1..Len(frames) /\ F = frames[n]
    BY <2>1, <2>2 DEF MachineOK, F
  <2>4. CASE pc = "runtime"
    <3>1. CallInPlace(n)
      BY <2>1, <2>3, <2>4 DEF CallsInOrder, Suspended
    <3> QED
      BY <2>1, <2>3, <2>4, <3>1 DEF CallInPlace, RegistersHold
  <2>5. CASE pc = "entry"
    <3>1. reg["sp"] = Base(n)
      BY <2>1, <2>2, <2>5 DEF RegistersHold
    <3>2. CASE n = 1
      BY <3>1, <3>2, EvenNumbers DEF Base
    <3>3. CASE n # 1
      <4>1. n - 1 \in 1..Len(frames) /\ n - 1 < Len(frames)
        BY <2>2, <2>3, <3>3
      <4>2. CallInPlace(n - 1)
        BY <2>1, <4>1 DEF CallsInOrder, Suspended
      <4> QED
        BY <3>1, <3>3, <4>2 DEF Base, CallInPlace
    <3> QED
      BY <3>2, <3>3
  <2> QED
    BY <2>4, <2>5
<1> QED
  BY <1>1, ConventionHolds, PTL

-----------------------------------------------------------------------------
(* The values of operands, arguments, locals and globals.                  *)

\* The words of the locals lie in the frame, and those of the arguments that a call
\* saves above the last word of its saved registers.
LEMMA ValueAddresses ==
  ASSUME ConventionInvariant, NEW j \in 1..Len(frames), frames[j].argc < Len(AReg),
         ~frames[j].begun => DOMAIN frames[j].locals = {}
  PROVE  /\ \A i \in DOMAIN frames[j].locals :
              Base(j) - i \in StackArea /\ Base(j) - i >= FrameEnd(j)
         /\ \A i \in 1..frames[j].argc :
              /\ FrameEnd(j) - (1 + Len(Temps) + i) \in Int
              /\ FrameEnd(j) - (1 + Len(Temps) + i) > FrameEnd(j) - Len(AtCall)
              /\ FrameEnd(j) - (1 + Len(Temps) + i) <= StackTop
<1>1. /\ Base(j) \in Nat /\ FrameEnd(j) \in Nat /\ FrameEnd(j) <= Base(j) /\ Base(j) <= StackTop
      /\ frames[j].begun => FrameEnd(j) = Base(j) - (frames[j].locc + Len(Saved))
      /\ frames[j].locc \in Nat /\ frames[j].argc \in Nat
      /\ DOMAIN frames[j].locals \subseteq 0..frames[j].locc - 1
  <2>1. MachineOK /\ CallsInOrder /\ FramesApart /\ IsActivation(frames[j])
    BY DEF ConventionInvariant, MachineOK
  <2> QED
    BY <2>1, FrameNumbers, Activations DEF IsActivation
<1>2. PICK b \in Nat, e \in Nat, t \in Nat, l \in Nat, s \in Nat, p \in Nat, a \in Nat, c \in Nat :
        /\ b = Base(j) /\ e = FrameEnd(j) /\ t = StackTop /\ l = frames[j].locc /\ s = Len(Saved)
        /\ p = Len(Temps) /\ a = Len(AReg) /\ c = frames[j].argc
  BY <1>1, Numbers, Lengths
<1>3. e <= b /\ b <= t /\ c < a /\ Len(AtCall) = 1 + p + a
  BY <1>1, <1>2, Lengths
<1>4. ASSUME NEW i \in DOMAIN frames[j].locals
      PROVE  Base(j) - i \in StackArea /\ Base(j) - i >= FrameEnd(j)
  <2>1. frames[j].begun
    OBVIOUS
  <2>2. e = b - (l + s)
    BY <1>1, <1>2, <2>1
  <2>3. i \in Nat /\ i <= l - 1
    BY <1>1, <1>2
  <2>4. b - i \in 0..t /\ b - i >= e
    BY <1>3, <2>2, <2>3
  <2> QED
    BY <1>2, <2>4 DEF StackArea
<1>5. ASSUME NEW i \in 1..frames[j].argc
      PROVE  /\ FrameEnd(j) - (1 + Len(Temps) + i) \in Int
             /\ FrameEnd(j) - (1 + Len(Temps) + i) > FrameEnd(j) - Len(AtCall)
             /\ FrameEnd(j) - (1 + Len(Temps) + i) <= StackTop
  <2>1. i \in 1..c
    BY <1>2
  <2>2. e - (1 + p + i) \in Int /\ e - (1 + p + i) > e - (1 + p + a) /\ e - (1 + p + i) <= t
    BY <1>3, <2>1
  <2> QED
    BY <1>2, <1>3, <2>2
<1> QED
  BY <1>4, <1>5

\* The words of the globals are none of the stack.
LEMMA GlobalAddresses ==
  \A i \in 0..Globals - 1 : GlobalBase + i \in GlobalArea /\ GlobalBase + i \notin StackArea
BY Numbers DEF GlobalArea, StackArea

\* A frame stays where it is as long as its caller does not call again.
LEMMA SameBase ==
  ASSUME NEW n \in 1..Len(frames), \A j \in 1..n - 1 : frames'[j] = frames[j]
  PROVE  Base(n)' = Base(n)
<1>1. n = 1 \/ n - 1 \in 1..n - 1
  OBVIOUS
<1> QED
  BY <1>1 DEF Base

\* What the values depend on in an activation.
Equal(g, f) == Alike(g, f) /\ g.args = f.args /\ g.locals = f.locals

\* The activations above the m-th keep their values in a step that keeps the words above
\* its frame.
LEMMA LowerValues ==
  ASSUME ConventionInvariant, pc # "exit", NEW m \in 1..Len(frames),
         \A j \in 1..Len(frames) : ActivationHolds(j),
         \A j \in 1..m - 1 : Equal(frames'[j], frames[j]),
         \A a \in StackArea : a > Base(m) => mem'[a] = mem[a]
  PROVE  \A j \in 1..m - 1 : ActivationHolds(j)'
<1>1. MachineOK /\ CallsInOrder /\ FramesApart
  BY DEF ConventionInvariant
<1> TAKE j \in 1..m - 1
<1>2. j \in 1..Len(frames) /\ j < m /\ j \in 1..m /\ j < Len(frames) /\ Len(frames) \in Nat
  BY <1>1, Activations
<1>3. frames[j].argc < Len(AReg) /\ LocalWords(j) /\ KeptOperands(j) /\ ArgumentWords(j)
  BY <1>2 DEF ActivationHolds, Suspended
<1>4. on_stack(frames[m].argc) = 0 /\ Base(m) \in Nat
  <2>1. frames[m].argc \in Nat /\ frames[m].argc < Len(AReg) /\ Len(AReg) \in Nat
    BY <1>1, Activations, Numbers DEF ActivationHolds
  <2> QED
    BY <1>1, <2>1, FrameNumbers DEF on_stack
<1>5. Base(j)' = Base(j) /\ FrameEnd(j)' = FrameEnd(j)
  <2>1. \A a \in StackArea : a > Base(m) + on_stack(frames[m].argc) => mem'[a] = mem[a]
    BY <1>4
  <2>2. \A k \in 1..m - 1 : Alike(frames'[k], frames[k])
    BY DEF Equal
  <2> QED
    BY <1>2, <2>1, <2>2, LowerFrames
<1>6. Base(m) + Len(AtCall) <= FrameEnd(j) /\ FrameEnd(j) \in Nat /\ Len(AtCall) \in Nat
  BY <1>1, <1>2, FrameNumbers, Numbers DEF FramesApart
<1>7. LocalWords(j)'
  <2>1. ASSUME NEW i \in DOMAIN frames[j].locals
        PROVE  mem'[Base(j) - i] = mem[Base(j) - i]
    <3>1. Base(j) - i \in StackArea /\ Base(j) - i >= FrameEnd(j)
      BY <1>2, <1>3, ValueAddresses DEF LocalWords
    <3>2. Base(j) - i > Base(m)
      BY <1>4, <1>6, <3>1, Numbers DEF StackArea
    <3> QED
      BY <3>1, <3>2
  <2> QED
    BY <1>3, <1>5, <2>1 DEF LocalWords, Equal, Alike
<1>8. ArgumentWords(j)'
  <2>1. ASSUME NEW i \in 1..frames[j].argc
        PROVE  mem'[FrameEnd(j) - (1 + Len(Temps) + i)] = mem[FrameEnd(j) - (1 + Len(Temps) + i)]
    <3>1. PICK x : x = FrameEnd(j) - (1 + Len(Temps) + i)
      OBVIOUS
    <3>2. x \in Int /\ x > FrameEnd(j) - Len(AtCall) /\ x <= StackTop
      BY <1>2, <1>3, <3>1, ValueAddresses DEF LocalWords
    <3>3. x \in StackArea /\ x > Base(m)
      <4>1. PICK b \in Nat, e \in Nat, w \in Nat, t \in Nat :
              b = Base(m) /\ e = FrameEnd(j) /\ w = Len(AtCall) /\ t = StackTop
        BY <1>4, <1>6, Numbers
      <4>2. b + w <= e /\ x \in Int /\ x > e - w /\ x <= t
        BY <1>6, <3>2, <4>1
      <4>3. x \in 0..t /\ x > b
        BY <4>2
      <4> QED
        BY <4>1, <4>3 DEF StackArea
    <3> QED
      BY <3>1, <3>3
  <2> QED
    BY <1>3, <1>5, <2>1 DEF ArgumentWords, Equal, Alike
<1>9. KeptOperands(j)'
  BY <1>3 DEF KeptOperands, Equal, Alike
<1> QED
  BY <1>3, <1>7, <1>8, <1>9 DEF ActivationHolds, Equal, Alike

\* A step of the running activation alone.
LEMMA RunningValues ==
  ASSUME ValuesInvariant, pc # "exit", ConventionInvariant', NEW n, n = Len(frames),
         NEW f, IsActivation(f), f.locc = F.locc, frames' = [frames EXCEPT ![n] = f],
         \A a \in StackArea : a > Base(n) => mem'[a] = mem[a],
         ActivationHolds(n)', ValuesInRegisters', GlobalsHeld'
  PROVE  ValuesInvariant'
<1>1. ConventionInvariant /\ MachineOK /\ \A j \in 1..Len(frames) : ActivationHolds(j)
  BY DEF ValuesInvariant, ConventionInvariant
<1>2. n \in 1..Len(frames)
  BY <1>1 DEF MachineOK
<1>3. Len(frames') = n /\ \A j \in 1..n - 1 : frames'[j] = frames[j]
  BY <1>1, RunningReplaced
<1>4. \A j \in 1..n - 1 : Equal(frames'[j], frames[j])
  BY <1>3 DEF Equal, Alike
<1>5. \A j \in 1..n - 1 : ActivationHolds(j)'
  BY <1>1, <1>2, <1>4, LowerValues
<1>6. \A j \in 1..n : j = n \/ j \in 1..n - 1
  BY <1>2
<1> QED
  BY <1>3, <1>5, <1>6 DEF ValuesInvariant

\* An instruction that changes operands and words below the frame only.
LEMMA InstructionValues ==
  ASSUME ValuesInvariant, Running, ConventionInvariant', pc' = "body",
         NEW S, NEW s \in Seq(S), Len(s) <= MaxOperands, frames' = With(s),
         \A k \in 1..Len(s) : reg'[StackRegs[k]] = s[k],
         \A r \in Elements(AReg) : reg'[r] = reg[r],
         \A a \in DOMAIN mem : a \notin StackArea \/ a >= FrameEnd(Len(frames)) => mem'[a] = mem[a],
         globals' = globals
  PROVE  ValuesInvariant'
<1>1. ConventionInvariant /\ MachineOK /\ CallsInOrder /\ FramesApart /\ pc = "body"
      /\ \A j \in 1..Len(frames) : ActivationHolds(j)
  BY DEF ValuesInvariant, ConventionInvariant, Running
<1>2. PICK n : n = Len(frames)
  OBVIOUS
<1>3. n \in 1..Len(frames) /\ F = frames[n] /\ StackArea \subseteq DOMAIN mem
      /\ GlobalArea \subseteq DOMAIN mem
  BY <1>1, <1>2 DEF MachineOK, F
<1>4. PICK f : /\ frames' = [frames EXCEPT ![Len(frames)] = f]
               /\ IsActivation(f) /\ f.stack = s
               /\ f.argc = F.argc /\ f.locc = F.locc /\ f.begun = F.begun
               /\ f.args = F.args /\ f.locals = F.locals
  BY <1>1, NewStack
<1>5. Len(frames') = n /\ frames'[n] = f /\ F' = f /\ \A j \in 1..n - 1 : frames'[j] = frames[j]
  BY <1>1, <1>2, <1>4, RunningReplaced
<1>6. /\ Base(n) \in Nat /\ FrameEnd(n) \in Nat /\ FrameEnd(n) <= Base(n)
  BY <1>1, <1>3, FrameNumbers
<1>7. \A a \in StackArea : a > Base(n) => mem'[a] = mem[a]
  BY <1>2, <1>3, <1>6, Numbers DEF StackArea
<1>8. Base(n)' = Base(n)
  BY <1>2, <1>3, <1>5, SameBase
<1>9. ActivationHolds(n)'
  <2>1. frames[n].argc < Len(AReg) /\ LocalWords(n)
    BY <1>1, <1>3 DEF ActivationHolds
  <2>2. \A i \in DOMAIN F.locals : mem'[Base(n) - i] = mem[Base(n) - i]
    BY <1>1, <1>2, <1>3, <2>1, ValueAddresses DEF LocalWords
  <2>3. LocalWords(n)'
    BY <1>3, <1>4, <1>5, <1>8, <2>1, <2>2 DEF LocalWords
  <2>4. ~Suspended(n)'
    BY <1>3, <1>5, <1>2 DEF Suspended
  <2> QED
    BY <1>3, <1>4, <1>5, <2>1, <2>3, <2>4 DEF ActivationHolds
<1>10. ValuesInRegisters'
  <2>1. \A i \in 1..F.argc : reg[AReg[i]] = F.args[i]
    BY <1>1 DEF ValuesInvariant, ValuesInRegisters
  <2>2. \A i \in 1..F.argc : AReg[i] \in Elements(AReg)
    <3>1. F.argc \in Nat /\ F.argc < Len(AReg) /\ Len(AReg) \in Nat
      BY <1>1, <1>3, Activations, Numbers DEF ActivationHolds
    <3> QED
      BY <3>1 DEF Elements
  <2>3. top' = Len(s)
    BY <1>4, <1>5 DEF top
  <2> QED
    BY <1>4, <1>5, <2>1, <2>2, <2>3 DEF ValuesInRegisters
<1>11. GlobalsHeld'
  <2>1. \A i \in DOMAIN globals : GlobalBase + i \in GlobalArea /\ GlobalBase + i \notin StackArea
    <3>1. DOMAIN globals = 0..Globals - 1
      BY <1>1 DEF MachineOK
    <3> QED
      BY <3>1, GlobalAddresses
  <2> QED
    BY <1>3, <2>1 DEF ValuesInvariant, GlobalsHeld
<1> QED
  BY <1>1, <1>2, <1>4, <1>7, <1>9, <1>10, <1>11, RunningValues

-----------------------------------------------------------------------------
(* The instructions of a function body.                                    *)

\* What an instruction finds, when every value is in its place.
LEMMA ValuesAtInstruction ==
  ASSUME ValuesInvariant, OperandsInRegisters, Running
  PROVE  /\ \A k \in 0..top - 1 : Cell(k) = Operand(k) /\ k + 1 \in 1..Len(StackRegs)
         /\ \A k \in 1..top : reg[StackRegs[k]] = F.stack[k]
         /\ \A i \in 0..F.argc - 1 : argument_word(i) = F.args[i + 1]
         /\ \A i \in DOMAIN F.locals : /\ WordAt(mem, local_address(i)) = F.locals[i]
                                       /\ local_address(i) \in StackArea
                                       /\ local_address(i) >= FrameEnd(Len(frames))
         /\ \A i \in DOMAIN globals : /\ WordAt(mem, reg["gp"] + i) = globals[i]
                                      /\ mem[GlobalBase + i] = globals[i]
                                      /\ reg["gp"] + i \in DOMAIN mem /\ reg["gp"] + i \notin StackArea
<1>1. /\ ConventionInvariant /\ ValuesInRegisters /\ GlobalsHeld
      /\ \A j \in 1..Len(frames) : ActivationHolds(j)
  BY DEF ValuesInvariant
<1>2. /\ MachineOK /\ pc = "body"
      /\ DOMAIN mem = StackArea \cup GlobalArea
      /\ StackArea \cap GlobalArea = {}
      /\ top \in Nat /\ top <= MaxOperands
      /\ \A k \in Nat : k < top \/ (k = top /\ Room) => in_register(k)
      /\ reg["fp"] = Base(Len(frames))
      /\ F = frames[Len(frames)] /\ Len(frames) \in 1..Len(frames)
      /\ F.argc \in Nat /\ reg["gp"] = GlobalBase /\ DOMAIN globals = 0..Globals - 1
  BY <1>1, AtInstruction
<1>3. /\ \A k \in 1..top : reg[StackRegs[k]] = F.stack[k]
      /\ \A i \in 1..F.argc : reg[AReg[i]] = F.args[i]
  BY <1>1, <1>2 DEF ValuesInRegisters
<1>4. F.argc < Len(AReg) /\ Len(AReg) \in Nat /\ LocalWords(Len(frames))
  BY <1>1, <1>2, Numbers DEF ActivationHolds
<1>5. ASSUME NEW k \in 0..top - 1
      PROVE  Cell(k) = Operand(k) /\ k + 1 \in 1..Len(StackRegs)
  <2>1. k \in Nat /\ k < top /\ k + 1 \in 1..top
    BY <1>2
  <2>2. in_register(k)
    BY <1>2, <2>1
  <2>3. k + 1 \in 1..Len(StackRegs)
    BY <2>1, <2>2, Lengths DEF in_register
  <2> QED
    BY <1>3, <2>1, <2>2, <2>3 DEF Cell, CellFrom, Operand
<1>6. ASSUME NEW i \in 0..F.argc - 1
      PROVE  argument_word(i) = F.args[i + 1]
  <2>1. i < Len(AReg) /\ i + 1 \in 1..F.argc
    BY <1>2, <1>4
  <2> QED
    BY <1>3, <2>1 DEF argument_word
<1>7. ASSUME NEW i \in DOMAIN F.locals
      PROVE  /\ WordAt(mem, local_address(i)) = F.locals[i]
             /\ local_address(i) \in StackArea
             /\ local_address(i) >= FrameEnd(Len(frames))
  <2>1. Base(Len(frames)) - i \in StackArea /\ Base(Len(frames)) - i >= FrameEnd(Len(frames))
    BY <1>1, <1>2, <1>4, ValueAddresses DEF LocalWords
  <2>2. local_address(i) = Base(Len(frames)) - i
    BY <1>2 DEF local_address
  <2> QED
    BY <1>2, <1>4, <2>1, <2>2 DEF LocalWords, WordAt
<1>8. ASSUME NEW i \in DOMAIN globals
      PROVE  /\ WordAt(mem, reg["gp"] + i) = globals[i]
             /\ mem[GlobalBase + i] = globals[i]
             /\ reg["gp"] + i \in DOMAIN mem /\ reg["gp"] + i \notin StackArea
  <2>1. GlobalBase + i \in GlobalArea
    BY <1>2, Numbers DEF GlobalArea
  <2> QED
    BY <1>1, <1>2, <2>1 DEF GlobalsHeld, WordAt
<1> QED
  BY <1>3, <1>5, <1>6, <1>7, <1>8

\* An instruction whose result, the next operand, gets the next cell.
LEMMA PushValues ==
  ASSUME ValuesInvariant, OperandsInRegisters, Running, Room, pc' = pc,
         NEW v, frames' = With(Append(F.stack, v)), reg' = Written(reg, top, v),
         mem' = mem, globals' = globals
  PROVE  ValuesInvariant'
<1>1. ConventionInvariant
  BY DEF ValuesInvariant
<1>2. ConventionInvariant'
  BY <1>1, Pushes
<1>3. /\ DOMAIN reg = Register /\ top \in Nat /\ top <= MaxOperands
      /\ F.stack \in Seq(Elements(F.stack)) /\ pc = "body" /\ in_register(top)
      /\ \A k \in Nat : k < top => in_register(k)
  BY <1>1, AtInstruction
<1>4. PICK S : S = Elements(F.stack) \cup {v}
  OBVIOUS
<1>5. F.stack \in Seq(S) /\ v \in S
  BY <1>3, <1>4, SeqMonotonic
<1>6. PICK s : s = Append(F.stack, v)
  OBVIOUS
<1>7. /\ s \in Seq(S) /\ Len(s) = top + 1 /\ s[top + 1] = v
      /\ \A k \in 1..top : s[k] = F.stack[k]
  BY <1>5, <1>6 DEF top
<1>8. Len(s) <= MaxOperands
  BY <1>3, <1>7, Numbers DEF Room
<1>9. \A k \in 1..Len(s) : reg'[StackRegs[k]] = s[k]
  <2>1. /\ reg'[StackRegs[top + 1]] = v
        /\ \A i \in 1..Len(StackRegs) : i # top + 1 => reg'[StackRegs[i]] = reg[StackRegs[i]]
    BY <1>3, WrittenCell
  <2>2. ASSUME NEW k \in 1..top
        PROVE  reg'[StackRegs[k]] = s[k]
    <3>1. k - 1 \in 0..top - 1 /\ k = (k - 1) + 1 /\ k # top + 1
      BY <1>3
    <3>2. k \in 1..Len(StackRegs) /\ reg[StackRegs[k]] = F.stack[k]
      BY <3>1, ValuesAtInstruction
    <3> QED
      BY <1>7, <2>1, <3>1, <3>2
  <2>3. \A k \in 1..Len(s) : k = top + 1 \/ k \in 1..top
    BY <1>3, <1>7
  <2> QED
    BY <1>7, <2>1, <2>2, <2>3
<1>10. \A r \in Elements(AReg) : reg'[r] = reg[r]
  <2>1. \A r \in Elements(AReg) : r \in Register \ Elements(StackRegs)
    BY SpecialRegisters
  <2> QED
    BY <1>3, <2>1, WrittenElsewhere
<1> QED
  BY <1>2, <1>3, <1>6, <1>7, <1>8, <1>9, <1>10, InstructionValues

LEMMA ConstValues ==
  ASSUME ValuesInvariant, OperandsInRegisters, Const
  PROVE  ValuesInvariant'
<1>1. ConventionInvariant
  BY DEF ValuesInvariant
<1>2. in_register(top)
  BY <1>1, AtInstruction DEF Const
<1> QED
  BY <1>2, PushValues DEF Const

LEMMA LoadValues ==
  ASSUME ValuesInvariant, OperandsInRegisters, LoadArg \/ LoadLocal \/ LoadGlobal
  PROVE  ValuesInvariant'
<1>1. CASE LoadArg
  <2>1. Running
    BY <1>1 DEF LoadArg
  <2> QED
    BY <1>1, <2>1, ValuesAtInstruction, PushValues DEF LoadArg
<1>2. CASE LoadLocal
  <2>1. Running
    BY <1>2 DEF LoadLocal
  <2> QED
    BY <1>2, <2>1, ValuesAtInstruction, PushValues DEF LoadLocal
<1>3. CASE LoadGlobal
  <2>1. Running
    BY <1>3 DEF LoadGlobal
  <2> QED
    BY <1>3, <2>1, ValuesAtInstruction, PushValues DEF LoadGlobal
<1> QED
  BY <1>1, <1>2, <1>3

LEMMA DuplicateValues ==
  ASSUME ValuesInvariant, OperandsInRegisters, Duplicate
  PROVE  ValuesInvariant'
<1>1. Running /\ ConventionInvariant /\ top >= 1
  BY DEF Duplicate, ValuesInvariant
<1>2. top - 1 \in 0..top - 1
  BY <1>1, AtInstruction
<1>3. Cell(top - 1) = Operand(top - 1)
  BY <1>1, <1>2, ValuesAtInstruction
<1> QED
  BY <1>3, PushValues DEF Duplicate

LEMMA DropValues ==
  ASSUME ValuesInvariant, OperandsInRegisters, Drop
  PROVE  ValuesInvariant'
<1>1. Running /\ top >= 1 /\ pc' = "body" /\ globals' = globals /\ ConventionInvariant
  BY DEF Drop, Running, ValuesInvariant
<1>2. ConventionInvariant'
  BY <1>1, DropKeeps
<1>3. /\ DOMAIN mem = StackArea \cup GlobalArea /\ top \in Nat /\ top <= MaxOperands
      /\ F.stack \in Seq(Elements(F.stack)) /\ reg["sp"] \in Nat
      /\ reg["sp"] = FrameEnd(Len(frames))
  BY <1>1, AtInstruction
<1>4. PICK s : s = Popped(1)
  OBVIOUS
<1>5. /\ s \in Seq(Elements(F.stack)) /\ Len(s) = top - 1
      /\ \A k \in 1..top - 1 : s[k] = F.stack[k]
  BY <1>1, <1>3, <1>4 DEF Popped, top
<1>6. \A k \in 1..Len(s) : reg'[StackRegs[k]] = s[k]
  <2>1. top - 1 \in Nat
    BY <1>1, <1>3
  <2>2. \A i \in 1..Len(StackRegs) : i <= top - 1 => reg'[StackRegs[i]] = reg[StackRegs[i]]
    BY <2>1, LiveRegsKeeps DEF Drop
  <2>3. ASSUME NEW k \in 1..top - 1
        PROVE  reg'[StackRegs[k]] = s[k]
    <3>1. k - 1 \in 0..top - 1 /\ k = (k - 1) + 1 /\ k <= top - 1 /\ k \in 1..top
      BY <1>3
    <3>2. k \in 1..Len(StackRegs) /\ reg[StackRegs[k]] = F.stack[k]
      BY <1>1, <3>1, ValuesAtInstruction
    <3> QED
      BY <1>5, <2>2, <3>1, <3>2
  <2> QED
    BY <1>5, <2>3
<1>7. \A r \in Elements(AReg) : reg'[r] = reg[r]
  <2>1. \A r \in Elements(AReg) : r \in Register /\ r \notin Elements(StackRegs)
    BY SpecialRegisters
  <2>2. top - 1 \in Nat
    BY <1>1, <1>3
  <2> QED
    BY <2>1, <2>2, LiveRegsKeeps DEF Drop
<1>8. \A a \in DOMAIN mem : a \notin StackArea \/ a >= FrameEnd(Len(frames)) => mem'[a] = mem[a]
  BY <1>3, LiveMemKeeps DEF Drop
<1>9. Len(s) <= MaxOperands /\ frames' = With(s)
  BY <1>3, <1>4, <1>5, Numbers DEF Drop
<1> QED
  BY <1>1, <1>2, <1>5, <1>6, <1>7, <1>8, <1>9, InstructionValues

LEMMA SwapValues ==
  ASSUME ValuesInvariant, OperandsInRegisters, Swap
  PROVE  ValuesInvariant'
<1>1. Running /\ top >= 2 /\ pc' = "body" /\ mem' = mem /\ globals' = globals
      /\ ConventionInvariant
  BY DEF Swap, Running, ValuesInvariant
<1>2. ConventionInvariant'
  BY <1>1, SwapKeeps
<1>3. /\ DOMAIN reg = Register /\ top \in Nat /\ top <= MaxOperands
      /\ F.stack \in Seq(Elements(F.stack)) /\ \A k \in Nat : k < top => in_register(k)
  BY <1>1, AtInstruction
<1>4. top - 1 \in Nat /\ top - 2 \in Nat /\ top - 1 < top /\ top - 2 < top
      /\ (top - 1) + 1 = top /\ (top - 2) + 1 = top - 1 /\ top # top - 1
      /\ top - 1 \in 0..top - 1 /\ top - 2 \in 0..top - 1
  BY <1>1, <1>3
<1>5. in_register(top - 1) /\ in_register(top - 2)
  BY <1>3, <1>4
<1>6. PICK x, y : x = Operand(top - 1) /\ y = Operand(top - 2)
  OBVIOUS
<1>7. Cell(top - 1) = x /\ Cell(top - 2) = y
  BY <1>1, <1>4, <1>6, ValuesAtInstruction
<1>8. reg' = Written(Written(reg, top - 1, y), top - 2, x)
  BY <1>5, <1>7 DEF Swap
<1>9. PICK q, s : q = <<x, y>> /\ s = Popped(2) \o q
  OBVIOUS
<1>10. PICK S : S = Elements(F.stack)
  OBVIOUS
<1>11. x \in S /\ y \in S
  <2>1. top \in 1..Len(F.stack) /\ top - 1 \in 1..Len(F.stack)
        /\ x = F.stack[top] /\ y = F.stack[top - 1]
    BY <1>1, <1>3, <1>6 DEF Operand, top
  <2> QED
    BY <1>10, <2>1 DEF Elements
<1>12. q \in Seq(S) /\ Len(q) = 2 /\ q[1] = x /\ q[2] = y
  BY <1>9, <1>11
<1>13. /\ Popped(2) \in Seq(S) /\ Len(Popped(2)) = top - 2
       /\ \A k \in 1..top - 2 : Popped(2)[k] = F.stack[k]
  BY <1>1, <1>3, <1>10 DEF Popped, top
<1>14. /\ s \in Seq(S) /\ Len(s) = top /\ s[top - 1] = x /\ s[top] = y
       /\ \A k \in 1..top - 2 : s[k] = F.stack[k]
  <2>1. q \in Seq(S)
    BY <1>12
  <2>2. /\ s \in Seq(S) /\ Len(s) = Len(Popped(2)) + Len(q)
        /\ \A k \in 1..Len(Popped(2)) : s[k] = Popped(2)[k]
        /\ \A k \in 1..Len(q) : s[Len(Popped(2)) + k] = q[k]
    BY <1>9, <1>13, <2>1, Joined
  <2>3. s[Len(Popped(2)) + 1] = x /\ s[Len(Popped(2)) + 2] = y
    BY <1>12, <2>2
  <2>4. Len(Popped(2)) + 1 = top - 1 /\ Len(Popped(2)) + 2 = top
        /\ Len(Popped(2)) + Len(q) = top
    BY <1>3, <1>12, <1>13
  <2> QED
    BY <1>13, <2>2, <2>3, <2>4
<1>15. DOMAIN Written(reg, top - 1, y) = Register
  BY <1>3, <1>4, WrittenElsewhere
<1>16. \A k \in 1..Len(s) : reg'[StackRegs[k]] = s[k]
  <2>1. /\ reg'[StackRegs[top - 1]] = x
        /\ \A i \in 1..Len(StackRegs) : i # top - 1 =>
             reg'[StackRegs[i]] = Written(reg, top - 1, y)[StackRegs[i]]
    BY <1>4, <1>5, <1>8, <1>15, WrittenCell
  <2>2. /\ Written(reg, top - 1, y)[StackRegs[top]] = y
        /\ \A i \in 1..Len(StackRegs) : i # top =>
             Written(reg, top - 1, y)[StackRegs[i]] = reg[StackRegs[i]]
    BY <1>3, <1>4, <1>5, WrittenCell
  <2>3. top \in 1..Len(StackRegs)
    BY <1>1, <1>4, ValuesAtInstruction
  <2>4. ASSUME NEW k \in 1..top - 2
        PROVE  reg'[StackRegs[k]] = s[k]
    <3>1. k - 1 \in 0..top - 1 /\ k = (k - 1) + 1 /\ k # top - 1 /\ k # top /\ k \in 1..top
      BY <1>3
    <3>2. k \in 1..Len(StackRegs) /\ reg[StackRegs[k]] = F.stack[k]
      BY <1>1, <3>1, ValuesAtInstruction
    <3> QED
      BY <1>14, <2>1, <2>2, <3>1, <3>2
  <2>5. \A k \in 1..Len(s) : k = top \/ k = top - 1 \/ k \in 1..top - 2
    BY <1>3, <1>14
  <2> QED
    BY <1>4, <1>14, <2>1, <2>2, <2>3, <2>4, <2>5
<1>17. \A r \in Elements(AReg) : reg'[r] = reg[r]
  <2>1. \A r \in Elements(AReg) : r \in Register \ Elements(StackRegs)
    BY SpecialRegisters
  <2> QED
    BY <1>3, <1>4, <1>8, <1>15, <2>1, WrittenElsewhere
<1>18. Len(s) <= MaxOperands /\ frames' = With(s)
  BY <1>3, <1>6, <1>9, <1>14 DEF Swap
<1> QED
  BY <1>1, <1>2, <1>14, <1>16, <1>17, <1>18, InstructionValues

LEMMA BinopValues ==
  ASSUME ValuesInvariant, OperandsInRegisters, Binop
  PROVE  ValuesInvariant'
<1>1. Running /\ top >= 2 /\ pc' = "body" /\ globals' = globals /\ ConventionInvariant
  BY DEF Binop, Running, ValuesInvariant
<1>2. ConventionInvariant'
  BY <1>1, BinopKeeps
<1>3. /\ DOMAIN reg = Register /\ DOMAIN mem = StackArea \cup GlobalArea
      /\ top \in Nat /\ top <= MaxOperands
      /\ F.stack \in Seq(Elements(F.stack)) /\ reg["sp"] \in Nat
      /\ reg["sp"] = FrameEnd(Len(frames))
      /\ \A k \in Nat : k < top => in_register(k)
  BY <1>1, AtInstruction
<1>4. top - 1 \in Nat /\ top - 2 \in Nat /\ top - 1 < top /\ top - 2 < top
      /\ (top - 2) + 1 = top - 1
      /\ top - 1 \in 0..top - 1 /\ top - 2 \in 0..top - 1
  BY <1>1, <1>3
<1>5. in_register(top - 1) /\ in_register(top - 2)
  BY <1>3, <1>4
<1>6. Cell(top - 1) = Operand(top - 1) /\ Cell(top - 2) = Operand(top - 2)
  BY <1>1, <1>4, ValuesAtInstruction
<1>7. PICK v : /\ frames' = With(Append(Popped(2), v))
               /\ reg' = LiveRegs(Written(reg, top - 2, v), top - 1)
  <2>1. PICK less \in {0, 1} :
          less = IF Operand(top - 2) \div 2 < Operand(top - 1) \div 2 THEN 1 ELSE 0
    OBVIOUS
  <2>2. Untagged(top - 2) = Operand(top - 2) \div 2 /\ Untagged(top - 1) = Operand(top - 1) \div 2
    BY <1>5, <1>6 DEF Untagged
  <2>3. reg' = LiveRegs(Written(reg, top - 2, 2 * less + 1), top - 1)
    BY <2>1, <2>2 DEF Binop
  <2>4. frames' = With(Append(Popped(2), IF less = 1 THEN 3 ELSE 1))
    BY <2>1 DEF Binop
  <2>5. 2 * less + 1 = IF less = 1 THEN 3 ELSE 1
    OBVIOUS
  <2> QED
    BY <2>3, <2>4, <2>5
<1>8. mem' = LiveMem(mem, reg["sp"], top - 1)
  BY <1>5 DEF Binop, StoredBack
<1>9. PICK S, s : S = Elements(F.stack) \cup {v} /\ s = Append(Popped(2), v)
  OBVIOUS
<1>10. F.stack \in Seq(S) /\ v \in S
  BY <1>3, <1>9, SeqMonotonic
<1>11. /\ Popped(2) \in Seq(S) /\ Len(Popped(2)) = top - 2
       /\ \A k \in 1..top - 2 : Popped(2)[k] = F.stack[k]
  BY <1>1, <1>3, <1>10 DEF Popped, top
<1>12. /\ s \in Seq(S) /\ Len(s) = top - 1 /\ s[top - 1] = v
       /\ \A k \in 1..top - 2 : s[k] = F.stack[k]
  BY <1>4, <1>9, <1>10, <1>11
<1>13. DOMAIN Written(reg, top - 2, v) = Register
  BY <1>3, <1>4, WrittenElsewhere
<1>14. \A i \in 1..Len(StackRegs) : i <= top - 1 =>
         reg'[StackRegs[i]] = Written(reg, top - 2, v)[StackRegs[i]]
  BY <1>4, <1>7, LiveRegsKeeps
<1>15. \A k \in 1..Len(s) : reg'[StackRegs[k]] = s[k]
  <2>1. /\ Written(reg, top - 2, v)[StackRegs[top - 1]] = v
        /\ \A i \in 1..Len(StackRegs) : i # top - 1 =>
             Written(reg, top - 2, v)[StackRegs[i]] = reg[StackRegs[i]]
    BY <1>3, <1>4, <1>5, WrittenCell
  <2>2. top - 1 \in 1..Len(StackRegs) /\ top - 1 <= top - 1
    BY <1>1, <1>4, ValuesAtInstruction
  <2>3. ASSUME NEW k \in 1..top - 2
        PROVE  reg'[StackRegs[k]] = s[k]
    <3>1. k - 1 \in 0..top - 1 /\ k = (k - 1) + 1 /\ k # top - 1 /\ k <= top - 1 /\ k \in 1..top
      BY <1>3
    <3>2. k \in 1..Len(StackRegs) /\ reg[StackRegs[k]] = F.stack[k]
      BY <1>1, <3>1, ValuesAtInstruction
    <3> QED
      BY <1>12, <1>14, <2>1, <3>1, <3>2
  <2>4. \A k \in 1..Len(s) : k = top - 1 \/ k \in 1..top - 2
    BY <1>3, <1>12
  <2> QED
    BY <1>12, <1>14, <2>1, <2>2, <2>3, <2>4
<1>16. \A r \in Elements(AReg) : reg'[r] = reg[r]
  <2>1. \A r \in Elements(AReg) : r \in Register /\ r \notin Elements(StackRegs)
                                  /\ r \in Register \ Elements(StackRegs)
    BY SpecialRegisters
  <2>2. \A r \in Elements(AReg) : reg'[r] = Written(reg, top - 2, v)[r]
    BY <1>4, <1>7, <2>1, LiveRegsKeeps
  <2> QED
    BY <1>3, <1>4, <2>1, <2>2, WrittenElsewhere
<1>17. \A a \in DOMAIN mem : a \notin StackArea \/ a >= FrameEnd(Len(frames)) => mem'[a] = mem[a]
  BY <1>3, <1>8, LiveMemKeeps
<1>18. Len(s) <= MaxOperands /\ frames' = With(s)
  BY <1>3, <1>7, <1>9, <1>12, Numbers
<1> QED
  BY <1>1, <1>2, <1>12, <1>15, <1>16, <1>17, <1>18, InstructionValues

LEMMA StoreLocalValues ==
  ASSUME ValuesInvariant, OperandsInRegisters, StoreLocal
  PROVE  ValuesInvariant'
<1>1. Running /\ top >= 1 /\ pc' = "body" /\ reg' = reg /\ globals' = globals
      /\ ConventionInvariant /\ pc = "body"
  BY DEF StoreLocal, Running, ValuesInvariant
<1>2. ConventionInvariant'
  BY <1>1, StoreLocalKeeps
<1>3. /\ MachineOK /\ DOMAIN mem = StackArea \cup GlobalArea /\ StackArea \cap GlobalArea = {}
      /\ reg["fp"] \in Nat /\ reg["fp"] = Base(Len(frames)) /\ reg["fp"] <= StackTop
      /\ reg["sp"] \in Nat /\ reg["sp"] = reg["fp"] - (F.locc + Len(Saved))
      /\ F.locc \in Nat /\ DOMAIN F.locals \subseteq 0..F.locc - 1 /\ top \in Nat
      /\ F = frames[Len(frames)] /\ Len(frames) \in 1..Len(frames)
  BY <1>1, AtInstruction
<1>4. F.begun
  BY <1>1, AtInstruction
<1>5. Cell(top - 1) = Operand(top - 1)
  <2>1. top - 1 \in 0..top - 1
    BY <1>1, <1>3
  <2> QED
    BY <1>1, <2>1, ValuesAtInstruction
<1>6. PICK i \in 0..F.locc - 1 :
        /\ mem' = Stored(mem, reg["fp"] - i, Operand(top - 1))
        /\ frames' = [frames EXCEPT ![Len(frames)].locals =
                        [j \in DOMAIN F.locals \cup {i} |->
                           IF j = i THEN Operand(top - 1) ELSE F.locals[j]]]
  BY <1>5 DEF StoreLocal
<1>7. PICK l : l = [j \in DOMAIN F.locals \cup {i} |->
                      IF j = i THEN Operand(top - 1) ELSE F.locals[j]]
  OBVIOUS
<1>8. PICK n, f : n = Len(frames) /\ f = [F EXCEPT !.locals = l]
  OBVIOUS
<1>9. IsActivation(f) /\ f.argc = F.argc /\ f.locc = F.locc /\ f.begun = F.begun
      /\ f.stack = F.stack /\ f.args = F.args /\ f.locals = l
  <2>1. IsActivation(F) /\ DOMAIN l \subseteq 0..F.locc - 1
    BY <1>3, <1>7 DEF MachineOK
  <2> QED
    BY <1>8, <2>1, LocalsReplaced
<1>10. frames' = [frames EXCEPT ![n] = f]
  BY <1>3, <1>6, <1>7, <1>8
<1>11. Len(frames') = n /\ frames'[n] = f /\ F' = f /\ \A j \in 1..n - 1 : frames'[j] = frames[j]
  BY <1>3, <1>8, <1>9, <1>10, RunningReplaced
<1>12. Base(n)' = Base(n)
  BY <1>3, <1>8, <1>11, SameBase
<1>13. reg["fp"] - i \in StackArea
  <2>1. PICK b \in Nat, l1 \in Nat, w \in Nat, t \in Nat, e \in Nat :
          /\ b = reg["fp"] /\ l1 = F.locc /\ w = Len(Saved) /\ t = StackTop /\ e = reg["sp"]
    BY <1>3, Numbers
  <2>2. e = b - (l1 + w) /\ b <= t /\ i \in 0..l1 - 1
    BY <1>3, <2>1
  <2>3. b - i \in 0..t
    BY <2>2
  <2> QED
    BY <2>1, <2>3 DEF StackArea
<1>14. \A a \in DOMAIN mem : a # reg["fp"] - i => mem'[a] = mem[a]
  BY <1>6, StoredKeeps
<1>15. \A a \in StackArea : a > Base(n) => mem'[a] = mem[a]
  <2>1. \A a \in StackArea : a > Base(n) => a # reg["fp"] - i /\ a \in DOMAIN mem
    BY <1>3, <1>8, Numbers DEF StackArea
  <2> QED
    BY <1>14, <2>1
<1>16. LocalWords(n) /\ frames[n].argc < Len(AReg)
  BY <1>1, <1>3, <1>8 DEF ValuesInvariant, ActivationHolds
<1>17. ActivationHolds(n)'
  <2>1. mem'[Base(n) - i] = Operand(top - 1)
    BY <1>3, <1>6, <1>8, <1>13, StoredKeeps
  <2>2. ASSUME NEW j \in DOMAIN l, j # i
        PROVE  mem'[Base(n) - j] = l[j]
    <3>1. j \in DOMAIN F.locals /\ l[j] = F.locals[j]
      BY <1>7, <2>2
    <3>2. Base(n) - j \in StackArea
      BY <1>1, <1>3, <1>8, <1>16, <3>1, ValueAddresses DEF LocalWords
    <3>3. Base(n) - j # reg["fp"] - i
      <4>1. PICK b \in Nat, u \in Nat : b = Base(n) /\ u = j
        BY <1>3, <1>8, <3>1
      <4>2. b - u # b - i
        BY <2>2, <4>1
      <4> QED
        BY <1>3, <1>8, <4>1, <4>2
    <3>4. mem'[Base(n) - j] = mem[Base(n) - j]
      BY <1>3, <1>14, <3>2, <3>3
    <3> QED
      BY <1>3, <1>8, <1>16, <3>1, <3>4 DEF LocalWords
  <2>3. LocalWords(n)'
    <3>1. frames'[n].begun
      BY <1>4, <1>9, <1>11
    <3>2. l[i] = Operand(top - 1)
      BY <1>7
    <3> QED
      BY <1>9, <1>11, <1>12, <2>1, <2>2, <3>1, <3>2 DEF LocalWords
  <2>4. ~Suspended(n)'
    BY <1>1, <1>3, <1>8, <1>11 DEF Suspended
  <2> QED
    BY <1>3, <1>8, <1>9, <1>11, <1>16, <2>3, <2>4 DEF ActivationHolds
<1>18. ValuesInRegisters'
  <2>1. top' = top
    BY <1>9, <1>11 DEF top
  <2> QED
    BY <1>1, <1>9, <1>11, <2>1 DEF ValuesInvariant, ValuesInRegisters
<1>19. GlobalsHeld'
  <2>1. \A k \in DOMAIN globals : GlobalBase + k \in GlobalArea
    <3>1. DOMAIN globals = 0..Globals - 1
      BY <1>3 DEF MachineOK
    <3> QED
      BY <3>1, GlobalAddresses
  <2>2. \A k \in DOMAIN globals : mem'[GlobalBase + k] = mem[GlobalBase + k]
    BY <1>3, <1>13, <1>14, <2>1
  <2> QED
    BY <1>1, <2>2 DEF ValuesInvariant, GlobalsHeld
<1> QED
  BY <1>1, <1>2, <1>8, <1>9, <1>10, <1>15, <1>17, <1>18, <1>19, RunningValues

LEMMA StoreGlobalValues ==
  ASSUME ValuesInvariant, OperandsInRegisters, StoreGlobal
  PROVE  ValuesInvariant'
<1>1. Running /\ top >= 1 /\ pc' = "body" /\ reg' = reg /\ frames' = frames
      /\ ConventionInvariant /\ pc = "body"
  BY DEF StoreGlobal, Running, ValuesInvariant
<1>2. ConventionInvariant'
  BY <1>1, StoreGlobalKeeps
<1>3. /\ MachineOK /\ DOMAIN mem = StackArea \cup GlobalArea /\ StackArea \cap GlobalArea = {}
      /\ DOMAIN globals = 0..Globals - 1 /\ reg["gp"] = GlobalBase /\ top \in Nat
      /\ F = frames[Len(frames)] /\ Len(frames) \in 1..Len(frames)
  BY <1>1, AtInstruction
<1>4. Cell(top - 1) = Operand(top - 1)
  <2>1. top - 1 \in 0..top - 1
    BY <1>1, <1>3
  <2> QED
    BY <1>1, <2>1, ValuesAtInstruction
<1>5. PICK i \in 0..Globals - 1 :
        /\ mem' = Stored(mem, GlobalBase + i, Operand(top - 1))
        /\ globals' = [globals EXCEPT ![i] = Operand(top - 1)]
  BY <1>3, <1>4 DEF StoreGlobal
<1>6. GlobalBase + i \in GlobalArea
  BY Numbers DEF GlobalArea
<1>7. \A a \in DOMAIN mem : a # GlobalBase + i => mem'[a] = mem[a]
  BY <1>5, StoredKeeps
<1>8. \A a \in StackArea : mem'[a] = mem[a]
  BY <1>3, <1>6, <1>7
<1>9. PICK n : n = Len(frames)
  OBVIOUS
<1>10. \A j : Base(j)' = Base(j)
  BY <1>1 DEF Base
<1>11. ActivationHolds(n)'
  <2>1. LocalWords(n) /\ frames[n].argc < Len(AReg)
    BY <1>1, <1>3, <1>9 DEF ValuesInvariant, ActivationHolds
  <2>2. \A k \in DOMAIN frames[n].locals : mem'[Base(n) - k] = mem[Base(n) - k]
    BY <1>1, <1>3, <1>8, <1>9, <2>1, ValueAddresses DEF LocalWords
  <2>3. LocalWords(n)'
    BY <1>1, <1>10, <2>1, <2>2 DEF LocalWords
  <2>4. ~Suspended(n)'
    BY <1>1, <1>3, <1>9 DEF Suspended
  <2> QED
    BY <1>1, <2>1, <2>3, <2>4 DEF ActivationHolds
<1>12. ValuesInRegisters'
  BY <1>1 DEF ValuesInvariant, ValuesInRegisters, top, F
<1>13. GlobalsHeld'
  <2>1. mem'[GlobalBase + i] = Operand(top - 1) /\ globals'[i] = Operand(top - 1)
    BY <1>3, <1>5, <1>6, StoredKeeps
  <2>2. ASSUME NEW k \in 0..Globals - 1, k # i
        PROVE  mem'[GlobalBase + k] = globals'[k]
    <3>1. GlobalBase + k \in GlobalArea /\ GlobalBase + k # GlobalBase + i
      BY <2>2, Numbers DEF GlobalArea
    <3>2. mem'[GlobalBase + k] = mem[GlobalBase + k] /\ globals'[k] = globals[k]
      BY <1>3, <1>5, <1>7, <2>2, <3>1
    <3> QED
      BY <1>3, <3>2 DEF ValuesInvariant, GlobalsHeld
  <2>3. DOMAIN globals' = 0..Globals - 1
    BY <1>3, <1>5
  <2> QED
    BY <2>1, <2>2, <2>3 DEF GlobalsHeld
<1>14. IsActivation(F) /\ frames' = [frames EXCEPT ![n] = F]
  <2>1. IsActivation(F) /\ frames \in Seq(Elements(frames))
    BY <1>3 DEF MachineOK, IsSequence
  <2> QED
    BY <1>1, <1>3, <1>9, <2>1
<1> QED
  BY <1>1, <1>2, <1>8, <1>9, <1>11, <1>12, <1>13, <1>14, RunningValues

-----------------------------------------------------------------------------
(* The ends of a function and of a call.                                   *)

\* The locals of an activation, in a step that keeps the words of its frame.
LEMMA FrameValues ==
  ASSUME ConventionInvariant, pc # "exit", NEW n \in 1..Len(frames), ActivationHolds(n),
         NEW f, frames'[n] = f, f.argc = frames[n].argc, f.locals = frames[n].locals,
         frames[n].begun => f.begun,
         \A j \in 1..n - 1 : frames'[j] = frames[j],
         \A a \in StackArea : a >= FrameEnd(n) => mem'[a] = mem[a]
  PROVE  LocalWords(n)'
<1>1. LocalWords(n) /\ frames[n].argc < Len(AReg)
  BY DEF ActivationHolds
<1>2. Base(n)' = Base(n)
  BY SameBase
<1>3. \A i \in DOMAIN f.locals : mem'[Base(n) - i] = mem[Base(n) - i]
  BY <1>1, ValueAddresses DEF LocalWords
<1>4. \A i \in DOMAIN f.locals : mem'[Base(n) - i] = f.locals[i]
  BY <1>1, <1>3 DEF LocalWords
<1>5. ~f.begun => DOMAIN f.locals = {}
  BY <1>1 DEF LocalWords
<1> QED
  BY <1>2, <1>4, <1>5 DEF LocalWords

\* Every operand has a register.
LEMMA OperandRegisters ==
  ASSUME OperandsInRegisters, NEW n \in Nat, n <= MaxOperands, NEW k \in 1..n
  PROVE  k \in 1..Len(StackRegs) /\ k <= n
BY Numbers, Lengths DEF OperandsInRegisters

LEMMA SaveRegistersValues ==
  ASSUME ValuesInvariant, OperandsInRegisters, SaveRegisters
  PROVE  ValuesInvariant'
<1>1. /\ pc = "entry" /\ pc' = "body" /\ globals' = globals
      /\ ConventionInvariant /\ MachineOK /\ CallsInOrder /\ FramesApart /\ RegistersHold
      /\ ValuesInRegisters /\ GlobalsHeld /\ \A j \in 1..Len(frames) : ActivationHolds(j)
  BY DEF ValuesInvariant, ConventionInvariant, SaveRegisters
<1>2. ConventionInvariant'
  BY <1>1, SaveRegistersKeeps
<1>3. PICK n : n = Len(frames)
  OBVIOUS
<1>4. n \in Nat /\ n >= 1 /\ n \in 1..n /\ n \in 1..Len(frames) /\ F = frames[n] /\ IsActivation(F)
      /\ DOMAIN mem = StackArea \cup GlobalArea /\ ~F.begun /\ DOMAIN globals = 0..Globals - 1
  BY <1>1, <1>3 DEF MachineOK, F
<1>5. PICK f : f = [F EXCEPT !.begun = TRUE]
  OBVIOUS
<1>6. f.argc = F.argc /\ f.locc = F.locc /\ f.begun /\ f.stack = F.stack /\ f.args = F.args
      /\ f.locals = F.locals /\ IsActivation(f)
  <2>1. PICK argc, locc, begun, stack, args, locals, call, result :
          F = [argc |-> argc, locc |-> locc, begun |-> begun, stack |-> stack,
               args |-> args, locals |-> locals, call |-> call, result |-> result]
    BY <1>4 DEF IsActivation
  <2>2. f = [argc |-> argc, locc |-> locc, begun |-> TRUE, stack |-> stack,
             args |-> args, locals |-> locals, call |-> call, result |-> result]
    BY <1>5, <2>1
  <2>3. /\ f.argc = F.argc /\ f.locc = F.locc /\ f.begun /\ f.stack = F.stack
        /\ f.args = F.args /\ f.locals = F.locals
    BY <2>1, <2>2
  <2> QED
    BY <1>4, <2>2, <2>3 DEF IsActivation
<1>7. frames' = [frames EXCEPT ![n] = f]
  BY <1>3, <1>4, <1>5 DEF SaveRegisters
<1>8. /\ Len(frames') = n /\ frames'[n] = f /\ F' = f
      /\ \A j \in 1..n - 1 : frames'[j] = frames[j]
  BY <1>1, <1>3, <1>6, <1>7, RunningReplaced
<1>9. reg["sp"] = Base(n) /\ Base(n) \in Nat /\ Base(n) <= StackTop /\ F.locc \in Nat
      /\ top \in Nat /\ top <= MaxOperands
  BY <1>1, <1>3, <1>4, FrameNumbers, Activations DEF RegistersHold, top
<1>10. \A i \in 1..Len(Saved) : Base(n) - (i + F.locc) \in StackArea /\ Base(n) - (i + F.locc) < Base(n)
  <2>1. Base(n) >= F.locc + Len(Saved) /\ Len(Saved) \in Nat /\ StackTop \in Nat
    BY <1>9, Numbers DEF SaveRegisters, frame_size
  <2>2. PICK b \in Nat, l \in Nat, w \in Nat, t \in Nat :
          b = Base(n) /\ l = F.locc /\ w = Len(Saved) /\ t = StackTop
    BY <1>9, <2>1
  <2>3. \A i \in 1..w : b - (i + l) \in 0..t /\ b - (i + l) < b
    BY <1>9, <2>1, <2>2
  <2> QED
    BY <2>2, <2>3 DEF StackArea
<1>11. \A a \in DOMAIN mem : (\A i \in 1..Len(Saved) : a # Base(n) - (i + F.locc)) => mem'[a] = mem[a]
  BY <1>9 DEF SaveRegisters, saved_offset
<1>12. \A a \in StackArea : a >= Base(n) => mem'[a] = mem[a]
  <2>1. \A a \in StackArea : a \in Int /\ a \in DOMAIN mem
    BY <1>4, Numbers DEF StackArea
  <2> QED
    BY <1>9, <1>10, <1>11, <2>1
<1>13. \A a \in StackArea : a > Base(n) => mem'[a] = mem[a]
  BY <1>9, <1>12, Numbers DEF StackArea
<1>14. ActivationHolds(n)'
  <2>1. FrameEnd(n) = Base(n)
    BY <1>4 DEF FrameEnd
  <2>2. pc # "exit" /\ ActivationHolds(n) /\ ConventionInvariant
    BY <1>1, <1>4
  <2>3. f.argc = frames[n].argc /\ f.locals = frames[n].locals
    BY <1>4, <1>6
  <2>4. LocalWords(n)'
    BY <1>4, <1>6, <1>8, <1>12, <2>1, <2>2, <2>3, FrameValues
  <2>5. ~Suspended(n)'
    BY <1>1, <1>4, <1>8 DEF Suspended
  <2> QED
    BY <1>8, <2>2, <2>3, <2>4, <2>5 DEF ActivationHolds
<1>15. ValuesInRegisters'
  <2>1. \A r \in Register : r # "sp" /\ r # "fp" => reg'[r] = LiveRegs(reg, top)[r]
    <3>1. DOMAIN LiveRegs(reg, top) = Register
      BY <1>9, LiveRegsKeeps
    <3> QED
      BY <3>1 DEF SaveRegisters
  <2>2. ASSUME NEW k \in 1..top
        PROVE  reg'[StackRegs[k]] = F.stack[k]
    <3>1. k \in 1..Len(StackRegs) /\ k <= top
      BY <1>9, OperandRegisters
    <3>2. StackRegs[k] \in Elements(StackRegs)
      BY <3>1 DEF Elements
    <3>3. StackRegs[k] \in Register /\ StackRegs[k] # "sp" /\ StackRegs[k] # "fp"
      BY <3>2, SpecialRegisters
    <3>4. LiveRegs(reg, top)[StackRegs[k]] = reg[StackRegs[k]]
      BY <1>9, <3>1, LiveRegsKeeps
    <3>5. reg[StackRegs[k]] = F.stack[k]
      BY <1>1 DEF ValuesInRegisters
    <3> QED
      BY <2>1, <3>3, <3>4, <3>5
  <2>3. ASSUME NEW i \in 1..F.argc
        PROVE  reg'[AReg[i]] = F.args[i]
    <3>1. AReg[i] \in Elements(AReg)
      <4>1. F.argc \in Nat /\ F.argc < Len(AReg) /\ Len(AReg) \in Nat
        BY <1>1, <1>4, Activations, Numbers DEF ActivationHolds
      <4> QED
        BY <4>1 DEF Elements
    <3>2. AReg[i] \in Register /\ AReg[i] # "sp" /\ AReg[i] # "fp" /\ AReg[i] \notin Elements(StackRegs)
      BY <3>1, SpecialRegisters
    <3>3. LiveRegs(reg, top)[AReg[i]] = reg[AReg[i]]
      BY <1>9, <3>2, LiveRegsKeeps
    <3>4. reg[AReg[i]] = F.args[i]
      BY <1>1 DEF ValuesInRegisters
    <3> QED
      BY <2>1, <3>2, <3>3, <3>4
  <2>4. top' = top
    BY <1>6, <1>8 DEF top
  <2> QED
    BY <1>1, <1>6, <1>8, <2>2, <2>3, <2>4 DEF ValuesInRegisters
<1>16. GlobalsHeld'
  <2>1. \A i \in DOMAIN globals : GlobalBase + i \in DOMAIN mem /\ GlobalBase + i \notin StackArea
    BY <1>4, GlobalAddresses
  <2>2. \A i \in DOMAIN globals : mem'[GlobalBase + i] = mem[GlobalBase + i]
    BY <1>10, <1>11, <2>1
  <2> QED
    BY <1>1, <2>2 DEF GlobalsHeld
<1> QED
  BY <1>1, <1>2, <1>3, <1>6, <1>7, <1>13, <1>14, <1>15, <1>16, RunningValues

LEMMA EndValues ==
  ASSUME ValuesInvariant, OperandsInRegisters, End
  PROVE  ValuesInvariant'
<1>1. /\ pc = "body" /\ Running /\ top >= 1 /\ globals' = globals /\ mem' = LiveMem(mem, reg["fp"], 0)
      /\ ConventionInvariant /\ MachineOK /\ CallsInOrder /\ FramesApart
      /\ GlobalsHeld /\ \A j \in 1..Len(frames) : ActivationHolds(j)
  BY DEF ValuesInvariant, ConventionInvariant, End, Running
<1>2. ConventionInvariant'
  BY <1>1, EndKeeps
<1>3. PICK n : n = Len(frames)
  OBVIOUS
<1>4. /\ n \in Nat /\ n >= 1 /\ n \in 1..Len(frames) /\ F = frames[n]
      /\ DOMAIN mem = StackArea \cup GlobalArea /\ DOMAIN globals = 0..Globals - 1
      /\ reg["fp"] = Base(n) /\ reg["fp"] \in Nat /\ top \in Nat
  <2>1. /\ DOMAIN mem = StackArea \cup GlobalArea /\ DOMAIN globals = 0..Globals - 1
        /\ reg["fp"] = Base(n) /\ reg["fp"] \in Nat /\ top \in Nat
        /\ F = frames[n] /\ n \in 1..Len(frames)
    BY <1>1, <1>3, AtInstruction
  <2> QED
    BY <2>1
<1>5. \A a \in DOMAIN mem : a \notin StackArea \/ a >= Base(n) => mem'[a] = mem[a]
  BY <1>1, <1>4, LiveMemKeeps
<1>6. \A a \in StackArea : a > Base(n) => mem'[a] = mem[a]
  BY <1>4, <1>5, Numbers DEF StackArea
<1>7. GlobalsHeld'
  <2>1. \A i \in DOMAIN globals : GlobalBase + i \in DOMAIN mem /\ GlobalBase + i \notin StackArea
    BY <1>4, GlobalAddresses
  <2> QED
    BY <1>1, <1>5, <2>1 DEF GlobalsHeld
<1>8. CASE n = 1
  <2>1. pc' = "exit" /\ frames' = frames
    BY <1>3, <1>8 DEF End
  <2>2. \A j \in 1..Len(frames') : ActivationHolds(j)'
    <3>1. ~Suspended(1)' /\ Len(frames') = 1
      <4>1. Len(frames') = 1
        BY <1>3, <1>8, <2>1
      <4> QED
        BY <2>1, <4>1 DEF Suspended
    <3>2. frames[1].argc < Len(AReg)
      BY <1>1, <1>4, <1>8 DEF ActivationHolds
    <3>3. ActivationHolds(1)'
      BY <2>1, <3>1, <3>2 DEF ActivationHolds
    <3>4. \A j \in 1..Len(frames') : j = 1
      BY <3>1
    <3> QED
      BY <3>3, <3>4
  <2>3. ValuesInRegisters'
    BY <2>1 DEF ValuesInRegisters
  <2> QED
    BY <1>2, <1>7, <2>2, <2>3 DEF ValuesInvariant
<1>9. CASE n # 1
  <2>1. PICK m : m = n - 1
    OBVIOUS
  <2>2. m \in Nat /\ m >= 1 /\ n = m + 1 /\ m \in 1..m /\ m \in 1..Len(frames)
    BY <1>3, <1>4, <1>9, <2>1
  <2>3. PICK s, v : s = SubSeq(frames, 1, m) /\ v = Operand(top - 1)
    OBVIOUS
  <2>4. pc' = "returned" /\ frames' = [s EXCEPT ![m].result = v]
    BY <1>3, <1>9, <2>1, <2>3 DEF End
  <2>5. s \in Seq(Elements(frames)) /\ Len(s) = m /\ \A j \in 1..m : s[j] = frames[j]
    <3>1. frames \in Seq(Elements(frames)) /\ Len(frames) = m + 1
      BY <1>1, <1>3, <2>2 DEF MachineOK, IsSequence
    <3> QED
      BY <2>2, <2>3, <3>1
  <2>6. PICK g : g = [frames[m] EXCEPT !.result = v]
    OBVIOUS
  <2>7. /\ Len(frames') = m /\ frames'[m] = g /\ \A j \in 1..m - 1 : frames'[j] = frames[j]
    <3>1. frames' = [s EXCEPT ![m] = g]
      BY <2>2, <2>4, <2>5, <2>6
    <3> QED
      BY <2>2, <2>5, <3>1
  <2>8. Equal(g, frames[m]) /\ g.result = v
    <3>1. IsActivation(frames[m])
      BY <1>1, <2>2 DEF MachineOK
    <3>2. PICK argc, locc, begun, stack, args, locals, call, result :
            frames[m] = [argc |-> argc, locc |-> locc, begun |-> begun, stack |-> stack,
                 args |-> args, locals |-> locals, call |-> call, result |-> result]
      BY <3>1 DEF IsActivation
    <3>3. g = [argc |-> argc, locc |-> locc, begun |-> begun, stack |-> stack,
               args |-> args, locals |-> locals, call |-> call, result |-> v]
      BY <2>6, <3>2
    <3> QED
      BY <3>2, <3>3 DEF Equal, Alike
  <2>9. \A j \in 1..n - 1 : Equal(frames'[j], frames[j])
    <3>1. \A j \in 1..n - 1 : j = m \/ j \in 1..m - 1
      BY <2>2
    <3> QED
      BY <2>7, <2>8, <3>1 DEF Equal, Alike
  <2>10. \A j \in 1..n - 1 : ActivationHolds(j)'
    BY <1>1, <1>4, <1>6, <2>9, LowerValues
  <2>11. \A j \in 1..Len(frames') : ActivationHolds(j)'
    BY <2>1, <2>7, <2>10
  <2>12. reg'[AReg[1]] = v
    <3>1. AReg[1] \in Elements(AReg)
      BY Lengths DEF Elements
    <3>2. /\ AReg[1] \in Register /\ AReg[1] # "sp"
          /\ AReg[1] \notin Elements(Saved) /\ AReg[1] \notin Elements(TReg)
      BY <3>1, RegisterSets, SpecialRegisters
    <3>3. Cell(top - 1) = v
      <4>1. top - 1 \in 0..top - 1
        BY <1>1, <1>4
      <4> QED
        BY <1>1, <2>3, <4>1, ValuesAtInstruction
    <3>4. PICK r : r = AReg[1]
      OBVIOUS
    <3>5. reg' = [x \in Register |->
                    CASE x = "sp" -> reg["fp"]
                      [] x = r -> Cell(top - 1)
                      [] x \in Elements(Saved) ->
                           WordAt(mem, reg["fp"] - saved_offset(Place(x, Saved)))
                      [] x \in Elements(TReg) -> Junk
                      [] OTHER -> reg[x]]
      BY <1>3, <1>9, <3>4 DEF End
    <3>6. reg'[r] = Cell(top - 1)
      BY <3>2, <3>4, <3>5
    <3> QED
      BY <3>3, <3>4, <3>6
  <2>13. ValuesInRegisters'
    <3>1. F' = g
      BY <2>7 DEF F
    <3> QED
      BY <2>4, <2>8, <2>12, <3>1 DEF ValuesInRegisters
  <2> QED
    BY <1>2, <1>7, <2>11, <2>13 DEF ValuesInvariant
<1> QED
  BY <1>8, <1>9

LEMMA RuntimeReturnsValues ==
  ASSUME ValuesInvariant, RuntimeReturns
  PROVE  ValuesInvariant'
<1>1. /\ pc = "runtime" /\ pc' = "returned" /\ globals' = globals
      /\ mem' = LiveMem(mem, reg["sp"], 0)
      /\ ConventionInvariant /\ MachineOK /\ CallsInOrder /\ FramesApart /\ RegistersHold
      /\ GlobalsHeld /\ \A j \in 1..Len(frames) : ActivationHolds(j)
  BY DEF ValuesInvariant, ConventionInvariant, RuntimeReturns
<1>2. ConventionInvariant'
  BY <1>1, RuntimeReturnsKeeps
<1>3. PICK n : n = Len(frames)
  OBVIOUS
<1>4. n \in Nat /\ n >= 1 /\ n \in 1..n /\ F = frames[n] /\ IsActivation(F) /\ Suspended(n)
      /\ DOMAIN mem = StackArea \cup GlobalArea /\ n \in 1..Len(frames)
      /\ DOMAIN globals = 0..Globals - 1
  BY <1>1, <1>3 DEF MachineOK, F, Suspended
<1>5. PICK v : /\ reg' = [r \in Register |->
                            CASE r = AReg[1] -> v
                              [] r \in Elements(AtCall) \ {AReg[1]} -> Junk
                              [] OTHER -> reg[r]]
               /\ frames' = [frames EXCEPT ![n].result = v]
  BY <1>3 DEF RuntimeReturns
<1>6. PICK f : f = [F EXCEPT !.result = v]
  OBVIOUS
<1>7. Equal(f, F) /\ f.result = v /\ IsActivation(f)
  <2>1. PICK argc, locc, begun, stack, args, locals, call, result :
          F = [argc |-> argc, locc |-> locc, begun |-> begun, stack |-> stack,
               args |-> args, locals |-> locals, call |-> call, result |-> result]
    BY <1>4 DEF IsActivation
  <2>2. f = [argc |-> argc, locc |-> locc, begun |-> begun, stack |-> stack,
             args |-> args, locals |-> locals, call |-> call, result |-> v]
    BY <1>6, <2>1
  <2>3. Equal(f, F) /\ f.result = v
    BY <2>1, <2>2 DEF Equal, Alike
  <2> QED
    BY <1>4, <2>2, <2>3 DEF IsActivation, Equal, Alike
<1>8. frames' = [frames EXCEPT ![n] = f]
  BY <1>3, <1>4, <1>5, <1>6
<1>9. f.locc = F.locc /\ f.argc = F.argc
  BY <1>7 DEF Equal, Alike
<1>10. /\ Len(frames') = n /\ frames'[n] = f /\ F' = f
       /\ \A j \in 1..n - 1 : frames'[j] = frames[j]
  BY <1>1, <1>3, <1>7, <1>8, <1>9, RunningReplaced
<1>11. /\ F.call.sp \in Nat /\ F.call.dropped \in Nat /\ FrameEnd(n) \in Nat
       /\ F.call.sp + F.call.dropped + Len(AtCall) = FrameEnd(n) /\ FrameEnd(n) <= StackTop
  BY <1>1, <1>4, CallBelow
<1>12. reg["sp"] = F.call.sp
  BY <1>1 DEF RegistersHold
<1>13. \A a \in DOMAIN mem : a \notin StackArea \/ a >= F.call.sp => mem'[a] = mem[a]
  BY <1>1, <1>11, <1>12, LiveMemKeeps
<1>14. /\ Base(n) \in Nat /\ FrameEnd(n) <= Base(n)
       /\ \A a \in StackArea : a >= FrameEnd(n) \/ a > Base(n) => mem'[a] = mem[a]
  <2>1. Base(n) \in Nat /\ FrameEnd(n) <= Base(n)
    BY <1>1, <1>4, FrameNumbers
  <2>2. PICK p \in Nat, d \in Nat, w \in Nat, e \in Nat, b \in Nat :
          p = F.call.sp /\ d = F.call.dropped /\ w = Len(AtCall) /\ e = FrameEnd(n) /\ b = Base(n)
    BY <1>11, <2>1, Numbers
  <2>3. p + d + w = e /\ e <= b
    BY <1>11, <2>1, <2>2
  <2>4. \A a \in Nat : a >= e \/ a > b => a >= p
    BY <2>3
  <2>5. \A a \in StackArea : a \in Nat /\ a \in DOMAIN mem
    BY <1>4, Numbers DEF StackArea
  <2> QED
    BY <1>13, <2>1, <2>2, <2>4, <2>5
<1>15. ActivationHolds(n)'
  <2>1. /\ frames[n].argc < Len(AReg) /\ LocalWords(n) /\ KeptOperands(n) /\ ArgumentWords(n)
    BY <1>1, <1>4 DEF ActivationHolds
  <2>2. f.argc = frames[n].argc /\ f.locals = frames[n].locals /\ (frames[n].begun => f.begun)
    BY <1>4, <1>7 DEF Equal, Alike
  <2>3. LocalWords(n)'
    <3>1. pc # "exit" /\ ActivationHolds(n)
      BY <1>1, <1>4
    <3> QED
      BY <1>1, <1>4, <1>10, <1>14, <2>2, <3>1, FrameValues
  <2>4. KeptOperands(n)'
    BY <1>4, <1>7, <1>10, <2>1 DEF KeptOperands, Equal, Alike
  <2>5. FrameEnd(n)' = FrameEnd(n)
    <3>1. Base(n)' = Base(n)
      BY <1>4, <1>10, SameBase
    <3> QED
      BY <1>4, <1>7, <1>10, <3>1 DEF FrameEnd, Equal, Alike
  <2>6. ASSUME NEW i \in 1..F.argc
        PROVE  mem'[FrameEnd(n) - (1 + Len(Temps) + i)] = mem[FrameEnd(n) - (1 + Len(Temps) + i)]
    <3>1. PICK x : x = FrameEnd(n) - (1 + Len(Temps) + i)
      OBVIOUS
    <3>2. x \in Int /\ x > FrameEnd(n) - Len(AtCall) /\ x <= StackTop
      BY <1>1, <1>4, <2>1, <3>1, ValueAddresses DEF LocalWords
    <3>3. x \in StackArea /\ x >= F.call.sp
      <4>1. PICK p \in Nat, d \in Nat, w \in Nat, e \in Nat, t \in Nat :
              p = F.call.sp /\ d = F.call.dropped /\ w = Len(AtCall) /\ e = FrameEnd(n) /\ t = StackTop
        BY <1>11, Numbers
      <4>2. p + d + w = e /\ x > e - w /\ x <= t
        BY <1>11, <3>2, <4>1
      <4>3. x \in 0..t /\ x >= p
        BY <3>2, <4>2
      <4> QED
        BY <4>1, <4>3 DEF StackArea
    <3> QED
      BY <1>4, <1>13, <3>1, <3>3
  <2>7. ArgumentWords(n)'
    BY <1>4, <1>7, <1>10, <2>1, <2>5, <2>6 DEF ArgumentWords, Equal, Alike
  <2> QED
    BY <1>10, <2>1, <2>2, <2>3, <2>4, <2>7 DEF ActivationHolds
<1>16. ValuesInRegisters'
  <2>1. AReg[1] \in Elements(AReg)
    BY Lengths DEF Elements
  <2>2. AReg[1] \in Register
    BY <2>1, SpecialRegisters
  <2>3. reg'[AReg[1]] = v
    BY <1>5, <2>2
  <2> QED
    BY <1>1, <1>7, <1>10, <2>3 DEF ValuesInRegisters
<1>17. GlobalsHeld'
  <2>1. \A i \in DOMAIN globals : GlobalBase + i \in DOMAIN mem /\ GlobalBase + i \notin StackArea
    BY <1>4, GlobalAddresses
  <2> QED
    BY <1>1, <1>13, <2>1 DEF GlobalsHeld
<1> QED
  BY <1>1, <1>2, <1>3, <1>7, <1>8, <1>9, <1>14, <1>15, <1>16, <1>17, RunningValues

\* Behind a call the arguments come back from the words that the call has saved them
\* to, and the result is the next operand.
LEMMA AfterCallRegisters ==
  ASSUME ConventionInvariant, OperandsInRegisters, AfterCall, NEW n, n = Len(frames)
  PROVE  /\ FrameEnd(n) \in Nat /\ top \in Nat /\ top < MaxResult /\ DOMAIN reg = Register
         /\ reg' = [r \in Register |->
                      CASE r = "sp" -> FrameEnd(n)
                        [] r = "ra" -> WordAt(mem, FrameEnd(n) - 1)
                        [] r \in Elements(Temps) -> WordAt(mem, FrameEnd(n) - temp_offset(Place(r, Temps)))
                        [] r \in Elements(AReg) ->
                             WordAt(mem, FrameEnd(n) - (1 + Len(Temps) + Place(r, AReg)))
                        [] OTHER -> Written(reg, top, result_word)[r]]
         /\ mem' = LiveMem(mem, FrameEnd(n), top + 1)
         /\ \A r \in Elements(Saved) : reg[r] = F.call.kept[r]
<1>1. /\ MachineOK /\ CallsInOrder /\ FramesApart /\ RegistersHold
      /\ pc = "returned"
  BY DEF ConventionInvariant, AfterCall
<1>2. F = frames[n] /\ Suspended(n) /\ n \in 1..Len(frames) /\ DOMAIN reg = Register
  BY <1>1 DEF MachineOK, F, Suspended
<1>3. /\ F.call.sp \in Nat /\ F.call.dropped \in Nat /\ FrameEnd(n) \in Nat
      /\ F.call.sp + F.call.dropped + Len(AtCall) = FrameEnd(n)
  BY <1>2, CallBelow
<1>4. reg["sp"] = F.call.sp /\ \A r \in Elements(Saved) : reg[r] = F.call.kept[r]
  BY <1>1 DEF RegistersHold
<1>5. top \in Nat /\ top < MaxResult
  BY <1>1, <1>2, Activations DEF top, CallInPlace, CallsInOrder
<1>6. PICK b \in Nat, d \in Nat, a \in Nat, t \in Nat, e \in Nat :
        /\ b = F.call.sp /\ d = F.call.dropped /\ a = Len(AReg) /\ t = Len(Temps) /\ e = FrameEnd(n)
  BY <1>3, Lengths
<1>7. b + d + (1 + t + a) = e
  BY <1>3, <1>6, Lengths
<1>8. reg["sp"] + F.call.dropped + Len(AReg) + Len(Temps) + 1 + spilled_count(top + 1) = FrameEnd(n)
      /\ reg["sp"] + F.call.dropped + Len(AReg) + Len(Temps) + 1 = FrameEnd(n)
  <2>1. spilled_count(top + 1) = 0
    <3>1. top + 1 <= Len(StackRegs)
      BY <1>5, Numbers, Lengths DEF OperandsInRegisters
    <3> QED
      BY <1>5, <3>1, Lengths DEF spilled_count
  <2>2. b + d + a + t + 1 + 0 = e /\ b + d + a + t + 1 = e
    BY <1>7
  <2> QED
    BY <1>4, <1>6, <2>1, <2>2
<1>9. ASSUME NEW r \in Elements(AReg)
      PROVE  reg["sp"] + F.call.dropped + argument_offset(Place(r, AReg))
               = FrameEnd(n) - (1 + Len(Temps) + Place(r, AReg))
  <2>1. PICK i \in 1..Len(AReg) : r = AReg[i]
    BY DEF Elements
  <2>2. Place(r, AReg) = i /\ i \in Nat
    BY <2>1, ArgumentPlaces
  <2>3. b + d + (a - i) = e - (1 + t + i)
    BY <1>7, <2>2
  <2> QED
    BY <1>4, <1>6, <2>2, <2>3 DEF argument_offset
<1>10. reg' = [r \in Register |->
                 CASE r = "sp" -> FrameEnd(n)
                   [] r = "ra" -> WordAt(mem, FrameEnd(n) - 1)
                   [] r \in Elements(Temps) -> WordAt(mem, FrameEnd(n) - temp_offset(Place(r, Temps)))
                   [] r \in Elements(AReg) ->
                        WordAt(mem, reg["sp"] + F.call.dropped + argument_offset(Place(r, AReg)))
                   [] OTHER -> Written(reg, top, result_word)[r]]
  BY <1>8 DEF AfterCall, restored_temps
<1>11. reg'["sp"] = FrameEnd(n)
  BY <1>10, SpecialRegisters, RegistersApart, RegisterSets
<1> QED
  BY <1>2, <1>3, <1>4, <1>5, <1>9, <1>10, <1>11 DEF AfterCall

\* An operand that is kept through a call has a register that the callee restores.
LEMMA KeptRegisters ==
  ASSUME ValuesFit, NEW k \in Nat, k >= 1, k <= MaxResult
  PROVE  /\ k \in 1..Len(SReg) /\ k \in 1..Len(StackRegs) /\ StackRegs[k] = SReg[k]
         /\ SReg[k] \in Elements(Saved) /\ SReg[k] \in Register
         /\ SReg[k] # "sp" /\ SReg[k] # "ra"
         /\ SReg[k] \notin Elements(Temps) /\ SReg[k] \notin Elements(AReg)
<1>1. k \in 1..Len(SReg)
  BY Lengths, Numbers DEF ValuesFit
<1>2. k \in 1..Len(StackRegs) /\ StackRegs[k] = SReg[k]
  BY <1>1, Lengths, RegisterSequences
<1>3. SReg[k] \in Elements(SReg)
  BY <1>1 DEF Elements
<1>4. SReg[k] \in Elements(Saved)
  BY <1>3, RegisterSets
<1>5. /\ SReg[k] \in Register /\ SReg[k] # "sp" /\ SReg[k] # "ra"
      /\ SReg[k] \notin Elements(AReg) /\ SReg[k] \notin Elements(AtCall)
  BY <1>4, SpecialRegisters
<1>6. SReg[k] \notin Elements(Temps)
  BY <1>5, RegisterSets
<1> QED
  BY <1>1, <1>2, <1>4, <1>5, <1>6

LEMMA AfterCallValues ==
  ASSUME ValuesInvariant, ValuesFit, AfterCall
  PROVE  ValuesInvariant'
<1>1. /\ pc = "returned" /\ pc' \in {"body", "entry"} /\ globals' = globals
      /\ ConventionInvariant /\ MachineOK /\ CallsInOrder /\ FramesApart
      /\ GlobalsHeld /\ \A j \in 1..Len(frames) : ActivationHolds(j)
      /\ OperandsInRegisters /\ reg[AReg[1]] = F.result
  BY DEF ValuesInvariant, ConventionInvariant, AfterCall, ValuesFit, ValuesInRegisters
<1>2. ConventionInvariant'
  BY <1>1, AfterCallKeeps
<1>3. PICK n : n = Len(frames)
  OBVIOUS
<1>4. n \in Nat /\ n >= 1 /\ n \in 1..n /\ F = frames[n] /\ IsActivation(F) /\ Suspended(n)
      /\ DOMAIN mem = StackArea \cup GlobalArea /\ n \in 1..Len(frames)
      /\ DOMAIN globals = 0..Globals - 1
  BY <1>1, <1>3 DEF MachineOK, F, Suspended
<1>5. /\ FrameEnd(n) \in Nat /\ top \in Nat /\ top < MaxResult /\ DOMAIN reg = Register
      /\ reg' = [r \in Register |->
                   CASE r = "sp" -> FrameEnd(n)
                     [] r = "ra" -> WordAt(mem, FrameEnd(n) - 1)
                     [] r \in Elements(Temps) -> WordAt(mem, FrameEnd(n) - temp_offset(Place(r, Temps)))
                     [] r \in Elements(AReg) ->
                          WordAt(mem, FrameEnd(n) - (1 + Len(Temps) + Place(r, AReg)))
                     [] OTHER -> Written(reg, top, result_word)[r]]
      /\ mem' = LiveMem(mem, FrameEnd(n), top + 1)
      /\ \A r \in Elements(Saved) : reg[r] = F.call.kept[r]
  BY <1>1, <1>3, AfterCallRegisters
<1>6. PICK f : f = [F EXCEPT !.stack = Append(F.stack, F.result), !.call = << >>, !.result = Junk]
  OBVIOUS
<1>7. F.stack \in Seq(Elements(F.stack))
  BY <1>1, <1>4, Activations
<1>8. /\ f.argc = F.argc /\ f.locc = F.locc /\ (F.begun => f.begun) /\ f.locals = F.locals
      /\ f.args = F.args /\ f.stack = Append(F.stack, F.result) /\ IsActivation(f)
  <2>1. PICK argc, locc, begun, stack, args, locals, call, result :
          F = [argc |-> argc, locc |-> locc, begun |-> begun, stack |-> stack,
               args |-> args, locals |-> locals, call |-> call, result |-> result]
    BY <1>4 DEF IsActivation
  <2>2. f = [argc |-> argc, locc |-> locc, begun |-> begun, stack |-> Append(F.stack, F.result),
             args |-> args, locals |-> locals, call |-> << >>, result |-> Junk]
    BY <1>6, <2>1
  <2>3. /\ f.argc = F.argc /\ f.locc = F.locc /\ f.begun = F.begun /\ f.locals = F.locals
        /\ f.args = F.args /\ f.stack = Append(F.stack, F.result)
    BY <2>1, <2>2
  <2>4. IsSequence(f.stack) /\ Len(f.stack) <= MaxOperands
    <3>1. PICK S : S = Elements(F.stack) \cup {F.result}
      OBVIOUS
    <3>2. F.stack \in Seq(S) /\ F.result \in S
      BY <1>7, <3>1, SeqMonotonic
    <3>3. Append(F.stack, F.result) \in Seq(S) /\ Len(Append(F.stack, F.result)) = top + 1
      BY <3>2 DEF top
    <3>4. top + 1 <= MaxOperands
      BY <1>5, Numbers
    <3> QED
      BY <2>3, <3>3, <3>4, OwnElements
  <2> QED
    BY <1>4, <2>2, <2>3, <2>4 DEF IsActivation
<1>9. frames' = [frames EXCEPT ![n] = f]
  BY <1>3, <1>6 DEF AfterCall
<1>10. /\ Len(frames') = n /\ frames'[n] = f /\ F' = f
       /\ \A j \in 1..n - 1 : frames'[j] = frames[j]
  BY <1>1, <1>3, <1>8, <1>9, RunningReplaced
<1>11. \A a \in DOMAIN mem : a \notin StackArea \/ a >= FrameEnd(n) => mem'[a] = mem[a]
  BY <1>5, LiveMemKeeps
<1>12. \A a \in StackArea : a >= FrameEnd(n) \/ a > Base(n) => mem'[a] = mem[a]
  <2>1. Base(n) \in Nat /\ FrameEnd(n) <= Base(n)
    BY <1>1, <1>4, FrameNumbers
  <2>2. \A a \in StackArea : a \in Nat /\ a \in DOMAIN mem
    BY <1>4, Numbers DEF StackArea
  <2>3. \A a \in Nat : a > Base(n) => a >= FrameEnd(n)
    BY <1>5, <2>1
  <2> QED
    BY <1>11, <2>2, <2>3
<1>13. ActivationHolds(n)'
  <2>1. pc # "exit" /\ ActivationHolds(n) /\ f.argc = frames[n].argc /\ f.locals = frames[n].locals
        /\ (frames[n].begun => f.begun)
    BY <1>1, <1>4, <1>8
  <2>2. LocalWords(n)'
    BY <1>1, <1>4, <1>10, <1>12, <2>1, FrameValues
  <2>3. ~Suspended(n)'
    BY <1>1, <1>4, <1>10 DEF Suspended
  <2> QED
    BY <1>10, <2>1, <2>2, <2>3 DEF ActivationHolds
<1>14. ValuesInRegisters'
  <2>1. in_register(top) /\ top + 1 \in Nat /\ top + 1 >= 1 /\ top + 1 <= MaxResult
    BY <1>5, Numbers, Lengths DEF in_register, ValuesFit
  <2>2. /\ Written(reg, top, result_word)[StackRegs[top + 1]] = result_word
        /\ \A i \in 1..Len(StackRegs) :
             i # top + 1 => Written(reg, top, result_word)[StackRegs[i]] = reg[StackRegs[i]]
    BY <1>5, <2>1, WrittenCell
  <2>3. reg'[StackRegs[top + 1]] = F.result
    <3>1. /\ StackRegs[top + 1] = SReg[top + 1] /\ SReg[top + 1] \in Register
          /\ SReg[top + 1] # "sp" /\ SReg[top + 1] # "ra"
          /\ SReg[top + 1] \notin Elements(Temps) /\ SReg[top + 1] \notin Elements(AReg)
      BY <2>1, KeptRegisters
    <3>2. reg'[SReg[top + 1]] = Written(reg, top, result_word)[SReg[top + 1]]
      BY <1>5, <3>1
    <3> QED
      BY <1>1, <2>2, <3>1, <3>2 DEF result_word
  <2>4. ASSUME NEW k \in 1..top
        PROVE  reg'[StackRegs[k]] = F.stack[k]
    <3>1. k \in Nat /\ k >= 1 /\ k <= MaxResult /\ k # top + 1
      BY <1>5, Numbers
    <3>2. /\ StackRegs[k] = SReg[k] /\ SReg[k] \in Register /\ SReg[k] \in Elements(Saved)
          /\ SReg[k] # "sp" /\ SReg[k] # "ra" /\ k \in 1..Len(StackRegs)
          /\ SReg[k] \notin Elements(Temps) /\ SReg[k] \notin Elements(AReg)
      BY <3>1, KeptRegisters
    <3>3. reg'[SReg[k]] = Written(reg, top, result_word)[SReg[k]]
      BY <1>5, <3>2
    <3>4. F.call.kept[SReg[k]] = F.stack[k]
      BY <1>1, <1>4 DEF ActivationHolds, KeptOperands, top
    <3> QED
      BY <1>5, <2>2, <3>1, <3>2, <3>3, <3>4
  <2>5. ASSUME NEW i \in 1..F.argc
        PROVE  reg'[AReg[i]] = F.args[i]
    <3>1. F.argc < Len(AReg) /\ LocalWords(n) /\ ArgumentWords(n)
      BY <1>1, <1>4 DEF ActivationHolds
    <3>2. i \in 1..Len(AReg)
      <4>1. F.argc \in Nat /\ Len(AReg) \in Nat
        BY <1>1, <1>4, Activations, Numbers
      <4> QED
        BY <3>1, <4>1
    <3>3. Place(AReg[i], AReg) = i /\ AReg[i] \in Elements(AReg)
      BY <3>2, ArgumentPlaces DEF Elements
    <3>4. /\ AReg[i] \in Register /\ AReg[i] # "sp" /\ AReg[i] # "ra"
          /\ AReg[i] \notin Elements(Temps)
      <4>1. AReg[i] \notin Elements(TReg)
        BY <3>2, RegistersApart DEF Elements
      <4>2. AReg[i] \notin {"gp", "temp1", "temp2"}
        BY <3>2, RegistersApart
      <4> QED
        BY <3>3, <4>1, <4>2, SpecialRegisters, RegisterSets
    <3>5. reg'[AReg[i]] = WordAt(mem, FrameEnd(n) - (1 + Len(Temps) + i))
      BY <1>5, <3>3, <3>4
    <3>6. PICK x : x = FrameEnd(n) - (1 + Len(Temps) + i)
      OBVIOUS
    <3>7. mem[x] = F.args[i]
      BY <1>4, <3>1, <3>6 DEF ArgumentWords
    <3>8. x \in DOMAIN mem
      <4>1. x \in Int /\ x > FrameEnd(n) - Len(AtCall) /\ x <= StackTop
        BY <1>1, <1>4, <3>1, <3>6, ValueAddresses DEF LocalWords
      <4>2. FrameEnd(n) - Len(AtCall) >= 0
        <5>1. /\ F.call.sp \in Nat /\ F.call.dropped \in Nat
              /\ F.call.sp + F.call.dropped + Len(AtCall) = FrameEnd(n)
          BY <1>1, <1>4, CallBelow
        <5>2. PICK p \in Nat, d \in Nat, w \in Nat, e \in Nat :
                p = F.call.sp /\ d = F.call.dropped /\ w = Len(AtCall) /\ e = FrameEnd(n)
          BY <1>5, <5>1, Numbers
        <5>3. p + d + w = e
          BY <5>1, <5>2
        <5>4. e - w >= 0
          BY <5>3
        <5> QED
          BY <5>2, <5>4
      <4>3. FrameEnd(n) - Len(AtCall) \in Int
        BY <1>5, Numbers
      <4>4. x \in StackArea
        BY <4>1, <4>2, <4>3, Numbers DEF StackArea
      <4> QED
        BY <1>4, <4>4
    <3> QED
      BY <3>5, <3>6, <3>7, <3>8 DEF WordAt
  <2>6. PICK s : s = Append(F.stack, F.result)
    OBVIOUS
  <2>7. Len(s) = top + 1 /\ s[top + 1] = F.result /\ \A k \in 1..top : s[k] = F.stack[k]
    <3>1. PICK S : S = Elements(F.stack) \cup {F.result}
      OBVIOUS
    <3>2. F.stack \in Seq(S) /\ F.result \in S
      BY <1>7, <3>1, SeqMonotonic
    <3> QED
      BY <2>6, <3>2 DEF top
  <2>8. top' = top + 1
    BY <1>8, <1>10, <2>6, <2>7 DEF top
  <2>9. ASSUME NEW k \in 1..top + 1
        PROVE  reg'[StackRegs[k]] = s[k]
    <3>1. k = top + 1 \/ k \in 1..top
      BY <1>5
    <3> QED
      BY <2>3, <2>4, <2>7, <3>1
  <2>10. F'.stack = s /\ F'.argc = F.argc /\ F'.args = F.args
    BY <1>8, <1>10, <2>6
  <2>11. \A k \in 1..top' : reg'[StackRegs[k]] = F'.stack[k]
    BY <2>8, <2>9, <2>10
  <2>12. \A i \in 1..F'.argc : reg'[AReg[i]] = F'.args[i]
    BY <2>5, <2>10
  <2>13. pc' # "returned"
    BY <1>1
  <2> QED
    BY <2>11, <2>12, <2>13 DEF ValuesInRegisters
<1>15. GlobalsHeld'
  <2>1. \A i \in DOMAIN globals : GlobalBase + i \in DOMAIN mem /\ GlobalBase + i \notin StackArea
    BY <1>4, GlobalAddresses
  <2> QED
    BY <1>1, <1>11, <2>1 DEF GlobalsHeld
<1>16. \A a \in StackArea : a > Base(n) => mem'[a] = mem[a]
  BY <1>12
<1> QED
  BY <1>1, <1>2, <1>3, <1>8, <1>9, <1>13, <1>14, <1>15, <1>16, RunningValues

-----------------------------------------------------------------------------
(* Calls.                                                                  *)

\* The activation that calls keeps its values, and so do those above.
LEMMA CallerValues ==
  ASSUME NEW n, NEW argc, NEW add, NEW k, NEW target, NEW f,
         Calls(n, argc, add, k, target), Suspends(f, argc, k), top - k < MaxResult,
         ValuesInvariant, ValuesFit, globals' = globals, pc' # "exit",
         frames'[n] = f, \A j \in 1..n - 1 : frames'[j] = frames[j]
  PROVE  /\ \A j \in 1..n : ActivationHolds(j)'
         /\ GlobalsHeld'
<1>1. /\ ConventionInvariant /\ MachineOK /\ CallsInOrder /\ FramesApart /\ n = Len(frames)
      /\ pc \in {"main", "body"} /\ k \in Nat /\ k <= top
      /\ GlobalsHeld /\ ValuesInRegisters /\ \A j \in 1..Len(frames) : ActivationHolds(j)
  BY DEF ValuesInvariant, ConventionInvariant, Calls
<1>2. n \in Nat /\ n >= 1 /\ n \in 1..n /\ n \in 1..Len(frames) /\ F = frames[n]
      /\ DOMAIN mem = StackArea \cup GlobalArea /\ DOMAIN globals = 0..Globals - 1
  BY <1>1 DEF MachineOK, F
<1>3. Prepared(n, argc, k)
  BY PrepareEffect
<1>4. /\ \A a \in DOMAIN mem : a \notin StackArea \/ a >= FrameEnd(n) => mem'[a] = mem[a]
      /\ \A i \in 1..Len(AtCall) : mem'[FrameEnd(n) - i] = reg[AtCall[i]]
  BY <1>3 DEF Prepared
<1>5. /\ f.argc = F.argc /\ f.locc = F.locc /\ (F.begun => f.begun) /\ (f.begun => F.begun)
      /\ f.args = F.args /\ f.locals = F.locals
      /\ f.stack = Popped(k) /\ Len(f.stack) = top - k
      /\ \A r \in Elements(Saved) : f.call.kept[r] = left(k)[r]
  BY DEF Suspends
<1>6. top \in Nat /\ F.stack \in Seq(Elements(F.stack)) /\ top = Len(F.stack)
      /\ F.argc \in Nat /\ F.argc < Len(AReg)
  BY <1>1, <1>2, Activations DEF top, ActivationHolds
<1>7. /\ Base(n) \in Nat /\ FrameEnd(n) <= Base(n) /\ FrameEnd(n) \in Nat
  BY <1>1, <1>2, FrameNumbers
<1>8. \A a \in StackArea : a >= FrameEnd(n) \/ a > Base(n) => mem'[a] = mem[a]
  <2>1. \A a \in StackArea : a \in Nat /\ a \in DOMAIN mem
    BY <1>2, Numbers DEF StackArea
  <2>2. \A a \in Nat : a > Base(n) => a >= FrameEnd(n)
    BY <1>7
  <2> QED
    BY <1>4, <2>1, <2>2
<1>9. LocalWords(n)'
  <2>1. pc # "exit" /\ ActivationHolds(n) /\ f.argc = frames[n].argc /\ f.locals = frames[n].locals
        /\ (frames[n].begun => f.begun)
    BY <1>1, <1>2, <1>5
  <2> QED
    BY <1>1, <1>2, <1>8, <2>1, FrameValues
<1>10. KeptOperands(n)'
  <2>1. SUFFICES ASSUME NEW i \in 1..Len(f.stack)
                 PROVE  f.call.kept[SReg[i]] = f.stack[i]
    BY DEF KeptOperands
  <2>2. i \in Nat /\ i >= 1 /\ i <= MaxResult /\ i <= top - k /\ i \in 1..top /\ top - k \in Nat
    BY <1>1, <1>5, <1>6, <2>1, Numbers
  <2>3. /\ StackRegs[i] = SReg[i] /\ SReg[i] \in Elements(Saved) /\ i \in 1..Len(StackRegs)
    BY <2>2, KeptRegisters
  <2>4. LiveRegs(reg, top - k)[StackRegs[i]] = reg[StackRegs[i]]
    BY <2>2, <2>3, LiveRegsKeeps
  <2>5. left(k)[SReg[i]] = reg[StackRegs[i]]
    BY <2>3, <2>4 DEF left
  <2>6. reg[StackRegs[i]] = F.stack[i]
    BY <1>1, <2>2 DEF ValuesInRegisters
  <2>7. f.stack[i] = F.stack[i]
    <3>1. f.stack = SubSeq(F.stack, 1, top - k)
      BY <1>5 DEF Popped
    <3> QED
      BY <1>6, <2>2, <3>1
  <2> QED
    BY <1>5, <2>3, <2>5, <2>6, <2>7
<1>11. ArgumentWords(n)'
  <2>1. SUFFICES ASSUME NEW i \in 1..F.argc
                 PROVE  mem'[FrameEnd(n)' - (1 + Len(Temps) + i)] = F.args[i]
    BY <1>2, <1>5 DEF ArgumentWords
  <2>2. FrameEnd(n)' = FrameEnd(n)
    <3>1. Base(n)' = Base(n)
      BY <1>2, SameBase
    <3> QED
      BY <1>2, <1>5, <3>1 DEF FrameEnd
  <2>3. i \in 1..Len(AReg) /\ 1 + Len(Temps) + i \in 1..Len(AtCall)
    BY <1>6, Lengths
  <2>4. AtCall[1 + Len(Temps) + i] = AReg[i]
    BY <2>3, RegisterSequences
  <2>5. reg[AReg[i]] = F.args[i]
    BY <1>1 DEF ValuesInRegisters
  <2> QED
    BY <1>4, <2>2, <2>3, <2>4, <2>5
<1>12. ActivationHolds(n)'
  BY <1>5, <1>6, <1>9, <1>10, <1>11 DEF ActivationHolds
<1>13. \A j \in 1..n - 1 : ActivationHolds(j)'
  <2>1. \A j \in 1..n - 1 : Equal(frames'[j], frames[j])
    BY DEF Equal, Alike
  <2>2. pc # "exit"
    BY <1>1
  <2> QED
    BY <1>1, <1>2, <1>8, <2>1, <2>2, LowerValues
<1>14. GlobalsHeld'
  <2>1. \A i \in DOMAIN globals : GlobalBase + i \in DOMAIN mem /\ GlobalBase + i \notin StackArea
    BY <1>2, GlobalAddresses
  <2> QED
    BY <1>1, <1>4, <2>1 DEF GlobalsHeld
<1>15. \A j \in 1..n : j = n \/ j \in 1..n - 1
  BY <1>2
<1> QED
  BY <1>12, <1>13, <1>14, <1>15

\* A call of a C function.
LEMMA CallsOutValues ==
  ASSUME NEW n, NEW argc, NEW add, NEW k, Calls(n, argc, add, k, "runtime"), top - k < MaxResult,
         ValuesInvariant, ValuesFit, frames' = Calling(argc, add), globals' = globals
  PROVE  ValuesInvariant'
<1>1. /\ MachineOK /\ n = Len(frames) /\ pc' = "runtime"
  BY DEF Calls, ConventionInvariant, Prepare
<1>2. ConventionInvariant'
  BY CallsOut
<1>3. PICK f : Calling(argc, add) = [frames EXCEPT ![n] = f] /\ Suspends(f, argc, k)
  BY CallingEffect
<1>4. /\ frames' = [frames EXCEPT ![n] = f] /\ IsActivation(f) /\ f.locc = F.locc
  BY <1>3 DEF Suspends
<1>5. /\ Len(frames') = n /\ frames'[n] = f
      /\ \A j \in 1..n - 1 : frames'[j] = frames[j]
  BY <1>1, <1>4, RunningReplaced
<1>6. pc' # "exit"
  BY <1>1
<1>7. (\A j \in 1..n : ActivationHolds(j)') /\ GlobalsHeld'
  BY <1>3, <1>5, <1>6, CallerValues
<1>8. ValuesInRegisters'
  BY <1>1 DEF ValuesInRegisters
<1> QED
  BY <1>2, <1>5, <1>7, <1>8 DEF ValuesInvariant

LEMMA CallInitValues ==
  ASSUME ValuesInvariant, ValuesFit, CallInit
  PROVE  ValuesInvariant'
<1>1. pc = "main" /\ Prepare(0, 0, "runtime") /\ frames' = Calling(0, 0) /\ globals' = globals
  BY DEF CallInit
<1>2. top = 0 /\ ConventionInvariant /\ OperandsInRegisters
  BY <1>1 DEF ValuesInvariant, ValuesFit, ConventionInvariant, RegistersHold
<1>3. top - 0 < MaxResult
  BY <1>2, Numbers
<1>4. Calls(Len(frames), 0, 0, 0, "runtime")
  <2>1. 0 \in Nat /\ 0 \in {0, 1} /\ 0 = 0 + 0 /\ 0 <= top
    BY <1>2
  <2> QED
    BY <1>1, <1>2, <2>1 DEF Calls
<1> QED
  BY <1>1, <1>3, <1>4, CallsOutValues

LEMMA CallRuntimeValues ==
  ASSUME ValuesInvariant, ValuesFit, CallRuntime
  PROVE  ValuesInvariant'
<1>1. PICK f \in Runtimes : /\ f.operands <= top /\ top - f.operands < MaxResult
                            /\ Prepare(f.operands + f.add, f.add, "runtime")
                            /\ frames' = Calling(f.operands + f.add, f.add)
  BY DEF CallRuntime
<1>2. PICK k \in Nat, add \in {0, 1} : k = f.operands /\ add = f.add
  BY CodeAssumption
<1>3. PICK argc : argc = k + add
  OBVIOUS
<1>4. pc \in {"main", "body"} /\ globals' = globals /\ MachineOK
      /\ ConventionInvariant /\ OperandsInRegisters
  BY DEF CallRuntime, Running, ConventionInvariant, ValuesInvariant, ValuesFit
<1>5. argc \in Nat /\ argc = k + add /\ k <= top /\ top - k < MaxResult
  <2>1. top \in Nat
    BY <1>4, Activations DEF top
  <2> QED
    BY <1>1, <1>2, <1>3, <2>1
<1>6. Prepare(argc, add, "runtime") /\ frames' = Calling(argc, add)
  BY <1>1, <1>2, <1>3
<1>7. Calls(Len(frames), argc, add, k, "runtime")
  BY <1>2, <1>4, <1>5, <1>6 DEF Calls
<1> QED
  BY <1>4, <1>5, <1>6, <1>7, CallsOutValues

\* The operands that a call passes arrive in the registers of the arguments.
LEMMA PassedArguments ==
  ASSUME NEW n, NEW argc, NEW target, Calls(n, argc, 0, argc, target), argc < Len(AReg),
         NEW i \in 1..argc
  PROVE  reg'[AReg[i]] = reg[StackRegs[top - argc + i]]
<1>1. argc \in Nat /\ argc <= top /\ Prepare(argc, 0, target) /\ OperandsInRegisters
      /\ ConventionInvariant /\ MachineOK /\ n = Len(frames)
  BY DEF Calls, ConventionInvariant
<1>2. on_stack(argc) = 0 /\ in_regs(argc) = argc
  BY <1>1, Numbers DEF on_stack, in_regs
<1>3. top \in Nat /\ top <= MaxOperands
  <2>1. F = frames[n] /\ n \in 1..Len(frames)
    BY <1>1 DEF MachineOK, F
  <2> QED
    BY <1>1, <2>1, Activations DEF top
<1>4. i \in 1..Len(AReg) /\ i \in 0 + 1..in_regs(argc)
  BY <1>1, <1>2, Numbers
<1>5. Place(AReg[i], AReg) = i /\ AReg[i] \in Elements(AReg)
  BY <1>4, ArgumentPlaces DEF Elements
<1>6. AReg[i] \in Register /\ AReg[i] # "sp" /\ AReg[i] # "ra"
  BY <1>5, SpecialRegisters
<1>7. PICK r, c, w :
        /\ r = AReg[i] /\ c = argument_cell(argc, i) /\ w = CellFrom(pushed, with_saved, c)
  OBVIOUS
<1>8. reg'[r] = CellFrom(pushed, with_saved, argument_cell(argc, Place(r, AReg)))
  <2>1. \E j \in 0 + 1..in_regs(argc) : AReg[j] = r
    BY <1>4, <1>7
  <2>2. r \in Register /\ r # "sp" /\ r # "ra"
    BY <1>6, <1>7
  <2> QED
    BY <1>1, <2>1, <2>2 DEF Prepare
<1>9. argument_cell(argc, i) + 1 = top - argc + i /\ argument_cell(argc, i) < Len(StackRegs)
  <2>1. argument_cell(argc, i) = top - 1 - (argc - i)
    BY <1>2 DEF argument_cell
  <2>2. top <= Len(StackRegs)
    BY <1>1, <1>3, Numbers, Lengths DEF OperandsInRegisters
  <2> QED
    BY <1>1, <1>3, <2>1, <2>2, Lengths
<1> QED
  BY <1>5, <1>7, <1>8, <1>9 DEF CellFrom, in_register

\* The callee finds the operands that were passed as its arguments.
LEMMA CallFunctionValues ==
  ASSUME ValuesInvariant, ValuesFit, CallFunction
  PROVE  ValuesInvariant'
<1>1. /\ ConventionInvariant /\ MachineOK /\ ValuesInRegisters /\ pc = "body" /\ globals' = globals
      /\ OperandsInRegisters
  BY DEF ValuesInvariant, ValuesFit, ConventionInvariant, CallFunction, Running
<1>2. ConventionInvariant'
  BY <1>1, CallFunctionKeeps
<1>3. PICK n : n = Len(frames)
  OBVIOUS
<1>4. n \in Nat /\ n >= 1 /\ n \in 1..Len(frames) /\ F = frames[n]
      /\ top \in Nat /\ F.stack \in Seq(Elements(F.stack)) /\ top = Len(F.stack)
  <2>1. n \in Nat /\ n >= 1 /\ n \in 1..Len(frames) /\ F = frames[n]
    BY <1>1, <1>3 DEF MachineOK, F
  <2> QED
    BY <1>1, <2>1, Activations DEF top
<1>5. PICK s \in Shapes :
        /\ s.argc <= top /\ top - s.argc < MaxResult
        /\ Prepare(s.argc, 0, "entry")
        /\ frames' = Append(Calling(s.argc, 0),
                            [argc |-> s.argc, locc |-> s.locc, begun |-> FALSE, stack |-> << >>,
                             args |-> SubSeq(F.stack, top - s.argc + 1, top), locals |-> << >>,
                             call |-> << >>, result |-> Junk])
  BY DEF CallFunction
<1>6. PICK argc \in Nat, locc \in Nat : argc = s.argc /\ locc = s.locc
  BY CodeAssumption
<1>7. PICK args, new :
        /\ args = SubSeq(F.stack, top - argc + 1, top)
        /\ new = [argc |-> argc, locc |-> locc, begun |-> FALSE, stack |-> << >>, args |-> args,
                  locals |-> << >>, call |-> << >>, result |-> Junk]
  OBVIOUS
<1>8. /\ argc <= top /\ top - argc < MaxResult /\ Prepare(argc, 0, "entry")
      /\ frames' = Append(Calling(argc, 0), new) /\ pc' = "entry" /\ argc < Len(AReg)
  BY <1>5, <1>6, <1>7 DEF Prepare, ValuesFit
<1>9. Calls(n, argc, 0, argc, "entry")
  <2>1. 0 \in {0, 1} /\ argc = argc + 0
    OBVIOUS
  <2> QED
    BY <1>1, <1>3, <1>8, <2>1 DEF Calls
<1>10. PICK f : Calling(argc, 0) = [frames EXCEPT ![n] = f] /\ Suspends(f, argc, argc)
  BY <1>9, CallingEffect
<1>11. /\ new.argc = argc /\ new.begun = FALSE /\ new.stack = << >>
       /\ new.args = args /\ new.locals = << >>
  BY <1>7
<1>12. PICK m : m = n + 1
  OBVIOUS
<1>13. /\ Len(frames') = m /\ frames'[n] = f /\ frames'[m] = new
       /\ \A j \in 1..n - 1 : frames'[j] = frames[j]
  <2>1. PICK S : S = Elements(frames) \cup {f, new}
    OBVIOUS
  <2>2. frames \in Seq(Elements(frames))
    BY <1>1 DEF MachineOK, IsSequence
  <2>3. frames \in Seq(S) /\ f \in S /\ new \in S
    BY <2>1, <2>2, SeqMonotonic
  <2>4. PICK t : t = [frames EXCEPT ![n] = f]
    OBVIOUS
  <2>5. t \in Seq(S) /\ Len(t) = n /\ \A j \in 1..n : t[j] = IF j = n THEN f ELSE frames[j]
    BY <1>3, <1>4, <2>3, <2>4
  <2>6. frames' = Append(t, new)
    BY <1>8, <1>10, <2>4
  <2>7. Len(frames') = n + 1 /\ frames'[n + 1] = new /\ \A j \in 1..n : frames'[j] = t[j]
    BY <2>3, <2>5, <2>6
  <2> QED
    BY <1>4, <1>12, <2>5, <2>7
<1>14. pc' # "exit"
  BY <1>8
<1>15. (\A j \in 1..n : ActivationHolds(j)') /\ GlobalsHeld'
  BY <1>1, <1>8, <1>9, <1>10, <1>13, <1>14, CallerValues
<1>16. ActivationHolds(m)'
  <2>1. LocalWords(m)'
    BY <1>11, <1>13 DEF LocalWords
  <2>2. ~Suspended(m)'
    BY <1>4, <1>8, <1>12, <1>13 DEF Suspended
  <2> QED
    BY <1>8, <1>11, <1>13, <2>1, <2>2 DEF ActivationHolds
<1>17. ValuesInRegisters'
  <2>1. F' = new
    BY <1>13 DEF F
  <2>2. top' = 0
    BY <1>11, <2>1 DEF top
  <2>3. ASSUME NEW i \in 1..argc
        PROVE  reg'[AReg[i]] = args[i]
    <3>1. reg'[AReg[i]] = reg[StackRegs[top - argc + i]]
      BY <1>8, <1>9, PassedArguments
    <3>2. top - argc + i \in 1..top
      BY <1>4, <1>8
    <3>3. reg[StackRegs[top - argc + i]] = F.stack[top - argc + i]
      BY <1>1, <3>2 DEF ValuesInRegisters
    <3>4. args[i] = F.stack[top - argc + i]
      BY <1>4, <1>7, <1>8
    <3> QED
      BY <3>1, <3>3, <3>4
  <2>4. \A k \in 1..top' : reg'[StackRegs[k]] = F'.stack[k]
    BY <2>2
  <2>5. \A i \in 1..F'.argc : reg'[AReg[i]] = F'.args[i]
    BY <1>11, <2>1, <2>3
  <2>6. pc' # "returned"
    BY <1>8
  <2> QED
    BY <2>4, <2>5, <2>6 DEF ValuesInRegisters
<1>18. \A j \in 1..m : j = m \/ j \in 1..n
  BY <1>4, <1>12
<1> QED
  BY <1>2, <1>13, <1>15, <1>16, <1>17, <1>18 DEF ValuesInvariant

-----------------------------------------------------------------------------
(* Every value in its place.                                               *)

LEMMA ValuesInit ==
  ASSUME CodeInit, ValuesFit
  PROVE  ValuesInvariant
<1>1. ConventionInvariant
  BY ConventionInit
<1>2. PICK f : /\ f = [argc |-> 0, locc |-> MainLocals, begun |-> FALSE, stack |-> << >>,
                       args |-> << >>, locals |-> << >>, call |-> << >>, result |-> Junk]
               /\ frames = <<f>>
  BY DEF CodeInit
<1>3. f.argc = 0 /\ f.stack = << >> /\ f.locals = << >>
  BY <1>2
<1>4. Len(frames) = 1 /\ frames[1] = f /\ F = f /\ top = 0 /\ pc = "main"
  BY <1>2, <1>3 DEF F, top, CodeInit
<1>5. ActivationHolds(1)
  <2>1. ~Suspended(1)
    BY <1>4 DEF Suspended
  <2>2. frames[1].argc < Len(AReg)
    BY <1>3, <1>4, Lengths
  <2>3. LocalWords(1)
    BY <1>3, <1>4 DEF LocalWords
  <2> QED
    BY <2>1, <2>2, <2>3 DEF ActivationHolds
<1>6. ValuesInRegisters
  BY <1>3, <1>4 DEF ValuesInRegisters
<1>7. GlobalsHeld
  <2>1. DOMAIN globals = 0..Globals - 1 /\ \A i \in DOMAIN globals : globals[i] = 0
    BY DEF CodeInit
  <2>2. \A a \in GlobalArea : a \notin StackArea => mem[a] = 0
    BY DEF CodeInit
  <2> QED
    BY <2>1, <2>2, GlobalAddresses DEF GlobalsHeld
<1>8. \A j \in 1..Len(frames) : j = 1
  BY <1>4
<1> QED
  BY <1>1, <1>5, <1>6, <1>7, <1>8 DEF ValuesInvariant

LEMMA ValuesStep ==
  ASSUME ValuesInvariant, ValuesFit, [CodeNext]_vars
  PROVE  ValuesInvariant'
<1> OperandsInRegisters
  BY DEF ValuesFit
<1>1. CASE CallInit
  BY <1>1, CallInitValues
<1>2. CASE AfterCall
  BY <1>2, AfterCallValues
<1>3. CASE SaveRegisters
  BY <1>3, SaveRegistersValues
<1>4. CASE End
  BY <1>4, EndValues
<1>5. CASE CallRuntime
  BY <1>5, CallRuntimeValues
<1>6. CASE RuntimeReturns
  BY <1>6, RuntimeReturnsValues
<1>7. CASE CallFunction
  BY <1>7, CallFunctionValues
<1>8. CASE Const
  BY <1>8, ConstValues
<1>9. CASE LoadArg \/ LoadLocal \/ LoadGlobal
  BY <1>9, LoadValues
<1>10. CASE StoreArg
  BY <1>10 DEF StoreArg, ValuesFit
<1>11. CASE StoreLocal
  BY <1>11, StoreLocalValues
<1>12. CASE StoreGlobal
  BY <1>12, StoreGlobalValues
<1>13. CASE Drop
  BY <1>13, DropValues
<1>14. CASE Duplicate
  BY <1>14, DuplicateValues
<1>15. CASE Swap
  BY <1>15, SwapValues
<1>16. CASE Binop
  BY <1>16, BinopValues
<1>17. CASE UNCHANGED vars
  <2>1. frames' = frames /\ pc' = pc /\ reg' = reg /\ mem' = mem /\ globals' = globals
    BY <1>17 DEF vars
  <2>2. ConventionInvariant'
    BY ConventionStep DEF ValuesInvariant
  <2>3. \A j : Base(j)' = Base(j) /\ FrameEnd(j)' = FrameEnd(j)
    BY <2>1 DEF Base, FrameEnd
  <2>4. \A j \in 1..Len(frames) : ActivationHolds(j)'
    BY <2>1, <2>3 DEF ValuesInvariant, ActivationHolds, LocalWords, KeptOperands, ArgumentWords,
                      Suspended
  <2>5. ValuesInRegisters' /\ GlobalsHeld'
    BY <2>1 DEF ValuesInvariant, ValuesInRegisters, GlobalsHeld, F, top
  <2> QED
    BY <2>1, <2>2, <2>4, <2>5 DEF ValuesInvariant
<1> QED
  BY <1>1, <1>2, <1>3, <1>4, <1>5, <1>6, <1>7, <1>8, <1>9, <1>10, <1>11, <1>12, <1>13, <1>14,
     <1>15, <1>16, <1>17 DEF CodeNext

\* Through every program, every operand, argument, local and global lies where the code of
\* its activation looks for it, before, between and behind calls (alloc, pop, compile_call,
\* Begin and End), as long as the registers are enough for them (ValuesFit).
THEOREM ValuesHold == ValuesFit /\ CodeSpec => []ValuesInvariant
<1> SUFFICES ASSUME ValuesFit
             PROVE  CodeSpec => []ValuesInvariant
  OBVIOUS
<1>1. CodeInit => ValuesInvariant
  BY ValuesInit
<1>2. ValuesInvariant /\ [CodeNext]_vars => ValuesInvariant'
  BY ValuesStep
<1> QED
  BY <1>1, <1>2, PTL DEF CodeSpec

\* Whenever an instruction starts, cell k of the symbolic stack (symb_stack.h) holds
\* operand k of the stack machine, whatever calls and moves came in between.
THEOREM OperandsInPlaceHolds == ValuesFit /\ CodeSpec => []OperandsInPlace
<1>1. ValuesInvariant /\ ValuesFit => OperandsInPlace
  BY ValuesAtInstruction DEF OperandsInPlace, ValuesFit
<1>2. ValuesFit => []ValuesFit
  <2>1. ValuesFit => ValuesFit'
    OBVIOUS
  <2> QED
    BY <2>1, PTL
<1> QED
  BY <1>1, <1>2, ValuesHold, PTL

\* Whenever an instruction starts, argument i is where Load looks for it, in its register
\* or in the word that the call before saved it to (compile_call, argument_word).
THEOREM ArgumentsInPlaceHolds == ValuesFit /\ CodeSpec => []ArgumentsInPlace
<1>1. ValuesInvariant /\ ValuesFit => ArgumentsInPlace
  BY ValuesAtInstruction DEF ArgumentsInPlace, ValuesFit
<1>2. ValuesFit => []ValuesFit
  <2>1. ValuesFit => ValuesFit'
    OBVIOUS
  <2> QED
    BY <2>1, PTL
<1> QED
  BY <1>1, <1>2, ValuesHold, PTL

\* Whenever an instruction starts, the word of local i in the frame holds local i: no
\* saved register and no callee writes over it (compile_call, Begin).
THEOREM LocalsInPlaceHolds == ValuesFit /\ CodeSpec => []LocalsInPlace
<1>1. ValuesInvariant /\ ValuesFit => LocalsInPlace
  BY ValuesAtInstruction DEF LocalsInPlace, ValuesFit
<1>2. ValuesFit => []ValuesFit
  <2>1. ValuesFit => ValuesFit'
    OBVIOUS
  <2> QED
    BY <2>1, PTL
<1> QED
  BY <1>1, <1>2, ValuesHold, PTL

\* Whenever an instruction starts, gp has the address of the globals and their words
\* hold the globals: the register survives every call (compile_call).
THEOREM GlobalsInPlaceHolds == ValuesFit /\ CodeSpec => []GlobalsInPlace
<1>1. ValuesInvariant /\ ValuesFit => GlobalsInPlace
  <2> SUFFICES ASSUME ValuesInvariant, ValuesFit, Running
               PROVE  /\ reg["gp"] = GlobalBase
                      /\ \A i \in DOMAIN globals : mem[GlobalBase + i] = globals[i]
    BY DEF GlobalsInPlace
  <2>1. ConventionInvariant /\ OperandsInRegisters
    BY DEF ValuesInvariant, ValuesFit
  <2> QED
    BY <2>1, AtInstruction, ValuesAtInstruction
<1>2. ValuesFit => []ValuesFit
  <2>1. ValuesFit => ValuesFit'
    OBVIOUS
  <2> QED
    BY <2>1, PTL
<1> QED
  BY <1>1, <1>2, ValuesHold, PTL
=============================================================================
