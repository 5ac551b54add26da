-------------------------- MODULE HostProgram_proofs --------------------------
(***************************************************************************)
(* Proofs about HostConfig, for every list the user can ask for, every     *)
(* size of the lines and of the device's list, and every number of losses: *)
(* the types, and that the host goes on only when the device is configured *)
(* as wanted, for lists that ListsFit admits.  Proofs about HostParser     *)
(* follow in a section of their own.                                       *)
(*                                                                         *)
(* HostConfig counts: one more for a command sent, one less for its        *)
(* answer.  The invariant relates the counts to what is on the two lines,  *)
(* so that counts of zero mean that the lines are empty and that every     *)
(* command of the last attempt was executed.                               *)
(***************************************************************************)
EXTENDS MCHostProgram, SequenceTheorems, FiniteSetTheorems, FunctionTheorems, TLAPS

USE DEF vars, hostVars, lineVars, deviceVars

(* A set of numbers with 0 and all successors has all. *)
LEMMA Induction ==
  ASSUME NEW S, 0 \in S, \A n \in Nat : n \in S => n + 1 \in S
  PROVE  \A n \in Nat : n \in S
<1> DEFINE T == {n \in Nat : n \notin S}
<1> SUFFICES ASSUME T # {} PROVE FALSE
  OBVIOUS
<1>1. T \subseteq Nat
  OBVIOUS
<1>2. \E x \in T : \A y \in T : ~(<<y, x>> \in OpToRel(<, Nat))
  <2> HIDE DEF T
  <2>1. QED BY <1>1, NatLessThanWellFounded, WFMin, Zenon
<1>3. PICK x \in T : \A y \in T : ~(<<y, x>> \in OpToRel(<, Nat))
  BY <1>2
<1>4. x \in Nat /\ x # 0
  BY <1>3
<1>5. x - 1 \in Nat /\ x - 1 < x /\ (x - 1) + 1 = x
  BY <1>4
<1>6. x - 1 \notin T
  <2>1. <<x - 1, x>> \in OpToRel(<, Nat)
    BY <1>4, <1>5 DEF OpToRel
  <2>2. QED BY <1>3, <2>1
<1>7. QED BY <1>3, <1>5, <1>6

-----------------------------------------------------------------------------
(* How often an answer is in a sequence of answers.                        *)
Hits(s, c) == {i \in DOMAIN s : s[i] = c}

LEMMA CountIsNat ==
  ASSUME NEW s \in Seq(Cmd), NEW c
  PROVE  IsFiniteSet(Hits(s, c)) /\ Count(s, c) \in Nat /\ Count(s, c) = Cardinality(Hits(s, c))
<1>1. Hits(s, c) \in SUBSET (1 .. Len(s)) /\ Len(s) \in Int
  BY DEF Hits
<1>2. IsFiniteSet(1 .. Len(s))
  BY <1>1, FS_Interval
<1>3. IsFiniteSet(Hits(s, c))
  BY <1>1, <1>2, FS_Subset
<1>4. Cardinality(Hits(s, c)) \in Nat
  BY <1>3, FS_CardinalityType
<1>5. QED BY <1>3, <1>4 DEF Count, Hits

LEMMA CountOfEmpty ==
  ASSUME NEW c
  PROVE  Count(<< >>, c) = 0
<1>1. {i \in DOMAIN << >> : << >>[i] = c} = {}
  OBVIOUS
<1>2. QED BY <1>1, FS_EmptySet DEF Count

LEMMA CountOfAppend ==
  ASSUME NEW s \in Seq(Cmd), NEW x \in Cmd, NEW c
  PROVE  Count(Append(s, x), c) = Count(s, c) + IF x = c THEN 1 ELSE 0
<1>1. /\ Append(s, x) \in Seq(Cmd) /\ Len(s) \in Nat
      /\ DOMAIN s = 1 .. Len(s) /\ DOMAIN Append(s, x) = 1 .. Len(s) + 1
      /\ \A i \in 1 .. Len(s) : Append(s, x)[i] = s[i]
      /\ Append(s, x)[Len(s) + 1] = x
  OBVIOUS
<1>2. Hits(Append(s, x), c) = IF x = c THEN Hits(s, c) \cup {Len(s) + 1} ELSE Hits(s, c)
  BY <1>1 DEF Hits
<1>3. Len(s) + 1 \notin Hits(s, c)
  BY <1>1 DEF Hits
<1>4. /\ IsFiniteSet(Hits(s, c)) /\ Count(s, c) \in Nat /\ Count(s, c) = Cardinality(Hits(s, c))
      /\ Count(Append(s, x), c) = Cardinality(Hits(Append(s, x), c))
  BY <1>1, CountIsNat
<1>5. Cardinality(Hits(s, c) \cup {Len(s) + 1}) = Cardinality(Hits(s, c)) + 1
  BY <1>3, <1>4, FS_AddElement
<1>6. CASE x = c
  BY <1>2, <1>4, <1>5, <1>6
<1>7. CASE x # c
  BY <1>2, <1>4, <1>7
<1>8. QED BY <1>6, <1>7

LEMMA CountOfTail ==
  ASSUME NEW s \in Seq(Cmd), s # << >>, NEW c
  PROVE  Count(s, c) = Count(Tail(s), c) + IF Head(s) = c THEN 1 ELSE 0
<1> DEFINE t == Tail(s)
<1>1. /\ t \in Seq(Cmd) /\ Len(s) \in Nat \ {0} /\ Len(t) = Len(s) - 1
      /\ DOMAIN s = 1 .. Len(s) /\ DOMAIN t = 1 .. Len(s) - 1
      /\ \A i \in 1 .. Len(s) - 1 : t[i] = s[i + 1]
      /\ Head(s) = s[1]
  BY HeadTailProperties
<1> HIDE DEF t
<1> DEFINE A == Hits(t, c)
<1> DEFINE B == Hits(s, c) \ {1}
<1> DEFINE f == [i \in A |-> i + 1]
<1>2. A \subseteq 1 .. Len(s) - 1 /\ \A i \in A : s[i + 1] = c
  BY <1>1 DEF Hits
<1>3. \A i \in A : i \in Int /\ i + 1 \in B
  BY <1>1, <1>2 DEF Hits
<1>4. \A j \in B : j - 1 \in A /\ (j - 1) + 1 = j
  <2>1. \A j \in B : j \in 2 .. Len(s) /\ s[j] = c
    BY <1>1 DEF Hits
  <2>2. \A j \in 2 .. Len(s) : j - 1 \in 1 .. Len(s) - 1 /\ (j - 1) + 1 = j
    BY <1>1
  <2>3. QED BY <1>1, <2>1, <2>2 DEF Hits
<1> HIDE DEF A, B
<1>5. f \in Bijection(A, B)
  <2>1. f \in [A -> B]
    BY <1>3
  <2>2. \A a, b \in A : f[a] = f[b] => a = b
    BY <1>3
  <2>3. \A j \in B : \E i \in A : f[i] = j
    <3>1. ASSUME NEW j \in B PROVE \E i \in A : f[i] = j
      <4>1. j - 1 \in A /\ f[j - 1] = j
        BY <1>4
      <4>2. QED BY <4>1
    <3>2. QED BY <3>1
  <2> HIDE DEF f
  <2>4. QED BY <2>1, <2>2, <2>3, Fun_IsBij
<1>6. IsFiniteSet(A) /\ Cardinality(A) = Count(t, c) /\ Cardinality(A) \in Nat
  BY <1>1, CountIsNat DEF A
<1>7. IsFiniteSet(B) /\ Cardinality(B) = Cardinality(A)
  BY <1>5, <1>6, FS_Bijection DEF ExistsBijection
<1>8. Hits(s, c) = IF Head(s) = c THEN B \cup {1} ELSE B
  BY <1>1 DEF Hits, B
<1>9. 1 \notin B
  BY DEF B
<1>10. Count(s, c) = Cardinality(Hits(s, c))
  BY CountIsNat
<1>11. Cardinality(B \cup {1}) = Cardinality(B) + 1
  BY <1>7, <1>9, FS_AddElement
<1>12. CASE Head(s) = c
  BY <1>6, <1>7, <1>8, <1>10, <1>11, <1>12 DEF t
<1>13. CASE Head(s) # c
  BY <1>6, <1>7, <1>8, <1>10, <1>13 DEF t
<1>14. QED BY <1>12, <1>13

(* What has been read and what has not been. *)
LEMMA CountOfParts ==
  ASSUME NEW s \in Seq(Cmd), NEW n \in 0 .. Len(s), NEW c
  PROVE  Count(s, c) = Count(SubSeq(s, 1, n), c) + Count(SubSeq(s, n + 1, Len(s)), c)
<1> DEFINE Fst(k) == SubSeq(s, 1, k)
<1> DEFINE Rest(k) == SubSeq(s, k + 1, Len(s))
<1> DEFINE S == {k \in Nat : k <= Len(s) => Count(s, c) = Count(Fst(k), c) + Count(Rest(k), c)}
<1>1. \A k \in 0 .. Len(s) : Fst(k) \in Seq(Cmd) /\ Rest(k) \in Seq(Cmd)
  <2>1. ASSUME NEW k \in 0 .. Len(s) PROVE Fst(k) \in Seq(Cmd) /\ Rest(k) \in Seq(Cmd)
    <3>1. /\ k \in Int /\ k + 1 \in Int /\ Len(s) \in Int
          /\ \A i \in 1 .. k : s[i] \in Cmd
          /\ \A i \in k + 1 .. Len(s) : s[i] \in Cmd
      OBVIOUS
    <3>2. QED BY <3>1, SubSeqProperties
  <2>2. QED BY <2>1
<1>2. 0 \in S
  <2>1. Fst(0) = << >> /\ Rest(0) = s
    BY SubSeqEmpty, SubSeqFull
  <2>2. Count(<< >>, c) = 0 /\ Count(s, c) \in Nat /\ 0 <= Len(s)
    BY CountOfEmpty, CountIsNat
  <2> HIDE DEF Fst, Rest
  <2>3. QED BY <2>1, <2>2
<1>3. ASSUME NEW k \in Nat, k \in S PROVE k + 1 \in S
  <2>1. CASE k + 1 <= Len(s)
    <3>1. k \in 0 .. Len(s) /\ k + 1 \in 0 .. Len(s) /\ k + 1 \in 1 .. Len(s) /\ Len(s) \in k + 1 .. Len(s)
          /\ 1 \in 1 .. Len(s) /\ k + 1 \in 1 .. Len(s) /\ (k + 1) - 1 = k /\ Len(s) \in Nat
      BY <2>1
    <3>2. Head(Rest(k)) = s[k + 1] /\ Tail(Rest(k)) = Rest(k + 1)
      BY <3>1, HeadTailOfSubSeq
    <3>3. Fst(k + 1) = Append(Fst(k), s[k + 1])
      <4>1. SubSeq(s, 1, k + 1) = SubSeq(s, 1, (k + 1) - 1) \o << s[k + 1] >>
        BY <3>1, SubSeqRecursiveSecond
      <4>2. Append(Fst(k), s[k + 1]) = Fst(k) \o << s[k + 1] >>
        BY <1>1, <3>1, AppendIsConcat
      <4>3. QED BY <3>1, <4>1, <4>2
    <3>4. Rest(k) # << >> /\ s[k + 1] \in Cmd
      <4>1. PICK r \in Seq(Cmd) : r = Rest(k) /\ Len(r) = Len(s) - (k + 1) + 1
        <5>1. Len(Rest(k)) = Len(s) - (k + 1) + 1
          BY <3>1
        <5>2. Rest(k) \in Seq(Cmd)
          BY <1>1, <3>1
        <5> HIDE DEF Rest
        <5>3. QED BY <5>1, <5>2
      <4>2. Len(r) # 0
        <5> HIDE DEF Rest
        <5>1. QED BY <3>1, <4>1
      <4>3. Rest(k) # << >>
        <5> HIDE DEF Rest
        <5>1. QED BY <4>1, <4>2
      <4>4. s[k + 1] \in Cmd
        BY <3>1
      <4> HIDE DEF Rest
      <4>5. QED BY <4>3, <4>4
    <3>5. Count(Rest(k), c) = Count(Rest(k + 1), c) + IF s[k + 1] = c THEN 1 ELSE 0
      BY <1>1, <3>1, <3>2, <3>4, CountOfTail
    <3>6. Count(Fst(k + 1), c) = Count(Fst(k), c) + IF s[k + 1] = c THEN 1 ELSE 0
      <4>1. Fst(k) \in Seq(Cmd)
        BY <1>1, <3>1
      <4>2. \A p \in Seq(Cmd), x \in Cmd :
              Count(Append(p, x), c) = Count(p, c) + IF x = c THEN 1 ELSE 0
        BY CountOfAppend
      <4> HIDE DEF Fst
      <4>3. Count(Append(Fst(k), s[k + 1]), c) = Count(Fst(k), c) + IF s[k + 1] = c THEN 1 ELSE 0
        BY <3>4, <4>1, <4>2
      <4>4. QED BY <3>3, <4>3
    <3>7. Count(Fst(k), c) \in Nat /\ Count(Rest(k + 1), c) \in Nat
      BY <1>1, <3>1, CountIsNat
    <3> HIDE DEF Fst, Rest
    <3>8. QED BY <1>3, <3>1, <3>5, <3>6, <3>7
  <2>2. CASE ~(k + 1 <= Len(s))
    BY <2>2
  <2>3. QED BY <2>1, <2>2
<1>4. \A k \in Nat : k \in S
  <2> HIDE DEF S
  <2>1. QED BY <1>2, <1>3, Induction
<1>5. QED BY <1>4

-----------------------------------------------------------------------------
(* What the host sends for its lists.                                      *)
Total == Len(wanted.white) + Len(wanted.black)
Address(i) == IF i <= Len(wanted.white) THEN wanted.white[i] ELSE wanted.black[i - Len(wanted.white)]
ModeWanted == IF wanted.white # << >> THEN "WMAC" ELSE "BMAC"

LEMMA Commands ==
  /\ \A c \in {"INFO", "CLRM", "SCAN"} : [cmd |-> c, arg |-> None] \in Command
  /\ \A c \in ListCmd, m \in Mac : [cmd |-> c, arg |-> m] \in Command
  /\ \A d \in Command : d.cmd \in Cmd /\ (d.cmd \in ListCmd => d.arg \in Mac)
BY DEF Command, Cmd, ListCmd

LEMMA Mapped ==
  ASSUME NEW s \in Seq(Mac), NEW c \in ListCmd
  PROVE  LET t == [i \in DOMAIN s |-> [cmd |-> c, arg |-> s[i]]]
         IN  /\ t \in Seq(Command) /\ Len(t) = Len(s)
             /\ \A i \in 1 .. Len(s) : t[i] = [cmd |-> c, arg |-> s[i]]
<1> DEFINE d(i) == [cmd |-> c, arg |-> s[i]]
<1> DEFINE t == [i \in DOMAIN s |-> d(i)]
<1>1. DOMAIN s = 1 .. Len(s) /\ Len(s) \in Nat /\ \A i \in 1 .. Len(s) : s[i] \in Mac
  OBVIOUS
<1>2. \A i \in 1 .. Len(s) : d(i) \in Command
  BY <1>1, Commands
<1> HIDE DEF d
<1>3. t \in Seq(Command) /\ Len(t) = Len(s) /\ \A i \in 1 .. Len(s) : t[i] = d(i)
  BY <1>1, <1>2
<1>4. QED BY <1>3 DEF d

LEMMA Joined ==
  ASSUME NEW S, NEW s \in Seq(S), NEW t \in Seq(S)
  PROVE  /\ s \o t \in Seq(S) /\ Len(s \o t) = Len(s) + Len(t)
         /\ \A i \in 1 .. Len(s) : (s \o t)[i] = s[i]
         /\ \A i \in 1 .. Len(t) : (s \o t)[Len(s) + i] = t[i]
<1>1. s \o t \in Seq(S) /\ Len(s \o t) = Len(s) + Len(t) /\ \A i \in 1 .. Len(s) : (s \o t)[i] = s[i]
  OBVIOUS
<1>2. ASSUME NEW i \in 1 .. Len(t) PROVE (s \o t)[Len(s) + i] = t[i]
  <2>1. Len(s) + i \in 1 .. Len(s) + Len(t) /\ ~(Len(s) + i <= Len(s)) /\ (Len(s) + i) - Len(s) = i
    OBVIOUS
  <2>2. QED BY <2>1, ConcatProperties
<1>3. QED BY <1>1, <1>2

Joining(x, y, w, b, z) == <<x>> \o <<y>> \o w \o b \o <<z>>

Joins(s, x, y, w, b, z) ==
  /\ s \in Seq(Command) /\ Len(s) = Len(w) + Len(b) + 3
  /\ s[1] = x /\ s[2] = y /\ s[Len(w) + Len(b) + 3] = z
  /\ \A i \in 1 .. Len(w) : s[2 + i] = w[i]
  /\ \A i \in 1 .. Len(b) : s[2 + Len(w) + i] = b[i]

LEMMA FiveParts ==
  ASSUME NEW x \in Command, NEW y \in Command, NEW z \in Command,
         NEW w \in Seq(Command), NEW b \in Seq(Command)
  PROVE  Joins(Joining(x, y, w, b, z), x, y, w, b, z)
<1>1. PICK p : p = <<x>> \o <<y>>
  OBVIOUS
<1>2. p \in Seq(Command) /\ Len(p) = 2 /\ p[1] = x /\ p[2] = y
  BY <1>1
<1>3. PICK q : q = p \o w
  OBVIOUS
<1>4. q \in Seq(Command)
  BY <1>2, <1>3, Joined
<1>5. /\ Len(q) = 2 + Len(w) /\ q[1] = x /\ q[2] = y
      /\ \A i \in 1 .. Len(w) : q[2 + i] = w[i]
  <2>1. /\ Len(p \o w) = Len(p) + Len(w) /\ \A i \in 1 .. Len(p) : (p \o w)[i] = p[i]
        /\ \A i \in 1 .. Len(w) : (p \o w)[Len(p) + i] = w[i]
    BY <1>2, Joined, SMTT(30)
  <2>2. QED BY <1>2, <1>3, <2>1
<1>6. PICK r : r = q \o b
  OBVIOUS
<1>7. r \in Seq(Command)
  BY <1>4, <1>6, Joined
<1>8. Len(w) \in Nat /\ Len(b) \in Nat
  OBVIOUS
<1>9. /\ Len(r) = 2 + Len(w) + Len(b) /\ r[1] = x /\ r[2] = y
      /\ \A i \in 1 .. Len(w) : r[2 + i] = w[i]
      /\ \A i \in 1 .. Len(b) : r[2 + Len(w) + i] = b[i]
  <2>1. /\ Len(q \o b) = Len(q) + Len(b) /\ \A i \in 1 .. Len(q) : (q \o b)[i] = q[i]
        /\ \A i \in 1 .. Len(b) : (q \o b)[Len(q) + i] = b[i]
    BY <1>4, Joined
  <2>2. 1 \in 1 .. Len(q) /\ 2 \in 1 .. Len(q) /\ \A i \in 1 .. Len(w) : 2 + i \in 1 .. Len(q)
    BY <1>5, <1>8
  <2>3. QED BY <1>5, <1>6, <2>1, <2>2
<1>10. PICK s : s = r \o <<z>>
  OBVIOUS
<1>11. /\ s \in Seq(Command) /\ Len(s) = Len(w) + Len(b) + 3
      /\ s[Len(w) + Len(b) + 3] = z
      /\ \A i \in 1 .. Len(r) : s[i] = r[i]
  <2>1. s = Append(r, z)
    BY <1>7, <1>10, AppendIsConcat
  <2>2. /\ s \in Seq(Command) /\ Len(s) = Len(r) + 1 /\ s[Len(r) + 1] = z
        /\ \A i \in 1 .. Len(r) : s[i] = r[i]
    BY <1>7, <2>1, AppendProperties
  <2>3. Len(r) + 1 = Len(w) + Len(b) + 3
    BY <1>8, <1>9
  <2>4. QED BY <2>2, <2>3
<1>12. /\ 1 \in 1 .. Len(r) /\ 2 \in 1 .. Len(r) /\ \A i \in 1 .. Len(w) : 2 + i \in 1 .. Len(r)
      /\ \A i \in 1 .. Len(b) : 2 + Len(w) + i \in 1 .. Len(r)
  BY <1>8, <1>9
<1>13. s = Joining(x, y, w, b, z)
  BY <1>1, <1>3, <1>6, <1>10 DEF Joining
<1>14. Joins(s, x, y, w, b, z)
  BY <1>9, <1>11, <1>12 DEF Joins
<1>15. QED BY <1>13, <1>14

LEMMA Sequence ==
  ASSUME wanted \in Lists
  PROVE  /\ black_white_list \in Seq(Command)
         /\ Total \in Nat
         /\ Len(black_white_list) = Total + 3
         /\ black_white_list[1] = [cmd |-> "INFO", arg |-> None]
         /\ black_white_list[2] = [cmd |-> "CLRM", arg |-> None]
         /\ black_white_list[Total + 3] = [cmd |-> "SCAN", arg |-> None]
         /\ ListsFit => \A i \in 1 .. Total :
              black_white_list[2 + i] = [cmd |-> ModeWanted, arg |-> Address(i)]
<1>1. PICK white \in Seq(Mac), black \in Seq(Mac) : wanted.white = white /\ wanted.black = black
  BY HostConfigAssumption
<1>2. PICK W \in Seq(Command) :
        /\ W = [i \in DOMAIN white |-> [cmd |-> "WMAC", arg |-> white[i]]]
        /\ Len(W) = Len(white)
        /\ \A i \in 1 .. Len(white) : W[i] = [cmd |-> "WMAC", arg |-> white[i]]
  BY Mapped DEF ListCmd
<1>3. PICK B \in Seq(Command) :
        /\ B = [i \in DOMAIN black |-> [cmd |-> "BMAC", arg |-> black[i]]]
        /\ Len(B) = Len(black)
        /\ \A i \in 1 .. Len(black) : B[i] = [cmd |-> "BMAC", arg |-> black[i]]
  BY Mapped DEF ListCmd
<1>4. PICK I \in Command, C \in Command, Z \in Command :
        /\ I = [cmd |-> "INFO", arg |-> None]
        /\ C = [cmd |-> "CLRM", arg |-> None]
        /\ Z = [cmd |-> "SCAN", arg |-> None]
  BY Commands
<1> DEFINE L == black_white_list
<1>5. L = Joining(I, C, W, B, Z)
  BY <1>1, <1>2, <1>3, <1>4 DEF black_white_list, Plain, Joining
<1>6. /\ L \in Seq(Command) /\ Len(L) = Len(W) + Len(B) + 3
      /\ L[1] = I /\ L[2] = C /\ L[Len(W) + Len(B) + 3] = Z
      /\ \A i \in 1 .. Len(W) : L[2 + i] = W[i]
      /\ \A i \in 1 .. Len(B) : L[2 + Len(W) + i] = B[i]
  <2> HIDE DEF L
  <2>1. Joins(L, I, C, W, B, Z)
    BY <1>5, FiveParts, Zenon
  <2>2. QED BY <2>1 DEF Joins
<1> HIDE DEF L
<1>7. /\ Len(white) \in Nat /\ Len(black) \in Nat /\ Total = Len(white) + Len(black)
      /\ Len(W) = Len(white) /\ Len(B) = Len(black)
  BY <1>1, <1>2, <1>3 DEF Total
<1>8. ASSUME ListsFit, NEW i \in 1 .. Total
      PROVE  L[2 + i] = [cmd |-> ModeWanted, arg |-> Address(i)]
  <2>1. white = << >> \/ black = << >>
    BY <1>1, <1>8 DEF ListsFit
  <2>2. CASE white = << >>
    <3>1. Len(white) = 0 /\ i \in 1 .. Len(black) /\ 2 + 0 + i = 2 + i /\ i - 0 = i /\ ~(i <= 0)
      BY <1>7, <2>2
    <3>2. ModeWanted = "BMAC" /\ Address(i) = black[i]
      BY <1>1, <2>2, <3>1 DEF ModeWanted, Address
    <3>3. L[2 + Len(W) + i] = B[i] /\ Len(W) = 0
      BY <1>6, <1>7, <3>1
    <3>4. B[i] = [cmd |-> "BMAC", arg |-> black[i]]
      BY <1>3, <3>1
    <3>5. QED BY <3>1, <3>2, <3>3, <3>4
  <2>3. CASE white # << >> /\ black = << >>
    <3>1. Len(black) = 0 /\ i \in 1 .. Len(white) /\ i <= Len(white)
      BY <1>7, <2>3
    <3>2. ModeWanted = "WMAC" /\ Address(i) = white[i]
      BY <1>1, <2>3, <3>1 DEF ModeWanted, Address
    <3>3. L[2 + i] = W[i]
      BY <1>6, <1>7, <3>1
    <3>4. W[i] = [cmd |-> "WMAC", arg |-> white[i]]
      BY <1>2, <3>1
    <3>5. QED BY <3>2, <3>3, <3>4
  <2>4. QED BY <2>1, <2>2, <2>3
<1>9. Total \in Nat /\ Total + 3 = Len(W) + Len(B) + 3
  BY <1>7
<1>10. /\ L \in Seq(Command) /\ Len(L) = Total + 3
       /\ L[1] = I /\ L[2] = C /\ L[Total + 3] = Z
  BY <1>6, <1>9
<1>11. QED BY <1>4, <1>8, <1>9, <1>10 DEF L

-----------------------------------------------------------------------------
LEMMA Constants ==
  /\ Timeout \in Nat \ {0} /\ ReadTime \in Nat \ {0} /\ PerRead \in Nat \ {0} /\ UpMax \in Nat \ {0}
  /\ ListMax \in Nat /\ MaxLoss \in Nat /\ MaxLate \in Nat
BY HostConfigAssumption

LEMMA LaterType ==
  ASSUME TypeOK, NEW t \in Nat
  PROVE  Later(t) \in 0 .. Timeout + 1
BY Constants DEF TypeOK, Later

LEMMA Answers ==
  ASSUME NEW s \in Seq(Cmd), NEW n \in 0 .. Len(s)
  PROVE  /\ SubSeq(s, 1, n) \in Seq(Cmd) /\ SubSeq(s, n + 1, Len(s)) \in Seq(Cmd)
         /\ Len(SubSeq(s, n + 1, Len(s))) = Len(s) - n
<1>1. /\ n \in Int /\ n + 1 \in Int /\ Len(s) \in Int /\ n <= Len(s) /\ 0 <= n
      /\ \A i \in 1 .. n : s[i] \in Cmd
      /\ \A i \in n + 1 .. Len(s) : s[i] \in Cmd
  OBVIOUS
<1>2. SubSeq(s, 1, n) \in Seq(Cmd) /\ SubSeq(s, n + 1, Len(s)) \in Seq(Cmd)
  BY <1>1, SubSeqProperties
<1>3. Len(SubSeq(s, n + 1, Len(s))) = IF n + 1 <= Len(s) THEN Len(s) - (n + 1) + 1 ELSE 0
  BY <1>1, SubSeqProperties
<1>4. QED BY <1>1, <1>2, <1>3

ReadCount == IF Len(up) < PerRead THEN Len(up) ELSE PerRead

LEMMA ReadCountType ==
  ASSUME TypeOK
  PROVE  ReadCount \in 0 .. Len(up)
BY Constants DEF TypeOK, ReadCount

LEMMA AccountType ==
  ASSUME config_cmd \in [Cmd -> Int], NEW s \in Seq(Cmd)
  PROVE  /\ config_account(s) \in [Cmd -> Int]
         /\ \A c \in Cmd : config_account(s)[c] = config_cmd[c] - Count(s, c)
<1>1. \A c \in Cmd : Count(s, c) \in Nat
  BY CountIsNat
<1>2. QED BY <1>1 DEF config_account

(* No count leaves the integers, and the buffers keep their bounds.        *)
LEMMA InitType == ASSUME Init PROVE TypeOK
<1>1. /\ todo \in Seq(Command) /\ todo # << >>
  <2>1. black_white_list \in Seq(Command) /\ Len(black_white_list) = Total + 3 /\ Total \in Nat
    BY Sequence DEF Init
  <2>2. todo = black_white_list
    BY DEF Init
  <2>3. Len(todo) # 0
    BY <2>1, <2>2
  <2>4. QED BY <2>1, <2>2, <2>3
<1>2. list \in [mode : ListCmd, mac : Seq(Mac)]
  <2>1. Earlier \in Seq(Mac) /\ << >> \in Seq(Mac)
    BY HostConfigAssumption
  <2>2. list \in {[mode |-> "WMAC", mac |-> << >>]} \cup [mode : ListCmd, mac : {Earlier}]
    BY DEF Init, EmptyList
  <2>3. CASE list = [mode |-> "WMAC", mac |-> << >>]
    BY <2>1, <2>3 DEF ListCmd
  <2>4. CASE list \in [mode : ListCmd, mac : {Earlier}]
    BY <2>1, <2>4
  <2>5. QED BY <2>2, <2>3, <2>4
<1>3. /\ config_cmd \in [Cmd -> Int]
  BY DEF Init, NothingDue
<1>4. up \in Seq(Cmd) /\ Len(up) <= UpMax
  BY Constants DEF Init
<1>5. QED BY <1>1, <1>2, <1>3, <1>4, Constants DEF Init, TypeOK

LEMMA HostSendsType == ASSUME TypeOK, command PROVE TypeOK'
<1>1. Head(todo) \in Command /\ Tail(todo) \in Seq(Command)
  BY DEF TypeOK, command
<1>2. Head(todo).cmd \in Cmd
  BY <1>1, Commands
<1>3. config_cmd' \in [Cmd -> Int]
  BY <1>2 DEF TypeOK, command
<1>4. age' \in 0 .. Timeout + 1
  BY LaterType DEF command
<1>5. todo' \in Seq(Command) /\ down' \in Command
  BY <1>1 DEF command
<1>6. pc' \in {"send", "read", "check"} /\ (pc' = "send" <=> todo' # << >>)
  BY DEF command
<1>7. QED BY <1>3, <1>4, <1>5, <1>6 DEF TypeOK, command

LEMMA ReadsType == ASSUME TypeOK, read_adv PROVE TypeOK'
<1>1. up \in Seq(Cmd) /\ ReadCount \in 0 .. Len(up)
  BY ReadCountType DEF TypeOK
<1>2. /\ config_cmd' = config_account(SubSeq(up, 1, ReadCount))
      /\ up' = SubSeq(up, ReadCount + 1, Len(up))
  BY DEF read_adv, ReadCount
<1>3. config_cmd' \in [Cmd -> Int]
  BY <1>1, <1>2, Answers, AccountType DEF TypeOK
<1>4. up' \in Seq(Cmd) /\ Len(up') <= UpMax
  <2>1. up' \in Seq(Cmd) /\ Len(up') = Len(up) - ReadCount
    BY <1>1, <1>2, Answers
  <2>2. QED BY <1>1, <2>1, Constants DEF TypeOK
<1>5. age' \in 0 .. Timeout + 1
  <2>1. age' = age \/ \E t \in 1 .. ReadTime : age' = Later(t)
    BY DEF read_adv
  <2>2. \A t \in 1 .. ReadTime : t \in Nat
    OBVIOUS
  <2>3. QED BY <2>1, <2>2, LaterType DEF TypeOK
<1>6. QED BY <1>3, <1>4, <1>5 DEF TypeOK, read_adv

LEMMA LoopType == ASSUME TypeOK, read_adv_Late \/ GoOn PROVE TypeOK'
BY Constants DEF TypeOK, read_adv_Late, GoOn

LEMMA RetryType == ASSUME TypeOK, Retry PROVE TypeOK'
<1>1. /\ todo' \in Seq(Command) /\ todo' # << >>
  <2>1. black_white_list \in Seq(Command) /\ Len(black_white_list) = Total + 3 /\ Total \in Nat
    BY Sequence DEF TypeOK
  <2>2. todo' = black_white_list
    BY DEF Retry
  <2>3. Len(todo') # 0
    BY <2>1, <2>2
  <2>4. QED BY <2>1, <2>2, <2>3
<1>2. config_cmd' \in [Cmd -> Int]
  BY DEF Retry, NothingDue
<1>3. QED BY <1>1, <1>2, Constants DEF Retry, TypeOK

LEMMA ExecuteType == ASSUME TypeOK, Execute PROVE TypeOK'
<1>1. down \in Command
  BY DEF TypeOK, Execute
<1>2. down.cmd \in Cmd /\ (down.cmd \in ListCmd => down.arg \in Mac)
  BY <1>1, Commands
<1>3. list' \in [mode : ListCmd, mac : Seq(Mac)]
  <2>1. list.mode \in ListCmd /\ list.mac \in Seq(Mac)
    BY DEF TypeOK
  <2>2. WithoutMacs(list) \in [mode : ListCmd, mac : Seq(Mac)]
    BY <2>1 DEF WithoutMacs, TypeOK
  <2>3. ASSUME down.cmd \in ListCmd
        PROVE  WithMac(list, down.cmd, down.arg) \in [mode : ListCmd, mac : Seq(Mac)]
    <3>1. Append(list.mac, down.arg) \in Seq(Mac)
      BY <1>2, <2>1, <2>3
    <3>2. QED BY <2>1, <2>3, <3>1 DEF WithMac
  <2>4. QED BY <2>2, <2>3 DEF Execute, TypeOK
<1>4. up' \in Seq(Cmd) /\ Len(up') <= UpMax
  <2>1. up \in Seq(Cmd) /\ Len(up) \in Nat /\ Len(up) <= UpMax
    BY DEF TypeOK
  <2>2. Append(up, down.cmd) \in Seq(Cmd) /\ Len(Append(up, down.cmd)) = Len(up) + 1
    BY <1>2, <2>1
  <2>3. up' = up \/ (Len(up) < UpMax /\ up' = Append(up, down.cmd))
    BY DEF Execute
  <2>4. QED BY <2>1, <2>2, <2>3, Constants
<1>5. losses' \in 0 .. MaxLoss
  BY Constants DEF TypeOK, Execute
<1>6. QED BY <1>3, <1>4, <1>5 DEF TypeOK, Execute

LEMMA CommandLostType == ASSUME TypeOK, CommandLost PROVE TypeOK'
BY Constants DEF TypeOK, CommandLost

(* Commands and answers stay within their sets and buffers, the counts are *)
(* integers, and the host sends exactly while it has commands left         *)
(* (adv2uart.py:150-164, 242-254, 366-383).                                *)
THEOREM HostTypeCorrect == Spec => []TypeOK
<1>1. TypeOK /\ [Next]_vars => TypeOK'
  <2>1. TypeOK /\ UNCHANGED vars => TypeOK'
    BY DEF TypeOK
  <2>2. QED BY <2>1, HostSendsType, ReadsType, LoopType, RetryType, ExecuteType, CommandLostType DEF Next
<1>2. QED BY <1>1, InitType, PTL DEF Spec

-----------------------------------------------------------------------------
(***************************************************************************)
(* The invariant behind SettledMeansConfigured.  Sent commands have        *)
(* reached the scanner but for the one in down; Executed is how far the    *)
(* scanner would be if nothing had been lost in this attempt.              *)
(***************************************************************************)
Sent == Len(black_white_list) - Len(todo)
Executed == IF down = None THEN Sent ELSE Sent - 1

(* Answers the host will still count. *)
Expected(c) == Count(up, c) + IF down # None /\ down.cmd = c THEN 1 ELSE 0

(* The scanner has executed the first k commands of black_white_list. *)
Configured(k) ==
  /\ k >= 2 =>
       /\ Len(list.mac) = IF k - 2 < Total THEN k - 2 ELSE Total
       /\ \A i \in 1 .. Len(list.mac) : list.mac[i] = Address(i)
       /\ list.mac # << >> => list.mode = ModeWanted
  /\ k = Total + 3 => scanning

(* One attempt sends the list from its beginning, and it does not start    *)
(* before all answers to the one before have been read.                    *)
SendInv ==
  /\ Len(todo) <= Total + 3
  /\ \A i \in 1 .. Len(todo) : todo[i] = black_white_list[Sent + i]
  /\ down # None => Sent > 0 /\ down = black_white_list[Sent]
  /\ pc = "send" => age = Sent
  /\ age > Timeout => up = << >> /\ down = None

(* A command or an answer lost leaves a count that no answer will clear;   *)
(* if there is none, all that was sent has been executed.                  *)
CountInv ==
  /\ \A c \in Cmd : config_cmd[c] >= Expected(c)
  /\ (\A c \in Cmd : config_cmd[c] = Expected(c)) => Configured(Executed)

IInv == lates = 0 => SendInv /\ CountInv

LEMMA ExpectedIsNat ==
  ASSUME TypeOK
  PROVE  \A c \in Cmd : Count(up, c) \in Nat /\ Expected(c) \in Nat /\ config_cmd[c] \in Int
BY CountIsNat DEF TypeOK, Expected

LEMMA SentType ==
  ASSUME TypeOK, SendInv
  PROVE  /\ Total \in Nat /\ Len(black_white_list) = Total + 3 /\ Len(todo) \in Nat
         /\ Sent = Total + 3 - Len(todo) /\ Sent \in 0 .. Total + 3
         /\ (pc = "send" <=> Len(todo) > 0) /\ (pc # "send" => Sent = Total + 3)
<1>1. Total \in Nat /\ Len(black_white_list) = Total + 3
  BY Sequence DEF TypeOK
<1>2. todo \in Seq(Command) /\ Len(todo) \in Nat /\ (todo = << >> <=> Len(todo) = 0)
  BY EmptySeq DEF TypeOK
<1>3. QED BY <1>1, <1>2 DEF TypeOK, SendInv, Sent

(* wanted never changes. *)
LEMMA SameList ==
  ASSUME UNCHANGED wanted
  PROVE  /\ black_white_list' = black_white_list /\ Total' = Total /\ ModeWanted' = ModeWanted
         /\ \A i : Address(i)' = Address(i)
BY DEF black_white_list, Total, ModeWanted, Address

LEMMA InitInv == ASSUME ListsFit, Init PROVE IInv
<1>1. wanted \in Lists /\ TypeOK /\ todo = black_white_list /\ up = << >> /\ down = None
      /\ age = 0 /\ config_cmd = NothingDue
  BY InitType DEF Init
<1>2. /\ Total \in Nat /\ Len(black_white_list) = Total + 3
  BY <1>1, Sequence
<1>3. Sent = 0 /\ Executed = 0
  BY <1>1, <1>2 DEF Sent, Executed
<1>4. SendInv
  BY <1>1, <1>2, <1>3 DEF SendInv
<1>5. \A c \in Cmd : Expected(c) = 0
  BY <1>1, CountOfEmpty DEF Expected
<1>6. \A c \in Cmd : config_cmd[c] >= Expected(c)
  BY <1>1, <1>5 DEF NothingDue
<1>7. Configured(Executed)
  BY <1>2, <1>3 DEF Configured
<1>8. QED BY <1>4, <1>6, <1>7 DEF IInv, CountInv

(* The state of the scanner and what is on the line stay as they are.      *)
LEMMA SameConfigured ==
  ASSUME UNCHANGED <<wanted, deviceVars>>
  PROVE  \A k : Configured(k) => Configured(k)'
BY SameList DEF Configured

LEMMA SendsKeep ==
  ASSUME ListsFit, TypeOK, SendInv, CountInv, command
  PROVE  SendInv' /\ CountInv'
<1>1. /\ Total \in Nat /\ Len(todo) \in Nat /\ Sent = Total + 3 - Len(todo)
      /\ Len(black_white_list) = Total + 3 /\ Len(todo) > 0 /\ Len(todo) <= Total + 3
  BY SentType DEF command, SendInv
<1>2. /\ black_white_list' = black_white_list /\ Total' = Total
  BY SameList DEF command
<1>3. /\ todo \in Seq(Command) /\ todo' = Tail(todo) /\ Len(todo') = Len(todo) - 1
      /\ \A i \in 1 .. Len(todo') : todo'[i] = todo[i + 1]
      /\ down' = todo[1] /\ todo[1] \in Command
  BY <1>1 DEF TypeOK, command
<1>4. Sent' = Sent + 1
  <2>1. Len(todo') = Len(todo) - 1 /\ Len(black_white_list') = Total + 3
    BY <1>1, <1>2, <1>3
  <2>2. Sent' = Len(black_white_list') - Len(todo')
    BY DEF Sent
  <2>3. QED BY <1>1, <2>1, <2>2
<1>5. down' = black_white_list[Sent'] /\ Sent' > 0 /\ down' # None
  <2>1. todo[1] = black_white_list[Sent + 1] /\ Sent + 1 > 0
    BY <1>1 DEF SendInv
  <2>2. todo[1] # None
    BY <1>3, HostConfigAssumption
  <2>3. QED BY <1>3, <1>4, <2>1, <2>2
<1>6. \A i \in 1 .. Len(todo') : todo'[i] = black_white_list'[Sent' + i]
  <2>1. ASSUME NEW i \in 1 .. Len(todo') PROVE todo'[i] = black_white_list'[Sent' + i]
    <3>1. i + 1 \in 1 .. Len(todo) /\ Sent + (i + 1) = Sent' + i
      BY <1>1, <1>3, <1>4
    <3>2. QED BY <1>2, <1>3, <3>1 DEF SendInv
  <2>2. QED BY <2>1
<1>7. Total + 3 <= Timeout
  BY DEF ListsFit, Total, TypeOK
<1>8. age' = Sent' /\ ~(age' > Timeout)
  <2>1. age = Sent /\ age' = Later(1)
    BY DEF SendInv, command
  <2>2. QED BY <1>1, <1>4, <1>7, <2>1, Constants DEF Later
<1>9. SendInv'
  BY <1>1, <1>2, <1>3, <1>5, <1>6, <1>8 DEF SendInv
<1>10. /\ down = None /\ up' = up /\ Executed' = Executed
  BY <1>1, <1>4, <1>5 DEF Executed, command
<1>11. \A c \in Cmd : /\ Count(up, c) \in Nat /\ Expected(c) = Count(up, c) /\ config_cmd[c] \in Int
                      /\ Expected(c)' = Count(up, c) + (IF todo[1].cmd = c THEN 1 ELSE 0)
                      /\ config_cmd'[c] = config_cmd[c] + (IF todo[1].cmd = c THEN 1 ELSE 0)
  <2>1. \A c \in Cmd : Count(up, c) \in Nat /\ Expected(c) \in Nat /\ config_cmd[c] \in Int
    BY ExpectedIsNat
  <2>2. \A c \in Cmd : Expected(c) = Count(up, c)
    BY <1>10, <2>1 DEF Expected
  <2>3. \A c \in Cmd : Expected(c)' = Count(up, c) + (IF todo[1].cmd = c THEN 1 ELSE 0)
    BY <1>3, <1>5, <1>10 DEF Expected
  <2>4. \A c \in Cmd : config_cmd'[c] = config_cmd[c] + (IF todo[1].cmd = c THEN 1 ELSE 0)
    <3>1. config_cmd \in [Cmd -> Int] /\ todo[1].cmd \in Cmd
      BY <1>3, Commands DEF TypeOK
    <3>2. config_cmd' = [config_cmd EXCEPT ![todo[1].cmd] = @ + 1]
      BY <1>1, <1>3 DEF command
    <3>3. QED BY <3>1, <3>2
  <2>5. QED BY <2>1, <2>2, <2>3, <2>4
<1>12. \A c \in Cmd : /\ config_cmd[c] >= Expected(c) => config_cmd'[c] >= Expected(c)'
                      /\ config_cmd'[c] = Expected(c)' => config_cmd[c] = Expected(c)
  BY <1>11
<1>13. Configured(Executed) => Configured(Executed)'
  BY <1>10, SameConfigured DEF command
<1>14. CountInv'
  BY <1>12, <1>13 DEF CountInv
<1>15. QED BY <1>9, <1>14

LEMMA ReadsKeep ==
  ASSUME TypeOK, SendInv, CountInv, read_adv
  PROVE  SendInv' /\ CountInv'
<1>1. up \in Seq(Cmd) /\ Len(up) \in Nat /\ ReadCount \in 0 .. Len(up)
  BY ReadCountType DEF TypeOK
<1>2. /\ config_cmd' = config_account(SubSeq(up, 1, ReadCount))
      /\ up' = SubSeq(up, ReadCount + 1, Len(up))
      /\ down = None /\ down' = None /\ todo' = todo /\ wanted' = wanted
      /\ pc' = "check" /\ deviceVars' = deviceVars
      /\ (ReadCount = PerRead => age' = age)
  BY DEF read_adv, ReadCount
<1>3. /\ black_white_list' = black_white_list /\ Total' = Total
  BY <1>2, SameList
<1>4. Sent' = Sent /\ Executed' = Executed
  BY <1>2, <1>3 DEF Sent, Executed
<1>5. age' > Timeout => up' = << >>
  <2>1. CASE ReadCount = PerRead
    <3>1. Len(up) # 0 /\ up # << >>
      BY <1>1, <2>1, Constants, EmptySeq
    <3>2. QED BY <1>2, <2>1, <3>1 DEF SendInv
  <2>2. CASE ReadCount # PerRead
    <3>1. ReadCount = Len(up)
      BY <2>2 DEF ReadCount
    <3>2. up' \in Seq(Cmd) /\ Len(up') = 0
      BY <1>1, <1>2, <3>1, Answers
    <3>3. QED BY <3>2, EmptySeq
  <2>3. QED BY <2>1, <2>2
<1>6. SendInv'
  BY <1>2, <1>3, <1>4, <1>5 DEF SendInv
<1>7. \A c \in Cmd : /\ Expected(c) = Count(up, c) /\ Expected(c)' = Count(up', c)
                     /\ Count(up, c) \in Nat /\ Count(up', c) \in Nat
  <2>1. up' \in Seq(Cmd)
    BY <1>1, <1>2, Answers
  <2>2. \A c \in Cmd : Count(up, c) \in Nat /\ Count(up', c) \in Nat
    BY <1>1, <2>1, CountIsNat
  <2>3. QED BY <1>2, <2>2 DEF Expected
<1>8. \A c \in Cmd : /\ config_cmd[c] \in Int /\ Count(SubSeq(up, 1, ReadCount), c) \in Nat
                     /\ Count(up, c) = Count(SubSeq(up, 1, ReadCount), c) + Count(up', c)
                     /\ config_cmd'[c] = config_cmd[c] - Count(SubSeq(up, 1, ReadCount), c)
  <2>1. SubSeq(up, 1, ReadCount) \in Seq(Cmd)
    BY <1>1, Answers
  <2>2. \A c \in Cmd : config_cmd'[c] = config_cmd[c] - Count(SubSeq(up, 1, ReadCount), c)
    BY <1>2, <2>1, AccountType DEF TypeOK
  <2>3. \A c \in Cmd : Count(up, c) = Count(SubSeq(up, 1, ReadCount), c) + Count(up', c)
    BY <1>1, <1>2, CountOfParts
  <2>4. \A c \in Cmd : Count(SubSeq(up, 1, ReadCount), c) \in Nat
    BY <2>1, CountIsNat
  <2>5. QED BY <2>2, <2>3, <2>4 DEF TypeOK
<1>9. \A c \in Cmd : /\ config_cmd[c] >= Expected(c) => config_cmd'[c] >= Expected(c)'
                     /\ config_cmd'[c] = Expected(c)' => config_cmd[c] = Expected(c)
  BY <1>7, <1>8
<1>10. Configured(Executed) => Configured(Executed)'
  BY <1>2, <1>4, SameConfigured
<1>11. CountInv'
  BY <1>9, <1>10 DEF CountInv
<1>12. QED BY <1>6, <1>11

LEMMA GoOnKeeps ==
  ASSUME TypeOK, SendInv, CountInv, GoOn \/ UNCHANGED vars
  PROVE  SendInv' /\ CountInv'
<1>1. UNCHANGED <<wanted, todo, config_cmd, age, down, up, deviceVars>>
  BY DEF GoOn
<1>2. pc' = "send" => pc = "send"
  BY DEF GoOn
<1>3. /\ black_white_list' = black_white_list /\ Total' = Total
  BY <1>1, SameList
<1>4. Sent' = Sent /\ Executed' = Executed /\ \A c : Expected(c)' = Expected(c)
  BY <1>1, <1>3 DEF Sent, Executed, Expected
<1>5. SendInv'
  BY <1>1, <1>2, <1>3, <1>4 DEF SendInv
<1>6. Configured(Executed) => Configured(Executed)'
  BY <1>1, <1>4, SameConfigured
<1>7. CountInv'
  BY <1>1, <1>4, <1>6 DEF CountInv
<1>8. QED BY <1>5, <1>7

LEMMA RetryKeeps ==
  ASSUME TypeOK, SendInv, CountInv, Retry
  PROVE  SendInv' /\ CountInv'
<1>1. /\ up = << >> /\ down = None /\ up' = << >> /\ down' = None /\ age' = 0
      /\ config_cmd' = NothingDue /\ todo' = black_white_list /\ wanted' = wanted
  BY DEF SendInv, Retry
<1>2. black_white_list' = black_white_list /\ Total' = Total
  BY <1>1, SameList
<1>3. Total \in Nat /\ Len(black_white_list) = Total + 3
  BY SentType
<1>4. Sent' = 0 /\ Executed' = 0
  BY <1>1, <1>2, <1>3 DEF Sent, Executed
<1>5. ~(age' > Timeout)
  BY <1>1, Constants
<1>6. SendInv'
  BY <1>1, <1>2, <1>3, <1>4, <1>5 DEF SendInv
<1>7. \A c \in Cmd : Expected(c)' = 0 /\ config_cmd'[c] = 0
  BY <1>1, CountOfEmpty DEF Expected, NothingDue
<1>8. Configured(Executed)'
  <2>1. ~(Executed' >= 2) /\ Executed' # Total' + 3
    BY <1>2, <1>3, <1>4
  <2>2. QED BY <2>1 DEF Configured
<1>9. CountInv'
  BY <1>7, <1>8 DEF CountInv
<1>10. QED BY <1>6, <1>9

(* What Execute and CommandLost have in common. *)
LEMMA TakenFromLine ==
  ASSUME TypeOK, SendInv, down # None, down' = None, UNCHANGED hostVars
  PROVE  /\ SendInv'
         /\ Sent' = Sent /\ Executed' = Sent /\ Executed = Sent - 1 /\ Sent \in 1 .. Total + 3
         /\ down = black_white_list[Sent] /\ down \in Command /\ down.cmd \in Cmd
<1>1. /\ black_white_list' = black_white_list /\ Total' = Total
  BY SameList
<1>2. Sent' = Sent /\ Executed' = Sent /\ Executed = Sent - 1
  BY <1>1 DEF Sent, Executed
<1>3. SendInv'
  BY <1>1, <1>2 DEF SendInv
<1>4. Sent \in 1 .. Total + 3
  BY SentType DEF SendInv
<1>5. down \in Command /\ down.cmd \in Cmd
  BY Commands DEF TypeOK
<1>6. QED BY <1>2, <1>3, <1>4, <1>5 DEF SendInv

(* The command is gone and no answer to it is on its way. *)
LEMMA AnswerLost ==
  ASSUME TypeOK, CountInv, down # None, down.cmd \in Cmd, down' = None, UNCHANGED <<up, config_cmd>>
  PROVE  CountInv'
<1>1. \A c \in Cmd : Count(up, c) \in Nat /\ config_cmd[c] \in Int
  BY ExpectedIsNat
<1>2. \A c \in Cmd : /\ Expected(c) = Count(up, c) + (IF down.cmd = c THEN 1 ELSE 0)
                     /\ Expected(c)' = Count(up, c)
  BY <1>1 DEF Expected
<1>3. \A c \in Cmd : config_cmd'[c] >= Expected(c)'
  BY <1>1, <1>2 DEF CountInv
<1>4. ~ \A c \in Cmd : config_cmd'[c] = Expected(c)'
  <2>1. PICK c \in Cmd : c = down.cmd
    OBVIOUS
  <2>2. config_cmd'[c] # Expected(c)'
    BY <1>1, <1>2, <2>1 DEF CountInv
  <2>3. QED BY <2>2
<1>5. QED BY <1>3, <1>4 DEF CountInv

LEMMA CommandLostKeeps ==
  ASSUME TypeOK, SendInv, CountInv, CommandLost
  PROVE  SendInv' /\ CountInv'
<1>1. /\ down # None /\ down' = None /\ UNCHANGED hostVars /\ UNCHANGED <<up, config_cmd>>
  BY DEF CommandLost
<1>2. SendInv' /\ down.cmd \in Cmd
  BY <1>1, TakenFromLine
<1>3. CountInv'
  BY <1>1, <1>2, AnswerLost
<1>4. QED BY <1>2, <1>3

(* One more command of the list executed. *)
LEMMA OneMore ==
  ASSUME ListsFit, TypeOK, SendInv, Execute, Configured(Executed)
  PROVE  Configured(Executed)'
<1>1. /\ down # None /\ down' = None /\ UNCHANGED hostVars
  BY DEF Execute
<1>2. PICK k \in Nat : k = Sent
  BY <1>1, TakenFromLine, SentType
<1>3. PICK t \in Nat : t = Total
  BY SentType
<1>4. /\ k \in 1 .. t + 3 /\ down = black_white_list[k] /\ Executed = k - 1 /\ Executed' = k
  <2>1. Sent \in 1 .. Total + 3 /\ down = black_white_list[Sent] /\ Executed = Sent - 1 /\ Executed' = Sent
    BY <1>1, TakenFromLine
  <2>2. QED BY <1>2, <1>3, <2>1
<1>5. /\ Total' = t /\ ModeWanted' = ModeWanted /\ \A i : Address(i)' = Address(i)
  BY <1>1, <1>3, SameList
<1>6. /\ black_white_list[1] = [cmd |-> "INFO", arg |-> None]
      /\ black_white_list[2] = [cmd |-> "CLRM", arg |-> None]
      /\ black_white_list[t + 3] = [cmd |-> "SCAN", arg |-> None]
      /\ \A i \in 1 .. t : black_white_list[2 + i] = [cmd |-> ModeWanted, arg |-> Address(i)]
  BY <1>3, Sequence DEF TypeOK
<1>7. k - 1 >= 2 =>
        /\ Len(list.mac) = IF k - 3 < t THEN k - 3 ELSE t
        /\ \A i \in 1 .. Len(list.mac) : list.mac[i] = Address(i)
        /\ list.mac # << >> => list.mode = ModeWanted
  <2>1. Configured(k - 1)
    BY <1>4
  <2>2. (k - 1) - 2 = k - 3
    OBVIOUS
  <2>3. QED BY <1>3, <2>1, <2>2 DEF Configured
<1>8. SUFFICES /\ k >= 2 =>
                    /\ Len(list'.mac) = IF k - 2 < t THEN k - 2 ELSE t
                    /\ \A i \in 1 .. Len(list'.mac) : list'.mac[i] = Address(i)
                    /\ list'.mac # << >> => list'.mode = ModeWanted
               /\ k = t + 3 => scanning'
  BY <1>4, <1>5 DEF Configured
<1>9. list.mac \in Seq(Mac) /\ Len(list.mac) \in Nat
  BY DEF TypeOK
<1>10. CASE k = 1
  BY <1>3, <1>10
<1>11. CASE k = 2
  <2>1. list' = [mode |-> list.mode, mac |-> << >>]
    BY <1>4, <1>6, <1>11 DEF Execute, WithoutMacs
  <2>2. QED BY <1>3, <1>11, <2>1
<1>12. CASE k \in 3 .. t + 2
  <2>1. PICK i \in 1 .. t : i = k - 2
    BY <1>12
  <2>2. down = [cmd |-> ModeWanted, arg |-> Address(i)]
    <3>1. 2 + i = k
      BY <2>1
    <3>2. QED BY <1>4, <1>6, <3>1
  <2>3. Len(list.mac) = i - 1 /\ Len(list.mac) < ListMax
    <3>1. Len(list.mac) = k - 3
      BY <1>7, <1>12
    <3>2. t <= ListMax
      BY <1>3 DEF Total, ListsFit, TypeOK
    <3>3. QED BY <1>3, <2>1, <3>1, <3>2, Constants
  <2>4. /\ \A j \in 1 .. Len(list.mac) : list.mac[j] = Address(j)
    BY <1>7, <1>12
  <2>5. list' = [mode |-> ModeWanted, mac |-> Append(list.mac, Address(i))]
    <3>1. down.cmd = ModeWanted /\ down.arg = Address(i) /\ ModeWanted \in ListCmd /\ ModeWanted # "CLRM"
      BY <2>2 DEF ModeWanted, ListCmd
    <3>2. list' = WithMac(list, down.cmd, down.arg)
      BY <3>1 DEF Execute
    <3>3. QED BY <2>3, <3>1, <3>2 DEF WithMac
  <2>6. Address(i) \in Mac
    <3>1. down.cmd \in ListCmd
      BY <2>2 DEF ModeWanted, ListCmd
    <3>2. down.arg \in Mac
      BY <1>1, <3>1, Commands DEF TypeOK
    <3>3. QED BY <2>2, <3>2
  <2>7. PICK m \in Seq(Mac) :
          /\ m = Append(list.mac, Address(i)) /\ Len(m) = i /\ m[i] = Address(i)
          /\ \A j \in 1 .. i - 1 : m[j] = list.mac[j]
    <3>1. Append(list.mac, Address(i)) \in Seq(Mac)
      BY <1>9, <2>6
    <3>2. /\ Len(Append(list.mac, Address(i))) = i
          /\ Append(list.mac, Address(i))[i] = Address(i)
          /\ \A j \in 1 .. i - 1 : Append(list.mac, Address(i))[j] = list.mac[j]
      BY <1>9, <2>3, <2>6
    <3>3. QED BY <3>1, <3>2
  <2>8. \A j \in 1 .. i : m[j] = Address(j)
    BY <2>3, <2>4, <2>7
  <2>9. list'.mac = m /\ list'.mode = ModeWanted
    BY <2>5, <2>7
  <2>10. k - 2 = i /\ (IF k - 2 < t THEN k - 2 ELSE t) = i /\ k # t + 3
    BY <1>3, <1>12, <2>1
  <2>11. QED BY <2>7, <2>8, <2>9, <2>10
<1>13. CASE k = t + 3
  <2>1. list' = list /\ scanning'
    <3>1. down.cmd = "SCAN"
      BY <1>4, <1>6, <1>13
    <3>2. down.cmd # "CLRM" /\ down.cmd \notin ListCmd
      BY <3>1 DEF ListCmd
    <3>3. QED BY <3>1, <3>2 DEF Execute
  <2>2. k - 1 >= 2 /\ (IF k - 3 < t THEN k - 3 ELSE t) = t /\ (IF k - 2 < t THEN k - 2 ELSE t) = t
    BY <1>3, <1>13
  <2>3. QED BY <1>7, <2>1, <2>2
<1>14. QED BY <1>3, <1>4, <1>10, <1>11, <1>12, <1>13

LEMMA ExecuteKeeps ==
  ASSUME ListsFit, TypeOK, SendInv, CountInv, Execute
  PROVE  SendInv' /\ CountInv'
<1>1. /\ down # None /\ down' = None /\ UNCHANGED hostVars /\ config_cmd' = config_cmd
  BY DEF Execute
<1>2. SendInv' /\ down.cmd \in Cmd
  BY <1>1, TakenFromLine
<1>3. CASE up' = up
  BY <1>1, <1>2, <1>3, AnswerLost
<1>4. CASE up' = Append(up, down.cmd)
  <2>1. \A c \in Cmd : Expected(c)' = Expected(c)
    <3>1. \A c \in Cmd : /\ Count(up, c) \in Nat
                         /\ Count(Append(up, down.cmd), c) = Count(up, c) + (IF down.cmd = c THEN 1 ELSE 0)
      BY <1>2, CountIsNat, CountOfAppend DEF TypeOK
    <3>2. \A c \in Cmd : /\ Expected(c) = Count(up, c) + (IF down.cmd = c THEN 1 ELSE 0)
                         /\ Expected(c)' = Count(Append(up, down.cmd), c) + 0
      BY <1>1, <1>4 DEF Expected
    <3>3. QED BY <3>1, <3>2
  <2>2. Configured(Executed) => Configured(Executed)'
    BY OneMore
  <2>3. CountInv'
    BY <1>1, <2>1, <2>2 DEF CountInv
  <2>4. QED BY <1>2, <2>3
<1>5. QED BY <1>3, <1>4 DEF Execute

LEMMA NextKeeps ==
  ASSUME ListsFit, TypeOK, IInv, [Next]_vars
  PROVE  IInv'
<1> SUFFICES ASSUME lates' = 0 PROVE SendInv' /\ CountInv'
  BY DEF IInv
<1>1. lates \in Nat /\ ~read_adv_Late
  BY Constants DEF TypeOK, read_adv_Late
<1>2. lates = 0
  BY <1>1 DEF Next, command, read_adv, GoOn, Retry, Execute, CommandLost
<1>3. SendInv /\ CountInv
  BY <1>2 DEF IInv
<1>4. QED BY <1>1, <1>3, SendsKeep, ReadsKeep, GoOnKeeps, RetryKeeps, ExecuteKeeps, CommandLostKeeps DEF Next

(* All counts are zero: nothing is on its way, and all has been executed.  *)
LEMMA SettledIsConfigured ==
  ASSUME ListsFit, TypeOK, SendInv, CountInv, Settled
  PROVE  /\ scanning /\ Len(list.mac) = Total /\ Total \in Nat
         /\ \A i \in 1 .. Total : list.mac[i] = Address(i)
         /\ list.mac # << >> => list.mode = ModeWanted
<1>1. \A c \in Cmd : config_cmd[c] = 0
  BY DEF Settled, config_still_running, NothingDue
<1>2. \A c \in Cmd : /\ Count(up, c) \in Nat /\ Expected(c) \in Nat
                     /\ Expected(c) = Count(up, c) + (IF down # None /\ down.cmd = c THEN 1 ELSE 0)
  BY ExpectedIsNat DEF Expected
<1>3. \A c \in Cmd : Expected(c) = 0
  BY <1>1, <1>2 DEF CountInv
<1>4. down = None
  <2>1. ASSUME down # None PROVE FALSE
    <3>1. PICK c \in Cmd : c = down.cmd
      BY <2>1, Commands DEF TypeOK
    <3>2. QED BY <1>2, <1>3, <2>1, <3>1
  <2>2. QED BY <2>1
<1>5. Configured(Executed)
  BY <1>1, <1>3 DEF CountInv
<1>6. Total \in Nat /\ Executed = Total + 3
  BY <1>4, SentType DEF Settled, Executed
<1>7. PICK t \in Nat : t = Total
  BY <1>6
<1>8. Executed >= 2 /\ (IF Executed - 2 < Total THEN Executed - 2 ELSE Total) = Total
  <2>1. Executed = t + 3
    BY <1>6, <1>7
  <2>2. t + 3 >= 2 /\ ~((t + 3) - 2 < t)
    BY <1>7
  <2>3. QED BY <1>7, <2>1, <2>2
<1>9. QED BY <1>5, <1>6, <1>8 DEF Configured

LEMMA InvImpliesSettled ==
  ASSUME ListsFit, TypeOK, IInv
  PROVE  SettledMeansConfigured
<1> SUFFICES ASSUME Settled, lates = 0
             PROVE  /\ scanning
                    /\ \A m \in Elements(wanted.white \o wanted.black \o Earlier) :
                         chk_mac(list, m) = /\ wanted.white # << >> => m \in Elements(wanted.white)
                                            /\ m \notin Elements(wanted.black)
  BY DEF SettledMeansConfigured
<1>1. PICK white \in Seq(Mac), black \in Seq(Mac), mac \in Seq(Mac) :
        wanted.white = white /\ wanted.black = black /\ list.mac = mac
  BY HostConfigAssumption DEF TypeOK
<1>2. /\ scanning /\ Len(mac) = Total /\ Total \in Nat
      /\ \A i \in 1 .. Total : mac[i] = Address(i)
      /\ mac # << >> => list.mode = ModeWanted
  BY <1>1, SettledIsConfigured DEF IInv
<1>3. /\ Total = Len(white) + Len(black) /\ Len(white) \in Nat /\ Len(black) \in Nat
      /\ DOMAIN mac = 1 .. Len(mac) /\ DOMAIN white = 1 .. Len(white) /\ DOMAIN black = 1 .. Len(black)
      /\ (white = << >> <=> Len(white) = 0) /\ (black = << >> <=> Len(black) = 0)
      /\ (mac = << >> <=> Len(mac) = 0)
  BY <1>1, EmptySeq DEF Total
<1>4. white = << >> \/ black = << >>
  BY <1>1 DEF ListsFit, TypeOK
<1>5. ASSUME NEW m
      PROVE  chk_mac(list, m) <=> /\ white # << >> => m \in Elements(white)
                                  /\ m \notin Elements(black)
  <2>1. CASE white = << >> /\ black = << >>
    BY <1>1, <1>2, <1>3, <2>1 DEF chk_mac, Elements
  <2>2. CASE white # << >>
    <3>1. black = << >> /\ mac # << >> /\ Len(mac) = Len(white) /\ list.mode = "WMAC"
      <4>1. black = << >> /\ Len(black) = 0 /\ Len(white) # 0
        BY <1>3, <1>4, <2>2
      <4>2. Len(mac) = Len(white) /\ mac # << >>
        <5>1. Len(mac) = Len(white) + Len(black)
          BY <1>2, <1>3
        <5>2. QED BY <1>3, <4>1, <5>1
      <4>3. ModeWanted = "WMAC"
        BY <1>1, <2>2, <4>1 DEF ModeWanted
      <4>4. QED BY <1>2, <4>1, <4>2, <4>3
    <3>2. \A i \in 1 .. Len(white) : mac[i] = white[i]
      <4>1. \A i \in 1 .. Len(white) : i \in 1 .. Total /\ i <= Len(white)
        BY <1>2, <1>3, <3>1
      <4>2. QED BY <1>1, <1>2, <4>1 DEF Address
    <3>3. Listed(list, m) <=> m \in Elements(white)
      BY <1>1, <1>3, <3>1, <3>2 DEF Listed, Elements
    <3>4. m \notin Elements(black)
      BY <1>3, <3>1 DEF Elements
    <3>5. QED BY <1>1, <2>2, <3>1, <3>3, <3>4 DEF chk_mac
  <2>3. CASE black # << >>
    <3>1. white = << >> /\ mac # << >> /\ Len(mac) = Len(black) /\ list.mode = "BMAC" /\ Len(white) = 0
      <4>1. white = << >> /\ Len(white) = 0 /\ Len(black) # 0
        BY <1>3, <1>4, <2>3
      <4>2. Len(mac) = Len(black) /\ mac # << >>
        <5>1. Len(mac) = Len(white) + Len(black)
          BY <1>2, <1>3
        <5>2. QED BY <1>3, <4>1, <5>1
      <4>3. ModeWanted = "BMAC"
        BY <1>1, <2>3, <4>1 DEF ModeWanted
      <4>4. QED BY <1>2, <4>1, <4>2, <4>3
    <3>2. \A i \in 1 .. Len(black) : mac[i] = black[i]
      <4>1. \A i \in 1 .. Len(black) : i \in 1 .. Total /\ ~(i <= Len(white)) /\ i - Len(white) = i
        BY <1>2, <1>3, <3>1
      <4>2. QED BY <1>1, <1>2, <4>1 DEF Address
    <3>3. Listed(list, m) <=> m \in Elements(black)
      BY <1>1, <1>3, <3>1, <3>2 DEF Listed, Elements
    <3>4. QED BY <1>1, <3>1, <3>3 DEF chk_mac
  <2>4. QED BY <2>1, <2>2, <2>3
<1>6. QED BY <1>1, <1>2, <1>5 DEF chk_mac

(* Whatever was lost on the way: when the host (adv2uart.py:150-164,       *)
(* 366-383, 500-511) expects no answer any more, the scanner scans and     *)
(* selects as the host wants it to, for all lists that can be announced in *)
(* time and held by the scanner.                                           *)
THEOREM SettledIsWanted == ListsFit => (Spec => []SettledMeansConfigured)
<1> SUFFICES ASSUME ListsFit PROVE Spec => []SettledMeansConfigured
  OBVIOUS
<1>1. Init => IInv
  BY InitInv
<1>2. TypeOK /\ IInv /\ [Next]_vars => IInv'
  BY NextKeeps
<1>3. TypeOK /\ IInv => SettledMeansConfigured
  BY InvImpliesSettled
<1>4. QED BY <1>1, <1>2, <1>3, HostTypeCorrect, PTL DEF Spec

-----------------------------------------------------------------------------
(***************************************************************************)
(* HostParser, for every length of frames and chunks and any number of     *)
(* frames: the loop of read_adv recognises what stands in the bytes.       *)
(*                                                                         *)
(* The invariant divides the bytes read: in front of self.data all is      *)
(* decided, since a byte is taken only with a frame or when the whole      *)
(* packet that it seems to begin is there and no frame.  The positions of  *)
(* the bytes in their frames show that no frame begins within another.     *)
(***************************************************************************)

Bytes == Seq(Parser!Byte)
Numbers == Seq(0 .. MaxFrames)

LEMMA Sizes == MinLen \in Nat \ {0} /\ MaxLen \in Nat /\ MaxFrames \in Nat /\ Chunk \in Nat \ {0}
BY ParserAssumption DEF Parser!ParserAssumption

LEMMA ByteFacts ==
  ASSUME NEW d \in Bytes, NEW i \in 1 .. Len(d)
  PROVE  d[i].len \in Nat /\ d[i].of \in 0 .. MaxFrames
<1>1. d[i] \in Parser!Byte
  BY DEF Bytes
<1>2. QED BY <1>1, Sizes DEF Parser!Byte

(* The bytes behind the p-th.                                              *)
LEMMA Suffix ==
  ASSUME NEW S, NEW d \in Seq(S), NEW p \in 0 .. Len(d)
  PROVE  /\ SubSeq(d, p + 1, Len(d)) \in Seq(S)
         /\ Len(SubSeq(d, p + 1, Len(d))) = Len(d) - p
         /\ \A i \in 1 .. Len(d) - p : SubSeq(d, p + 1, Len(d))[i] = d[p + i]
<1>1. Len(d) \in Nat /\ p \in Nat /\ p <= Len(d) /\ p + 1 \in Int /\ Len(d) \in Int
  OBVIOUS
<1>2. \A i \in p + 1 .. Len(d) : d[i] \in S
  BY <1>1
<1> DEFINE t == SubSeq(d, p + 1, Len(d))
<1>3. /\ t \in Seq(S)
      /\ Len(t) = IF p + 1 <= Len(d) THEN Len(d) - (p + 1) + 1 ELSE 0
      /\ \A i \in 1 .. Len(d) - (p + 1) + 1 : t[i] = d[(p + 1) + i - 1]
  BY <1>1, <1>2, SubSeqProperties
<1> HIDE DEF t
<1>4. Len(t) = Len(d) - p
  BY <1>1, <1>3
<1>5. ASSUME NEW i \in 1 .. Len(d) - p PROVE t[i] = d[p + i]
  <2>1. i \in 1 .. Len(d) - (p + 1) + 1 /\ (p + 1) + i - 1 = p + i
    BY <1>1
  <2>2. QED BY <1>3, <2>1
<1>6. QED BY <1>3, <1>4, <1>5 DEF t

(* The bytes from the i-th on are those of one frame, as far as they are there. *)
LastByte(d, i) == i + d[i].len + MinLen - 1
HasFrame(d, i) ==
  /\ d[i].of # 0
  /\ \A k \in 1 .. d[i].len + MinLen : d[i + k - 1].of = d[i].of /\ d[i + k - 1].pos = k

LEMMA StandsMeans ==
  ASSUME NEW d \in Bytes, NEW i \in 1 .. Len(d)
  PROVE  Parser!Stands(d, i) <=> LastByte(d, i) <= Len(d) /\ HasFrame(d, i)
<1> DEFINE n == d[i].len + MinLen
<1> DEFINE t == SubSeq(d, i, Len(d))
<1>1. /\ Len(d) \in Nat /\ i \in Nat /\ n \in Nat /\ n >= 1
      /\ i - 1 \in 0 .. Len(d) /\ (i - 1) + 1 = i
  BY ByteFacts, Sizes DEF Bytes
<1>2. /\ Len(t) = Len(d) - (i - 1)
      /\ \A k \in 1 .. Len(d) - (i - 1) : t[k] = d[(i - 1) + k]
  BY <1>1, Suffix DEF Bytes
<1>3. LastByte(d, i) = i + n - 1
  BY <1>1, ByteFacts, Sizes DEF LastByte
<1>4. Parser!Stands(d, i) <=> LastByte(d, i) <= Len(d) /\ Parser!CrcMatches(t, n)
  BY DEF Parser!Stands, LastByte
<1>5. ASSUME LastByte(d, i) <= Len(d)
      PROVE  Parser!CrcMatches(t, n) <=> HasFrame(d, i)
  <2>1. \A k \in 1 .. n : k \in 1 .. Len(d) - (i - 1) /\ (i - 1) + k = i + k - 1
    BY <1>1, <1>3, <1>5
  <2>2. \A k \in 1 .. n : t[k] = d[i + k - 1]
    BY <1>2, <2>1
  <2>3. t[1] = d[i]
    <3>1. 1 \in 1 .. n /\ i + 1 - 1 = i
      BY <1>1
    <3>2. QED BY <2>2, <3>1
  <2> HIDE DEF t
  <2>4. QED BY <2>2, <2>3 DEF Parser!CrcMatches, HasFrame
<1>6. QED BY <1>4, <1>5

(* The same in terms of the loop: a packet is in front of t.               *)
LEMMA PacketMeans ==
  ASSUME NEW d \in Bytes, NEW p \in 0 .. Len(d),
         Parser!HasPacket(SubSeq(d, p + 1, Len(d)))
  PROVE  LET t == SubSeq(d, p + 1, Len(d))
             n == t[1].len + MinLen
         IN  /\ t[1] = d[p + 1] /\ p + 1 \in 1 .. Len(d) /\ n \in Nat /\ n >= 1
             /\ LastByte(d, p + 1) = p + n /\ p + n <= Len(d)
             /\ Parser!CrcMatches(t, n) <=> Parser!Stands(d, p + 1)
<1> DEFINE t == SubSeq(d, p + 1, Len(d))
<1> DEFINE n == t[1].len + MinLen
<1>1. /\ t \in Bytes /\ Len(t) = Len(d) - p /\ Len(d) \in Nat /\ p \in Nat
      /\ \A i \in 1 .. Len(d) - p : t[i] = d[p + i]
  BY Suffix DEF Bytes
<1>2. t # << >> /\ t[1].len + MinLen <= Len(t)
  BY DEF Parser!HasPacket
<1>3. 1 \in 1 .. Len(t) /\ p + 1 \in 1 .. Len(d)
  <2>1. Len(t) # 0
    BY <1>1, <1>2, EmptySeq DEF Bytes
  <2>2. QED BY <1>1, <2>1
<1>4. t[1] = d[p + 1]
  BY <1>1, <1>3
<1>5. n \in Nat /\ n >= 1
  BY <1>1, <1>3, ByteFacts, Sizes
<1>6. LastByte(d, p + 1) = p + n
  <2>1. t[1].len \in Nat
    BY <1>1, <1>3, ByteFacts
  <2>2. PICK m \in Nat : m = t[1].len
    BY <2>1
  <2>3. LastByte(d, p + 1) = (p + 1) + m + MinLen - 1 /\ n = m + MinLen
    BY <1>4, <2>2 DEF LastByte
  <2>4. (p + 1) + m + MinLen - 1 = p + (m + MinLen)
    BY <1>1, Sizes
  <2>5. QED BY <2>3, <2>4
<1>7. p + n <= Len(d)
  BY <1>1, <1>2, <1>5
<1>8. Parser!CrcMatches(t, n) <=> Parser!Stands(d, p + 1)
  BY <1>1, <1>4, <1>6, <1>7, <1>5 DEF Parser!Stands, LastByte
<1>9. QED BY <1>3, <1>4, <1>5, <1>6, <1>7, <1>8

(* The recursion in Frames has a solution.                                 *)
LEMMA FramesDef ==
  ASSUME NEW d, Len(d) \in Nat
  PROVE  \A n \in 0 .. Len(d) :
           Parser!Frames(d)[n] = IF n = 0 THEN << >>
                                 ELSE IF Parser!Stands(d, n)
                                      THEN Append(Parser!Frames(d)[n - 1], d[n].of)
                                      ELSE Parser!Frames(d)[n - 1]
<1> DEFINE Value(f, n) == IF n = 0 THEN << >>
                          ELSE IF Parser!Stands(d, n) THEN Append(f[n - 1], d[n].of) ELSE f[n - 1]
<1> DEFINE Solves(f, m) == f = [n \in 0 .. m |-> Value(f, n)]
<1> DEFINE S == {m \in Nat : \E f : Solves(f, m)}
<1>1. 0 \in S
  <2> DEFINE f == [n \in 0 .. 0 |-> << >>]
  <2>1. f = [n \in 0 .. 0 |-> Value(f, n)]
    <3>1. \A n \in 0 .. 0 : n = 0
      OBVIOUS
    <3>2. QED BY <3>1
  <2>2. QED BY <2>1
<1>2. ASSUME NEW m \in Nat, m \in S PROVE m + 1 \in S
  <2>1. PICK f : Solves(f, m)
    BY <1>2
  <2> DEFINE g == [n \in 0 .. m + 1 |-> Value(f, n)]
  <2>2. \A n \in 0 .. m : g[n] = f[n]
    <3>1. \A n \in 0 .. m : n \in 0 .. m + 1
      OBVIOUS
    <3> HIDE DEF Value
    <3>2. QED BY <2>1, <3>1
  <2>3. \A n \in 0 .. m + 1 : n # 0 => n - 1 \in 0 .. m
    OBVIOUS
  <2>4. g = [n \in 0 .. m + 1 |-> Value(g, n)]
    <3>1. \A n \in 0 .. m + 1 : n # 0 => g[n - 1] = f[n - 1]
      BY <2>2, <2>3
    <3> HIDE DEF g
    <3>2. \A n \in 0 .. m + 1 : Value(f, n) = Value(g, n)
      BY <3>1
    <3> HIDE DEF Value
    <3>3. QED BY <3>2, Zenon DEF g
  <2>5. m + 1 \in Nat
    OBVIOUS
  <2>6. QED BY <2>4, <2>5
<1>3. Len(d) \in S
  <2> HIDE DEF S
  <2>1. QED BY <1>1, <1>2, Induction
<1>4. PICK f : Solves(f, Len(d))
  BY <1>3
<1>5. Parser!Frames(d) = CHOOSE g : Solves(g, Len(d))
  BY DEF Parser!Frames
<1>6. Solves(Parser!Frames(d), Len(d))
  <2> HIDE DEF Solves
  <2>1. QED BY <1>4, <1>5
<1> DEFINE k == Parser!Frames(d)
<1>7. k = [n \in 0 .. Len(d) |-> Value(k, n)]
  BY <1>6
<1> HIDE DEF k
<1>8. \A n \in 0 .. Len(d) : k[n] = Value(k, n)
  <2> HIDE DEF Value
  <2>1. QED BY <1>7
<1>9. QED BY <1>8 DEF k

LEMMA FramesType ==
  ASSUME NEW d \in Bytes
  PROVE  \A n \in 0 .. Len(d) : Parser!Frames(d)[n] \in Numbers
<1> DEFINE f == Parser!Frames(d)
<1> DEFINE S == {n \in Nat : n <= Len(d) => f[n] \in Numbers}
<1>1. Len(d) \in Nat
  BY DEF Bytes
<1>2. \A n \in 0 .. Len(d) : f[n] = IF n = 0 THEN << >>
                                    ELSE IF Parser!Stands(d, n) THEN Append(f[n - 1], d[n].of)
                                    ELSE f[n - 1]
  BY <1>1, FramesDef
<1> HIDE DEF f
<1>3. 0 \in S
  <2>1. f[0] = << >>
    BY <1>1, <1>2
  <2>2. QED BY <2>1, EmptySeq DEF Numbers
<1>4. ASSUME NEW n \in Nat, n \in S PROVE n + 1 \in S
  <2>1. SUFFICES ASSUME n + 1 <= Len(d) PROVE f[n + 1] \in Numbers
    OBVIOUS
  <2>2. /\ n + 1 \in 0 .. Len(d) /\ n + 1 \in 1 .. Len(d) /\ n + 1 # 0 /\ (n + 1) - 1 = n
    BY <1>1, <2>1
  <2>3. f[n] \in Numbers /\ d[n + 1].of \in 0 .. MaxFrames
    BY <1>1, <1>4, <2>1, <2>2, ByteFacts
  <2>4. f[n + 1] \in {Append(f[n], d[n + 1].of), f[n]}
    BY <1>2, <2>2
  <2>5. Append(f[n], d[n + 1].of) \in Numbers
    BY <2>3, AppendProperties DEF Numbers
  <2>6. QED BY <2>3, <2>4, <2>5
<1>5. \A n \in Nat : n \in S
  <2> HIDE DEF S
  <2>1. QED BY <1>3, <1>4, Induction
<1>6. QED BY <1>1, <1>5 DEF f

(* Whether a frame stands at i can no longer change by reading on.         *)
Decided(d, i) == d[i].pos # 1 \/ LastByte(d, i) <= Len(d)

LEMMA NoFrameInside ==
  ASSUME NEW d \in Bytes, NEW i \in 1 .. Len(d), d[i].pos # 1
  PROVE  ~Parser!Stands(d, i)
<1>1. SUFFICES ASSUME HasFrame(d, i) PROVE FALSE
  BY StandsMeans
<1>2. 1 \in 1 .. d[i].len + MinLen /\ i + 1 - 1 = i
  BY ByteFacts, Sizes
<1>3. QED BY <1>1, <1>2 DEF HasFrame

LEMMA ReadingOn ==
  ASSUME NEW s \in Bytes, NEW c \in Bytes, NEW i \in 1 .. Len(s), Decided(s, i)
  PROVE  Decided(s \o c, i) /\ (Parser!Stands(s \o c, i) <=> Parser!Stands(s, i))
         /\ (s \o c)[i] = s[i]
<1> DEFINE d == s \o c
<1>1. /\ d \in Bytes /\ Len(d) = Len(s) + Len(c) /\ Len(s) \in Nat /\ Len(c) \in Nat
      /\ \A k \in 1 .. Len(s) : d[k] = s[k]
  <2>1. /\ d \in Bytes /\ Len(d) = Len(s) + Len(c) /\ Len(s) \in Nat /\ Len(c) \in Nat
        /\ \A k \in 1 .. Len(s) + Len(c) : d[k] = IF k <= Len(s) THEN s[k] ELSE c[k - Len(s)]
    BY ConcatProperties DEF Bytes
  <2> HIDE DEF d
  <2>2. \A k \in 1 .. Len(s) : k \in 1 .. Len(s) + Len(c) /\ k <= Len(s)
    BY <2>1
  <2>3. QED BY <2>1, <2>2
<1> HIDE DEF d
<1>2. i \in 1 .. Len(d) /\ d[i] = s[i] /\ LastByte(d, i) = LastByte(s, i)
  BY <1>1 DEF LastByte
<1>3. LastByte(s, i) \in Int
  BY ByteFacts, Sizes DEF LastByte
<1>4. CASE s[i].pos # 1
  <2>1. d[i].pos # 1
    BY <1>2, <1>4
  <2>2. ~Parser!Stands(d, i) /\ ~Parser!Stands(s, i)
    BY <1>1, <1>2, <1>4, <2>1, NoFrameInside
  <2>3. QED BY <1>2, <2>1, <2>2 DEF Decided, d
<1>5. CASE LastByte(s, i) <= Len(s)
  <2>1. LastByte(d, i) <= Len(d)
    BY <1>1, <1>2, <1>3, <1>5
  <2>2. HasFrame(d, i) <=> HasFrame(s, i)
    <3>1. \A k \in 1 .. s[i].len + MinLen : i + k - 1 \in 1 .. Len(s)
      <4>1. s[i].len \in Nat /\ i \in Nat /\ i >= 1
        BY ByteFacts, <1>1
      <4>2. i + s[i].len + MinLen - 1 <= Len(s)
        BY <1>5 DEF LastByte
      <4>3. QED BY <1>1, <4>1, <4>2, Sizes, SMTT(30)
    <3>2. \A k \in 1 .. s[i].len + MinLen : d[i + k - 1] = s[i + k - 1]
      BY <1>1, <3>1
    <3>3. QED BY <1>2, <3>2 DEF HasFrame
  <2>3. Parser!Stands(d, i) <=> Parser!Stands(s, i)
    BY <1>1, <1>2, <1>5, <2>1, <2>2, StandsMeans
  <2>4. QED BY <1>2, <2>1, <2>3 DEF Decided, d
<1>6. QED BY <1>4, <1>5 DEF Decided

LEMMA FramesOfPrefix ==
  ASSUME NEW s \in Bytes, NEW c \in Bytes, NEW p \in 0 .. Len(s),
         \A i \in 1 .. p : Decided(s, i)
  PROVE  Parser!Frames(s \o c)[p] = Parser!Frames(s)[p]
<1> DEFINE d == s \o c
<1> DEFINE f == Parser!Frames(s)
<1> DEFINE g == Parser!Frames(d)
<1> DEFINE S == {n \in Nat : n <= p => g[n] = f[n]}
<1>1. d \in Bytes /\ Len(d) = Len(s) + Len(c) /\ Len(s) \in Nat /\ Len(c) \in Nat
  BY ConcatProperties DEF Bytes
<1>2. \A i \in 1 .. p : d[i] = s[i] /\ (Parser!Stands(d, i) <=> Parser!Stands(s, i))
  <2>1. \A i \in 1 .. p : i \in 1 .. Len(s)
    BY <1>1
  <2>2. QED BY <2>1, ReadingOn
<1> HIDE DEF d
<1>3. \A n \in 0 .. Len(s) : f[n] = IF n = 0 THEN << >>
                                    ELSE IF Parser!Stands(s, n) THEN Append(f[n - 1], s[n].of)
                                    ELSE f[n - 1]
  BY <1>1, FramesDef
<1>4. \A n \in 0 .. Len(d) : g[n] = IF n = 0 THEN << >>
                                    ELSE IF Parser!Stands(d, n) THEN Append(g[n - 1], d[n].of)
                                    ELSE g[n - 1]
  BY <1>1, FramesDef
<1> HIDE DEF f, g
<1>5. 0 \in S
  <2>1. 0 \in 0 .. Len(s) /\ 0 \in 0 .. Len(d)
    BY <1>1
  <2>2. QED BY <1>3, <1>4, <2>1
<1>6. ASSUME NEW n \in Nat, n \in S PROVE n + 1 \in S
  <2>1. SUFFICES ASSUME n + 1 <= p PROVE g[n + 1] = f[n + 1]
    OBVIOUS
  <2>2. /\ n + 1 \in 0 .. Len(s) /\ n + 1 \in 0 .. Len(d) /\ n + 1 # 0 /\ (n + 1) - 1 = n
        /\ n + 1 \in 1 .. p /\ n <= p
    BY <1>1, <2>1
  <2>3. g[n] = f[n]
    BY <1>6, <2>2
  <2>4. d[n + 1] = s[n + 1] /\ (Parser!Stands(d, n + 1) <=> Parser!Stands(s, n + 1))
    BY <1>2, <2>2
  <2>5. f[n + 1] = IF Parser!Stands(s, n + 1) THEN Append(f[n], s[n + 1].of) ELSE f[n]
    BY <1>3, <2>2
  <2>6. g[n + 1] = IF Parser!Stands(d, n + 1) THEN Append(g[n], d[n + 1].of) ELSE g[n]
    BY <1>4, <2>2
  <2>7. QED BY <2>3, <2>4, <2>5, <2>6
<1>7. \A n \in Nat : n \in S
  <2> HIDE DEF S
  <2>1. QED BY <1>5, <1>6, Induction
<1>8. g[p] = f[p]
  BY <1>7
<1>9. QED BY <1>8 DEF d, f, g

LEMMA AppendToBoth ==
  ASSUME NEW u \in Numbers, NEW v \in Numbers, NEW e \in 0 .. MaxFrames
  PROVE  Append(v, e) \in Numbers /\ Append(u \o v, e) = u \o Append(v, e)
<1>1. <<e>> \in Numbers /\ u \o v \in Numbers
  BY ConcatProperties DEF Numbers
<1>2. /\ Append(u \o v, e) = (u \o v) \o <<e>>
      /\ Append(v, e) = v \o <<e>> /\ Append(v, e) \in Numbers
  BY <1>1, AppendIsConcat, AppendProperties DEF Numbers
<1>3. (u \o v) \o <<e>> = u \o (v \o <<e>>)
  BY <1>1, ConcatAssociative DEF Numbers
<1>4. QED BY <1>2, <1>3

(* The frames behind the p-th byte are those of the bytes there.           *)
LEMMA FramesOfSuffix ==
  ASSUME NEW d \in Bytes, NEW p \in 0 .. Len(d)
  PROVE  LET t == SubSeq(d, p + 1, Len(d))
         IN  Parser!Frames(d)[Len(d)] = Parser!Frames(d)[p] \o Parser!Frames(t)[Len(t)]
<1> DEFINE t == SubSeq(d, p + 1, Len(d))
<1> DEFINE f == Parser!Frames(d)
<1> DEFINE g == Parser!Frames(t)
<1> DEFINE Splits(n) == f[p + n] = f[p] \o g[n]
<1> DEFINE S == {n \in Nat : n <= Len(t) => Splits(n)}
<1>1. /\ t \in Bytes /\ Len(t) = Len(d) - p /\ Len(d) \in Nat /\ p \in Nat /\ Len(t) \in Nat
      /\ \A i \in 1 .. Len(t) : t[i] = d[p + i]
  BY Suffix DEF Bytes
<1> HIDE DEF t
<1>2. ASSUME NEW i \in 1 .. Len(t)
      PROVE  Parser!Stands(d, p + i) <=> Parser!Stands(t, i)
  <2>1. p + i \in 1 .. Len(d) /\ t[i] = d[p + i] /\ i \in Nat
    BY <1>1
  <2>2. PICK m \in Nat : m = t[i].len
    BY <1>1, ByteFacts
  <2>3. LastByte(d, p + i) = (p + i) + m + MinLen - 1 /\ LastByte(t, i) = i + m + MinLen - 1
    BY <2>1, <2>2 DEF LastByte
  <2>4. LastByte(d, p + i) <= Len(d) <=> LastByte(t, i) <= Len(t)
    <3>1. (p + i) + m + MinLen - 1 <= Len(d) <=> i + m + MinLen - 1 <= Len(t)
      BY <1>1, <2>1, Sizes
    <3>2. QED BY <2>3, <3>1
  <2>5. ASSUME LastByte(t, i) <= Len(t)
        PROVE  HasFrame(d, p + i) <=> HasFrame(t, i)
    <3>1. \A k \in 1 .. m + MinLen : /\ i + k - 1 \in 1 .. Len(t)
                                     /\ p + (i + k - 1) = (p + i) + k - 1
      BY <1>1, <2>1, <2>3, <2>5, Sizes
    <3>2. \A k \in 1 .. m + MinLen : t[i + k - 1] = d[(p + i) + k - 1]
      BY <1>1, <3>1
    <3>3. QED BY <2>1, <2>2, <3>2 DEF HasFrame
  <2>6. QED BY <1>1, <2>1, <2>4, <2>5, StandsMeans
<1>3. \A n \in 0 .. Len(d) : f[n] = IF n = 0 THEN << >>
                                    ELSE IF Parser!Stands(d, n) THEN Append(f[n - 1], d[n].of)
                                    ELSE f[n - 1]
  BY <1>1, FramesDef
<1>4. \A n \in 0 .. Len(t) : g[n] = IF n = 0 THEN << >>
                                    ELSE IF Parser!Stands(t, n) THEN Append(g[n - 1], t[n].of)
                                    ELSE g[n - 1]
  BY <1>1, FramesDef
<1>5. /\ \A n \in 0 .. Len(d) : f[n] \in Numbers
      /\ \A n \in 0 .. Len(t) : g[n] \in Numbers
  BY <1>1, FramesType
<1> HIDE DEF f, g
<1>6. 0 \in S
  <2>1. p \in 0 .. Len(d) /\ 0 \in 0 .. Len(t) /\ p + 0 = p
    BY <1>1
  <2>2. g[0] = << >>
    BY <1>4, <2>1
  <2>3. f[p] \o << >> = f[p]
    BY <1>5, <2>1, ConcatEmptySeq DEF Numbers
  <2>4. QED BY <2>1, <2>2, <2>3
<1>7. ASSUME NEW n \in Nat, n \in S PROVE n + 1 \in S
  <2>1. SUFFICES ASSUME n + 1 <= Len(t) PROVE Splits(n + 1)
    <3> HIDE DEF Splits
    <3>1. QED OBVIOUS
  <2>2. /\ p + (n + 1) \in 0 .. Len(d) /\ p + (n + 1) # 0 /\ (p + (n + 1)) - 1 = p + n
        /\ n + 1 \in 0 .. Len(t) /\ n + 1 # 0 /\ (n + 1) - 1 = n
        /\ n + 1 \in 1 .. Len(t) /\ n \in 0 .. Len(t) /\ n <= Len(t) /\ p \in 0 .. Len(d)
    BY <1>1, <2>1
  <2>3. f[p + n] = f[p] \o g[n]
    BY <1>7, <2>2
  <2>4. t[n + 1] = d[p + (n + 1)] /\ (Parser!Stands(d, p + (n + 1)) <=> Parser!Stands(t, n + 1))
    BY <1>1, <1>2, <2>2
  <2>5. g[n + 1] = IF Parser!Stands(t, n + 1) THEN Append(g[n], t[n + 1].of) ELSE g[n]
    BY <1>4, <2>2
  <2>6. f[p + (n + 1)] = IF Parser!Stands(d, p + (n + 1))
                         THEN Append(f[p + n], d[p + (n + 1)].of) ELSE f[p + n]
    BY <1>3, <2>2
  <2>7. Append(f[p] \o g[n], t[n + 1].of) = f[p] \o Append(g[n], t[n + 1].of)
    <3> DEFINE e == t[n + 1].of
    <3>1. e \in 0 .. MaxFrames
      BY <1>1, <2>2, ByteFacts
    <3>2. f[p] \in Numbers /\ g[n] \in Numbers
      BY <1>5, <2>2
    <3> HIDE DEF e
    <3>3. QED BY <3>1, <3>2, AppendToBoth DEF e
  <2>8. QED BY <2>3, <2>4, <2>5, <2>6, <2>7
<1>8. \A n \in Nat : n \in S
  <2> HIDE DEF S
  <2>1. QED BY <1>6, <1>7, Induction
<1>9. Splits(Len(t)) /\ p + Len(t) = Len(d)
  <2> HIDE DEF Splits
  <2>1. QED BY <1>1, <1>8
<1>10. QED BY <1>9 DEF f, g, t

(* No frame begins in the n bytes behind the (p + 1)-st: nothing is added. *)
LEMMA FramesInside ==
  ASSUME NEW d \in Bytes, NEW p \in Nat, NEW n \in Nat, n >= 1, p + n <= Len(d),
         \A k \in 2 .. n : d[p + k].pos # 1
  PROVE  Parser!Frames(d)[p + n] = Parser!Frames(d)[p + 1]
<1> DEFINE f == Parser!Frames(d)
<1> DEFINE S == {m \in Nat : m + 1 <= n => f[p + (m + 1)] = f[p + 1]}
<1>1. Len(d) \in Nat
  BY DEF Bytes
<1>2. \A i \in 0 .. Len(d) : f[i] = IF i = 0 THEN << >>
                                    ELSE IF Parser!Stands(d, i) THEN Append(f[i - 1], d[i].of)
                                    ELSE f[i - 1]
  BY <1>1, FramesDef
<1> HIDE DEF f
<1>3. 0 \in S
  OBVIOUS
<1>4. ASSUME NEW m \in Nat, m \in S PROVE m + 1 \in S
  <2>1. SUFFICES ASSUME (m + 1) + 1 <= n PROVE f[p + ((m + 1) + 1)] = f[p + 1]
    OBVIOUS
  <2>2. PICK i \in Nat : i = p + ((m + 1) + 1)
    OBVIOUS
  <2>3. /\ i \in 0 .. Len(d) /\ i \in 1 .. Len(d) /\ i # 0 /\ i - 1 = p + (m + 1)
        /\ (m + 1) + 1 \in 2 .. n /\ m + 1 <= n
    BY <1>1, <2>1, <2>2
  <2>4. ~Parser!Stands(d, i)
    <3>1. d[i].pos # 1
      BY <2>2, <2>3
    <3>2. QED BY <2>3, <3>1, NoFrameInside
  <2>5. f[i] = f[i - 1]
    BY <1>2, <2>3, <2>4
  <2>6. QED BY <1>4, <2>2, <2>3, <2>5
<1>5. \A m \in Nat : m \in S
  <2> HIDE DEF S
  <2>1. QED BY <1>3, <1>4, Induction
<1>6. n - 1 \in Nat /\ (n - 1) + 1 = n
  OBVIOUS
<1>7. QED BY <1>5, <1>6 DEF f

-----------------------------------------------------------------------------
(* HostParser: the loop of read_adv.                                       *)

(* t is left of the bytes d when the frames h have been taken: what is in  *)
(* front of t cannot become a frame any more.                              *)
LeftAfter(d, t, h) ==
  \E p \in 0 .. Len(d) : /\ t = SubSeq(d, p + 1, Len(d))
                         /\ h = Parser!Frames(d)[p]
                         /\ \A i \in 1 .. p : Decided(d, i)

LEMMA SuffixOfSuffix ==
  ASSUME NEW d \in Bytes, NEW p \in Nat, NEW n \in Nat, p + n <= Len(d)
  PROVE  LET t == SubSeq(d, p + 1, Len(d))
         IN  SubSeq(t, n + 1, Len(t)) = SubSeq(d, (p + n) + 1, Len(d))
<1> DEFINE t == SubSeq(d, p + 1, Len(d))
<1> DEFINE u == SubSeq(t, n + 1, Len(t))
<1> DEFINE w == SubSeq(d, (p + n) + 1, Len(d))
<1>1. Len(d) \in Nat /\ p \in 0 .. Len(d) /\ p + n \in 0 .. Len(d)
  BY DEF Bytes
<1>2. /\ t \in Bytes /\ Len(t) = Len(d) - p
      /\ \A i \in 1 .. Len(d) - p : t[i] = d[p + i]
  BY <1>1, Suffix DEF Bytes
<1>3. /\ w \in Bytes /\ Len(w) = Len(d) - (p + n)
      /\ \A i \in 1 .. Len(d) - (p + n) : w[i] = d[(p + n) + i]
  BY <1>1, Suffix DEF Bytes
<1> HIDE DEF t, w
<1>4. n \in 0 .. Len(t)
  BY <1>1, <1>2
<1>5. /\ u \in Bytes /\ Len(u) = Len(t) - n
      /\ \A i \in 1 .. Len(t) - n : u[i] = t[n + i]
  BY <1>2, <1>4, Suffix DEF Bytes
<1> HIDE DEF u
<1>6. Len(u) = Len(w)
  BY <1>1, <1>2, <1>3, <1>5
<1>7. ASSUME NEW i \in 1 .. Len(u) PROVE u[i] = w[i]
  <2>1. /\ i \in 1 .. Len(t) - n /\ n + i \in 1 .. Len(d) - p /\ i \in 1 .. Len(d) - (p + n)
        /\ p + (n + i) = (p + n) + i
    BY <1>1, <1>2, <1>5
  <2>2. QED BY <1>2, <1>3, <1>5, <2>1
<1>8. u = w
  BY <1>3, <1>5, <1>6, <1>7, SeqEqual DEF Bytes
<1>9. QED BY <1>8 DEF t, u, w

(* A packet in front is a frame that was sent.                             *)
LEMMA FrameTaken ==
  ASSUME NEW d \in Bytes, NEW p \in 0 .. Len(d), NEW h \in Numbers, NEW f \in Numbers,
         h \o f = Parser!Frames(d)[p], \A i \in 1 .. p : Decided(d, i),
         Parser!HasPacket(SubSeq(d, p + 1, Len(d))),
         Parser!CrcMatches(SubSeq(d, p + 1, Len(d)), SubSeq(d, p + 1, Len(d))[1].len + MinLen)
  PROVE  LET t == SubSeq(d, p + 1, Len(d))
             n == t[1].len + MinLen
         IN  /\ Append(f, t[1].of) \in Numbers
             /\ LeftAfter(d, SubSeq(t, n + 1, Len(t)), h \o Append(f, t[1].of))
<1> DEFINE t == SubSeq(d, p + 1, Len(d))
<1> DEFINE k == t[1].len + MinLen
<1> DEFINE e == t[1].of
<1>1. /\ t[1] = d[p + 1] /\ p + 1 \in 1 .. Len(d) /\ k \in Nat /\ k >= 1
      /\ LastByte(d, p + 1) = p + k /\ p + k <= Len(d)
      /\ Parser!CrcMatches(t, k) <=> Parser!Stands(d, p + 1)
  BY PacketMeans
<1>2. Parser!Stands(d, p + 1)
  BY <1>1
<1>3. Len(d) \in Nat /\ p \in Nat
  BY DEF Bytes
<1>4. SubSeq(t, k + 1, Len(t)) = SubSeq(d, (p + k) + 1, Len(d))
  BY <1>1, <1>3, SuffixOfSuffix
<1>5. e \in 0 .. MaxFrames /\ e = d[p + 1].of
  BY <1>1, ByteFacts
<1>6. HasFrame(d, p + 1) /\ k = d[p + 1].len + MinLen
  BY <1>1, <1>2, StandsMeans
<1> HIDE DEF t
<1>7. PICK n \in Nat : n = k
  BY <1>1
<1> HIDE DEF k, e
<1>8. \A j \in 2 .. n : d[p + j].pos # 1
  <2>1. \A j \in 2 .. n : j \in 1 .. d[p + 1].len + MinLen /\ (p + 1) + j - 1 = p + j /\ j # 1
    BY <1>3, <1>6, <1>7
  <2>2. \A j \in 1 .. d[p + 1].len + MinLen : d[(p + 1) + j - 1].pos = j
    BY <1>6 DEF HasFrame
  <2>3. \A j \in 2 .. n : d[(p + 1) + j - 1].pos = j /\ (p + 1) + j - 1 = p + j /\ j # 1
    BY <2>1, <2>2
  <2>4. QED BY <2>3
<1>9. Parser!Frames(d)[p + n] = Parser!Frames(d)[p + 1]
  BY <1>1, <1>3, <1>7, <1>8, FramesInside
<1>10. Parser!Frames(d)[p + 1] = Append(Parser!Frames(d)[p], d[p + 1].of)
  <2>1. p + 1 \in 0 .. Len(d) /\ p + 1 # 0 /\ (p + 1) - 1 = p
    BY <1>1, <1>3
  <2>2. QED BY <1>2, <1>3, <2>1, FramesDef
<1>11. Append(f, e) \in Numbers /\ Append(h \o f, e) = h \o Append(f, e)
  BY <1>5, AppendToBoth
<1>12. h \o Append(f, e) = Parser!Frames(d)[p + n]
  BY <1>5, <1>9, <1>10, <1>11
<1>13. ASSUME NEW i \in 1 .. p + n PROVE Decided(d, i)
  <2>1. CASE i <= p
    <3>1. i \in 1 .. p
      BY <1>3, <2>1
    <3>2. QED BY <3>1
  <2>2. CASE i = p + 1
    BY <1>1, <2>2 DEF Decided
  <2>3. CASE i > p + 1
    <3>1. i - p \in 2 .. n /\ p + (i - p) = i
      BY <1>3, <2>3
    <3>2. QED BY <1>8, <3>1 DEF Decided
  <2>4. QED BY <1>3, <2>1, <2>2, <2>3
<1>14. p + n \in 0 .. Len(d)
  BY <1>1, <1>3, <1>7
<1>15. LeftAfter(d, SubSeq(t, n + 1, Len(t)), h \o Append(f, e))
  BY <1>4, <1>7, <1>12, <1>13, <1>14 DEF LeftAfter
<1>16. QED BY <1>7, <1>11, <1>15 DEF t, k, e

(* A byte that begins no frame.                                            *)
LEMMA ByteDiscarded ==
  ASSUME NEW d \in Bytes, NEW p \in 0 .. Len(d), NEW h,
         h = Parser!Frames(d)[p], \A i \in 1 .. p : Decided(d, i),
         Parser!HasPacket(SubSeq(d, p + 1, Len(d))),
         ~Parser!CrcMatches(SubSeq(d, p + 1, Len(d)), SubSeq(d, p + 1, Len(d))[1].len + MinLen)
  PROVE  LeftAfter(d, Parser!AfterError(SubSeq(d, p + 1, Len(d))), h)
<1> DEFINE t == SubSeq(d, p + 1, Len(d))
<1> DEFINE k == t[1].len + MinLen
<1>1. /\ p + 1 \in 1 .. Len(d) /\ k \in Nat
      /\ LastByte(d, p + 1) = p + k /\ p + k <= Len(d)
      /\ ~Parser!Stands(d, p + 1)
  BY PacketMeans
<1>2. Len(d) \in Nat /\ p \in Nat /\ p + 1 \in 0 .. Len(d) /\ p + 1 # 0 /\ (p + 1) - 1 = p
  BY <1>1 DEF Bytes
<1>3. Parser!AfterError(t) = SubSeq(d, (p + 1) + 1, Len(d))
  <2>1. t \in Bytes /\ t # << >>
    BY Suffix DEF Bytes, Parser!HasPacket
  <2>2. Tail(t) = SubSeq(t, 2, Len(t))
    BY <2>1, TailIsSubSeq DEF Bytes
  <2>3. SubSeq(t, 1 + 1, Len(t)) = SubSeq(d, (p + 1) + 1, Len(d))
    BY <1>1, <1>2, SuffixOfSuffix
  <2> HIDE DEF t
  <2>4. QED BY <2>2, <2>3 DEF Parser!AfterError
<1>4. h = Parser!Frames(d)[p + 1]
  BY <1>1, <1>2, FramesDef
<1>5. ASSUME NEW i \in 1 .. p + 1 PROVE Decided(d, i)
  <2>1. CASE i \in 1 .. p
    BY <2>1
  <2>2. CASE i = p + 1
    <3> HIDE DEF k
    <3>1. QED BY <1>1, <2>2 DEF Decided
  <2>3. QED BY <1>2, <2>1, <2>2
<1>6. QED BY <1>2, <1>3, <1>4, <1>5 DEF LeftAfter

(* One turn of the loop.                                                   *)
LEMMA TurnKeeps ==
  ASSUME NEW d \in Bytes, NEW h \in Numbers, NEW s,
         s.found \in Numbers, LeftAfter(d, s.rest, h \o s.found)
  PROVE  /\ Parser!Turn(s).found \in Numbers
         /\ LeftAfter(d, Parser!Turn(s).rest, h \o Parser!Turn(s).found)
<1>1. PICK p \in 0 .. Len(d) : /\ s.rest = SubSeq(d, p + 1, Len(d))
                              /\ h \o s.found = Parser!Frames(d)[p]
                              /\ \A i \in 1 .. p : Decided(d, i)
  BY DEF LeftAfter
<1> DEFINE t == s.rest
<1> DEFINE n == t[1].len + MinLen
<1>2. CASE ~Parser!HasPacket(t)
  BY <1>2 DEF Parser!Turn
<1>3. CASE Parser!HasPacket(t) /\ Parser!CrcMatches(t, n)
  <2>1. Parser!Turn(s) = [rest |-> SubSeq(t, n + 1, Len(t)), found |-> Append(s.found, t[1].of)]
    BY <1>3 DEF Parser!Turn
  <2>2. /\ Append(s.found, t[1].of) \in Numbers
        /\ LeftAfter(d, SubSeq(t, n + 1, Len(t)), h \o Append(s.found, t[1].of))
    BY <1>1, <1>3, FrameTaken
  <2> DEFINE rest == SubSeq(t, n + 1, Len(t))
  <2> DEFINE found == Append(s.found, t[1].of)
  <2>3. Parser!Turn(s) = [rest |-> rest, found |-> found] /\ found \in Numbers
        /\ LeftAfter(d, rest, h \o found)
    BY <2>1, <2>2
  <2> HIDE DEF rest, found
  <2>4. Parser!Turn(s).rest = rest /\ Parser!Turn(s).found = found
    BY <2>3
  <2>5. QED BY <2>3, <2>4
<1>4. CASE Parser!HasPacket(t) /\ ~Parser!CrcMatches(t, n)
  <2>1. Parser!Turn(s) = [rest |-> Parser!AfterError(t), found |-> s.found]
    BY <1>4 DEF Parser!Turn
  <2>2. LeftAfter(d, Parser!AfterError(t), h \o s.found)
    BY <1>1, <1>4, ByteDiscarded
  <2>3. QED BY <2>1, <2>2
<1>5. QED BY <1>2, <1>3, <1>4

(* The recursion in Turns has a solution.                                  *)
LEMMA TurnsDef ==
  ASSUME NEW d, Len(d) \in Nat
  PROVE  \A n \in 0 .. Len(d) :
           Parser!Turns(d)[n] = IF n = 0 THEN [rest |-> d, found |-> << >>]
                                ELSE Parser!Turn(Parser!Turns(d)[n - 1])
<1> DEFINE Value(f, n) == IF n = 0 THEN [rest |-> d, found |-> << >>] ELSE Parser!Turn(f[n - 1])
<1> DEFINE Solves(f, m) == f = [n \in 0 .. m |-> Value(f, n)]
<1> DEFINE S == {m \in Nat : \E f : Solves(f, m)}
<1>1. 0 \in S
  <2> DEFINE f == [n \in 0 .. 0 |-> [rest |-> d, found |-> << >>]]
  <2>1. f = [n \in 0 .. 0 |-> Value(f, n)]
    <3>1. \A n \in 0 .. 0 : n = 0
      OBVIOUS
    <3>2. QED BY <3>1
  <2>2. QED BY <2>1
<1>2. ASSUME NEW m \in Nat, m \in S PROVE m + 1 \in S
  <2>1. PICK f : Solves(f, m)
    BY <1>2
  <2> DEFINE g == [n \in 0 .. m + 1 |-> Value(f, n)]
  <2>2. \A n \in 0 .. m : g[n] = f[n]
    <3>1. \A n \in 0 .. m : n \in 0 .. m + 1
      OBVIOUS
    <3> HIDE DEF Value
    <3>2. QED BY <2>1, <3>1
  <2>3. \A n \in 0 .. m + 1 : n # 0 => n - 1 \in 0 .. m
    OBVIOUS
  <2>4. g = [n \in 0 .. m + 1 |-> Value(g, n)]
    <3>1. \A n \in 0 .. m + 1 : n # 0 => g[n - 1] = f[n - 1]
      BY <2>2, <2>3
    <3> HIDE DEF g
    <3>2. \A n \in 0 .. m + 1 : Value(f, n) = Value(g, n)
      BY <3>1
    <3> HIDE DEF Value
    <3>3. QED BY <3>2, Zenon DEF g
  <2>5. m + 1 \in Nat
    OBVIOUS
  <2>6. QED BY <2>4, <2>5
<1>3. Len(d) \in S
  <2> HIDE DEF S
  <2>1. QED BY <1>1, <1>2, Induction
<1>4. PICK f : Solves(f, Len(d))
  BY <1>3
<1>5. Parser!Turns(d) = CHOOSE g : Solves(g, Len(d))
  BY DEF Parser!Turns
<1>6. Solves(Parser!Turns(d), Len(d))
  <2> HIDE DEF Solves
  <2>1. QED BY <1>4, <1>5
<1> DEFINE k == Parser!Turns(d)
<1>7. k = [n \in 0 .. Len(d) |-> Value(k, n)]
  BY <1>6
<1> HIDE DEF k
<1>8. \A n \in 0 .. Len(d) : k[n] = Value(k, n)
  <2> HIDE DEF Value
  <2>1. QED BY <1>7
<1>9. QED BY <1>8 DEF k

(* The whole loop, with the test in front of it.                           *)
LEMMA ParsedKeeps ==
  ASSUME NEW d \in Bytes, NEW t \in Bytes, NEW h \in Numbers, LeftAfter(d, t, h)
  PROVE  /\ Parser!Parsed(t).found \in Numbers
         /\ LeftAfter(d, Parser!Parsed(t).rest, h \o Parser!Parsed(t).found)
<1> DEFINE s == Parser!Turns(t)
<1> DEFINE Good(x) == x.found \in Numbers /\ LeftAfter(d, x.rest, h \o x.found)
<1> DEFINE S == {n \in Nat : n <= Len(t) => Good(s[n])}
<1>1. Good([rest |-> t, found |-> << >>])
  <2>1. << >> \in Numbers /\ h \o << >> = h
    BY EmptySeq, ConcatEmptySeq DEF Numbers
  <2>2. QED BY <2>1
<1>2. Len(t) \in Nat
  BY DEF Bytes
<1>3. \A n \in 0 .. Len(t) : s[n] = IF n = 0 THEN [rest |-> t, found |-> << >>]
                                    ELSE Parser!Turn(s[n - 1])
  BY <1>2, TurnsDef
<1>4. \A x : Good(x) => Good(Parser!Turn(x))
  BY TurnKeeps
<1> HIDE DEF s, Good
<1>5. 0 \in S
  BY <1>1, <1>2, <1>3
<1>6. ASSUME NEW n \in Nat, n \in S PROVE n + 1 \in S
  <2>1. SUFFICES ASSUME n + 1 <= Len(t) PROVE Good(s[n + 1])
    OBVIOUS
  <2>2. n + 1 \in 0 .. Len(t) /\ n + 1 # 0 /\ (n + 1) - 1 = n /\ n <= Len(t)
    BY <1>2, <2>1
  <2>3. s[n + 1] = Parser!Turn(s[n]) /\ Good(s[n])
    BY <1>3, <1>6, <2>2
  <2>4. QED BY <1>4, <2>3
<1>7. \A n \in Nat : n \in S
  <2> HIDE DEF S
  <2>1. QED BY <1>5, <1>6, Induction
<1>8. Good(s[Len(t)])
  BY <1>2, <1>7
<1>9. Good(Parser!Parsed(t))
  BY <1>1, <1>8 DEF Parser!Parsed, Parser!Packets, s
<1>10. QED BY <1>9 DEF Good

(* Every turn but the last takes a byte, so that the loop ends with fewer  *)
(* bytes than a packet.                                                    *)
LEMMA TurnTakes ==
  ASSUME NEW s, s.rest \in Bytes, Parser!HasPacket(s.rest)
  PROVE  Parser!Turn(s).rest \in Bytes /\ Len(Parser!Turn(s).rest) <= Len(s.rest) - 1
<1> DEFINE d == s.rest
<1> DEFINE n == d[1].len + MinLen
<1>1. d # << >> /\ n <= Len(d) /\ Len(d) \in Nat /\ 1 \in 1 .. Len(d)
  BY EmptySeq DEF Parser!HasPacket, Bytes
<1>2. n \in 0 .. Len(d) /\ n >= 1
  BY <1>1, ByteFacts, Sizes
<1>3. CASE Parser!CrcMatches(d, n)
  <2> DEFINE rest == SubSeq(d, n + 1, Len(d))
  <2> DEFINE found == Append(s.found, d[1].of)
  <2>1. Parser!Turn(s) = [rest |-> rest, found |-> found]
    BY <1>3 DEF Parser!Turn
  <2>2. rest \in Bytes /\ Len(rest) = Len(d) - n
    BY <1>2, Suffix DEF Bytes
  <2> HIDE DEF rest, found
  <2>3. Parser!Turn(s).rest = rest
    BY <2>1
  <2> HIDE DEF d, n
  <2>4. Len(d) - n <= Len(d) - 1
    BY <1>1, <1>2
  <2>5. QED BY <2>2, <2>3, <2>4 DEF d
<1>4. CASE ~Parser!CrcMatches(d, n)
  <2>1. Parser!Turn(s) = [rest |-> Tail(d), found |-> s.found]
    BY <1>4 DEF Parser!Turn, Parser!AfterError
  <2>2. Tail(d) \in Bytes /\ Len(Tail(d)) = Len(d) - 1
    BY <1>1, HeadTailProperties DEF Bytes
  <2>3. QED BY <1>1, <2>1, <2>2
<1>5. QED BY <1>3, <1>4

LEMMA LoopEnds ==
  ASSUME NEW d \in Bytes
  PROVE  Parser!Parsed(d).rest \in Bytes /\ ~Parser!HasPacket(Parser!Parsed(d).rest)
<1> DEFINE s == Parser!Turns(d)
<1> DEFINE Good(x, n) == x.rest \in Bytes /\ (Parser!HasPacket(x.rest) => Len(x.rest) <= Len(d) - n)
<1> DEFINE S == {n \in Nat : n <= Len(d) => Good(s[n], n)}
<1>1. Len(d) \in Nat
  BY DEF Bytes
<1>2. \A n \in 0 .. Len(d) : s[n] = IF n = 0 THEN [rest |-> d, found |-> << >>]
                                    ELSE Parser!Turn(s[n - 1])
  BY <1>1, TurnsDef
<1>3. ASSUME NEW x, NEW n \in Nat, Good(x, n) PROVE Good(Parser!Turn(x), n + 1)
  <2>1. CASE Parser!HasPacket(x.rest)
    <3>1. Parser!Turn(x).rest \in Bytes /\ Len(Parser!Turn(x).rest) <= Len(x.rest) - 1
      BY <1>3, <2>1, TurnTakes
    <3>2. Len(x.rest) <= Len(d) - n /\ Len(x.rest) \in Nat
      BY <1>3, <2>1 DEF Bytes
    <3>3. Len(Parser!Turn(x).rest) \in Nat
      BY <3>1 DEF Bytes
    <3>4. QED BY <1>1, <3>1, <3>2, <3>3
  <2>2. CASE ~Parser!HasPacket(x.rest)
    <3>1. Parser!Turn(x) = x
      BY <2>2 DEF Parser!Turn
    <3>2. QED BY <1>3, <2>2, <3>1
  <2>3. QED BY <2>1, <2>2
<1>4. Good([rest |-> d, found |-> << >>], 0)
  BY <1>1
<1> HIDE DEF s, Good
<1>5. 0 \in S
  BY <1>1, <1>2, <1>4
<1>6. ASSUME NEW n \in Nat, n \in S PROVE n + 1 \in S
  <2>1. SUFFICES ASSUME n + 1 <= Len(d) PROVE Good(s[n + 1], n + 1)
    OBVIOUS
  <2>2. n + 1 \in 0 .. Len(d) /\ n + 1 # 0 /\ (n + 1) - 1 = n /\ n <= Len(d)
    BY <1>1, <2>1
  <2>3. s[n + 1] = Parser!Turn(s[n]) /\ Good(s[n], n)
    BY <1>2, <1>6, <2>2
  <2>4. QED BY <1>3, <2>3
<1>7. \A n \in Nat : n \in S
  <2> HIDE DEF S
  <2>1. QED BY <1>5, <1>6, Induction
<1>8. Good(s[Len(d)], Len(d))
  BY <1>1, <1>7
<1>9. ASSUME NEW t \in Bytes, Parser!HasPacket(t) PROVE Len(t) >= MinLen /\ Len(t) \in Nat
  <2>1. t # << >> /\ t[1].len + MinLen <= Len(t)
    BY <1>9 DEF Parser!HasPacket
  <2>2. Len(t) \in Nat /\ 1 \in 1 .. Len(t)
    BY <2>1, EmptySeq DEF Bytes
  <2>3. QED BY <2>1, <2>2, ByteFacts, Sizes
<1>10. CASE Len(d) >= MinLen
  <2>1. Parser!Parsed(d) = s[Len(d)]
    BY <1>10 DEF Parser!Parsed, Parser!Packets, s
  <2> DEFINE t == s[Len(d)].rest
  <2>2. t \in Bytes /\ (Parser!HasPacket(t) => Len(t) <= Len(d) - Len(d))
    BY <1>8 DEF Good
  <2> HIDE DEF t
  <2>3. ~Parser!HasPacket(t)
    BY <1>1, <1>9, <2>2, Sizes
  <2>4. QED BY <2>1, <2>2, <2>3 DEF t
<1>11. CASE ~(Len(d) >= MinLen)
  BY <1>9, <1>11 DEF Parser!Parsed
<1>12. QED BY <1>10, <1>11

-----------------------------------------------------------------------------
(* HostParser: the steps.                                                  *)

ParserInv ==
  /\ sent \in Seq(0 .. MaxLen) /\ Len(sent) <= MaxFrames
  /\ line \in Bytes /\ seen \in Bytes /\ data \in Bytes
  /\ handled \in Numbers
  /\ LeftAfter(seen, data, handled)
  /\ ~Parser!HasPacket(data)

LEMMA InitParserInv == Parser!Init => ParserInv
<1> SUFFICES ASSUME Parser!Init PROVE ParserInv
  OBVIOUS
<1>1. /\ sent = << >> /\ line = << >> /\ seen = << >> /\ data = << >> /\ handled = << >>
  BY DEF Parser!Init
<1>2. << >> \in Bytes /\ Len(<< >>) = 0 /\ << >> \in Numbers /\ << >> \in Seq(0 .. MaxLen)
  BY EmptySeq DEF Bytes, Numbers
<1>3. SubSeq(<< >>, 0 + 1, Len(<< >>)) = << >>
  BY <1>2, SubSeqEmpty
<1>4. Parser!Frames(<< >>)[0] = << >>
  BY <1>2, FramesDef
<1>5. 0 \in 0 .. Len(<< >>) /\ \A i \in 1 .. 0 : Decided(<< >>, i)
  BY <1>2
<1>6. LeftAfter(<< >>, << >>, << >>)
  BY <1>3, <1>4, <1>5 DEF LeftAfter
<1>7. QED BY <1>1, <1>2, <1>6, Sizes DEF ParserInv, Parser!HasPacket

LEMMA DamagedBytes ==
  ASSUME NEW b \in Bytes, NEW d \in Parser!Damaged(b)
  PROVE  d \in Bytes
<1>1. CASE d \in {SubSeq(b, i, j) : i, j \in DOMAIN b}
  <2>1. PICK i \in DOMAIN b, j \in DOMAIN b : d = SubSeq(b, i, j)
    BY <1>1
  <2>2. i \in Int /\ j \in Int /\ \A k \in i .. j : b[k] \in Parser!Byte
    BY DEF Bytes
  <2>3. QED BY <2>1, <2>2, SubSeqProperties DEF Bytes
<1>2. CASE d \in {[b EXCEPT ![i] = [len |-> n, of |-> 0, pos |-> 0]] :
                    i \in DOMAIN b, n \in 0 .. MaxLen}
  <2>1. PICK i \in DOMAIN b, n \in 0 .. MaxLen :
          d = [b EXCEPT ![i] = [len |-> n, of |-> 0, pos |-> 0]]
    BY <1>2
  <2>2. [len |-> n, of |-> 0, pos |-> 0] \in Parser!Byte
    BY Sizes DEF Parser!Byte
  <2>3. i \in 1 .. Len(b)
    BY DEF Bytes
  <2>4. QED BY <2>1, <2>2, <2>3, ExceptSeq DEF Bytes
<1>3. QED BY <1>1, <1>2 DEF Parser!Damaged

LEMMA SendingKeeps == ParserInv /\ Parser!ScannerSends => ParserInv'
<1> SUFFICES ASSUME ParserInv, Parser!ScannerSends PROVE ParserInv'
  OBVIOUS
<1>1. PICK n \in 0 .. MaxLen :
        /\ sent' = Append(sent, n)
        /\ \E l \in [2 .. MinLen + n -> 0 .. MaxLen] :
             LET b == [i \in 1 .. MinLen + n |->
                         [len |-> IF i = 1 THEN n ELSE l[i], of |-> Len(sent'), pos |-> i]]
             IN  \E d \in Parser!Damaged(b) : line' = line \o d
  BY DEF Parser!ScannerSends
<1>2. PICK l \in [2 .. MinLen + n -> 0 .. MaxLen] :
        LET b == [i \in 1 .. MinLen + n |->
                    [len |-> IF i = 1 THEN n ELSE l[i], of |-> Len(sent'), pos |-> i]]
        IN  \E d \in Parser!Damaged(b) : line' = line \o d
  BY <1>1
<1>3. /\ sent \in Seq(0 .. MaxLen) /\ Len(sent) < MaxFrames
      /\ UNCHANGED <<seen, data, handled>>
  BY DEF ParserInv, Parser!ScannerSends
<1>4. /\ sent' \in Seq(0 .. MaxLen) /\ Len(sent') = Len(sent) + 1 /\ Len(sent) \in Nat
  BY <1>1, <1>3
<1>5. Len(sent') \in 0 .. MaxFrames /\ Len(sent') <= MaxFrames
  BY <1>3, <1>4, Sizes
<1> DEFINE SentByte(i) == [len |-> IF i = 1 THEN n ELSE l[i], of |-> Len(sent'), pos |-> i]
<1> DEFINE b == [i \in 1 .. MinLen + n |-> SentByte(i)]
<1>6. b \in Bytes
  <2>1. ASSUME NEW i \in 1 .. MinLen + n PROVE SentByte(i) \in Parser!Byte
    <3>1. (IF i = 1 THEN n ELSE l[i]) \in 0 .. MaxLen
      <4>1. i # 1 => i \in 2 .. MinLen + n
        BY Sizes
      <4>2. QED BY <4>1
    <3>2. i \in 0 .. MinLen + MaxLen
      BY Sizes
    <3>3. QED BY <1>5, <3>1, <3>2 DEF Parser!Byte
  <2>2. MinLen + n \in Nat
    BY Sizes
  <2> HIDE DEF SentByte
  <2>3. b \in [1 .. MinLen + n -> Parser!Byte]
    BY <2>1
  <2>4. QED BY <2>2, <2>3 DEF Bytes
<1>7. PICK d \in Parser!Damaged(b) : line' = line \o d
  BY <1>2
<1>8. d \in Bytes
  <2> HIDE DEF b
  <2>1. QED BY <1>6, DamagedBytes
<1>9. line' \in Bytes
  BY <1>7, <1>8, ConcatProperties DEF ParserInv, Bytes
<1>10. QED BY <1>3, <1>4, <1>5, <1>9 DEF ParserInv

(* A chunk more, before the loop.                                          *)
LEMMA ChunkKeeps ==
  ASSUME NEW s \in Bytes, NEW t \in Bytes, NEW c \in Bytes, NEW h, LeftAfter(s, t, h)
  PROVE  LeftAfter(s \o c, t \o c, h)
<1>1. PICK p \in 0 .. Len(s) : /\ t = SubSeq(s, p + 1, Len(s))
                              /\ h = Parser!Frames(s)[p]
                              /\ \A i \in 1 .. p : Decided(s, i)
  BY DEF LeftAfter
<1> DEFINE d == s \o c
<1> DEFINE u == SubSeq(d, p + 1, Len(d))
<1>2. /\ d \in Bytes /\ Len(d) = Len(s) + Len(c) /\ Len(s) \in Nat /\ Len(c) \in Nat
      /\ \A i \in 1 .. Len(s) + Len(c) : d[i] = IF i <= Len(s) THEN s[i] ELSE c[i - Len(s)]
  BY ConcatProperties DEF Bytes
<1>3. h = Parser!Frames(d)[p]
  BY <1>1, FramesOfPrefix
<1>4. \A i \in 1 .. p : Decided(d, i)
  <2>1. \A i \in 1 .. p : i \in 1 .. Len(s)
    BY <1>2
  <2>2. QED BY <1>1, <2>1, ReadingOn
<1> DEFINE w == t \o c
<1>5. /\ w \in Bytes /\ Len(w) = Len(t) + Len(c) /\ Len(t) \in Nat
      /\ \A i \in 1 .. Len(t) + Len(c) : w[i] = IF i <= Len(t) THEN t[i] ELSE c[i - Len(t)]
  BY ConcatProperties DEF Bytes
<1> HIDE DEF d, w
<1>6. p \in 0 .. Len(d)
  BY <1>2
<1>7. /\ u \in Bytes /\ Len(u) = Len(d) - p
      /\ \A i \in 1 .. Len(d) - p : u[i] = d[p + i]
  BY <1>2, <1>6, Suffix DEF Bytes
<1> HIDE DEF u
<1>8. /\ Len(t) = Len(s) - p
      /\ \A i \in 1 .. Len(s) - p : t[i] = s[p + i]
  BY <1>1, Suffix DEF Bytes
<1>9. Len(u) = Len(w)
  BY <1>2, <1>5, <1>7, <1>8
<1>10. ASSUME NEW i \in 1 .. Len(u) PROVE u[i] = w[i]
  <2>1. /\ i \in 1 .. Len(d) - p /\ i \in 1 .. Len(t) + Len(c)
        /\ p + i \in 1 .. Len(s) + Len(c) /\ p \in Nat
    BY <1>2, <1>5, <1>7, <1>9
  <2>2. u[i] = d[p + i]
    BY <1>7, <2>1
  <2>3. CASE i <= Len(t)
    <3>1. p + i <= Len(s) /\ i \in 1 .. Len(s) - p
      BY <1>2, <1>8, <2>1, <2>3
    <3>2. QED BY <1>2, <1>5, <1>8, <2>1, <2>2, <2>3, <3>1
  <2>4. CASE ~(i <= Len(t))
    <3>1. ~(p + i <= Len(s)) /\ (p + i) - Len(s) = i - Len(t)
      BY <1>2, <1>8, <2>1, <2>4
    <3>2. d[p + i] = c[(p + i) - Len(s)]
      BY <1>2, <2>1, <3>1
    <3>3. w[i] = c[i - Len(t)]
      BY <1>5, <2>1, <2>4
    <3>4. QED BY <2>2, <3>1, <3>2, <3>3
  <2>5. QED BY <2>3, <2>4
<1>11. w = u
  BY <1>5, <1>7, <1>9, <1>10, SeqEqual DEF Bytes
<1>12. QED BY <1>3, <1>4, <1>6, <1>11 DEF LeftAfter, d, u, w

LEMMA ReadingKeeps ==
  ASSUME ParserInv, NEW k \in 1 .. Chunk, k <= Len(line), Parser!read_adv(k)
  PROVE  ParserInv'
<1> DEFINE c == SubSeq(line, 1, k)
<1> DEFINE p == Parser!Parsed(data \o c)
<1>1. line \in Bytes /\ seen \in Bytes /\ data \in Bytes /\ handled \in Numbers /\ Len(line) \in Nat
  BY DEF ParserInv, Bytes
<1>2. /\ data' = p.rest /\ handled' = handled \o p.found
      /\ seen' = seen \o c /\ line' = SubSeq(line, k + 1, Len(line))
      /\ sent' = sent
  BY DEF Parser!read_adv
<1>3. c \in Bytes
  <2>1. 1 \in Int /\ k \in Int /\ \A i \in 1 .. k : line[i] \in Parser!Byte
    BY <1>1, Sizes DEF Bytes
  <2>2. QED BY <2>1, SubSeqProperties DEF Bytes
<1>4. line' \in Bytes
  <2>1. k \in 0 .. Len(line)
    BY <1>1, Sizes
  <2>2. QED BY <1>1, <1>2, <2>1, Suffix DEF Bytes
<1> HIDE DEF c
<1>5. seen \o c \in Bytes /\ data \o c \in Bytes
  BY <1>1, <1>3, ConcatProperties DEF Bytes
<1>6. LeftAfter(seen \o c, data \o c, handled)
  BY <1>1, <1>3, ChunkKeeps DEF ParserInv
<1>7. p.found \in Numbers /\ LeftAfter(seen \o c, p.rest, handled \o p.found)
  BY <1>1, <1>5, <1>6, ParsedKeeps
<1>8. p.rest \in Bytes /\ ~Parser!HasPacket(p.rest)
  BY <1>5, LoopEnds
<1> HIDE DEF p
<1>9. handled' \in Numbers
  BY <1>1, <1>2, <1>7, ConcatProperties DEF Numbers
<1>10. LeftAfter(seen, data, handled)'
  <2>1. LeftAfter(seen', data', handled')
    BY <1>2, <1>7
  <2>2. QED BY <2>1 DEF LeftAfter
<1>11. QED
  BY <1>2, <1>4, <1>5, <1>8, <1>9, <1>10 DEF ParserInv, Parser!HasPacket

LEMMA ParserStep == ParserInv /\ [Parser!Next]_parserVars => ParserInv'
<1> SUFFICES ASSUME ParserInv, [Parser!Next]_parserVars PROVE ParserInv'
  OBVIOUS
<1>1. CASE Parser!ScannerSends
  BY <1>1, SendingKeeps
<1>2. CASE Parser!Reads
  BY <1>2, ReadingKeeps DEF Parser!Reads
<1>3. CASE UNCHANGED parserVars
  BY <1>3 DEF parserVars, ParserInv, LeftAfter, Parser!HasPacket
<1>4. QED BY <1>1, <1>2, <1>3 DEF Parser!Next

LEMMA ParserInvariant == HostSpec => []ParserInv
<1>1. HostInit => ParserInv
  BY InitParserInv DEF HostInit
<1>2. ParserInv /\ [HostNext]_<<part, vars, parserVars>> => ParserInv'
  <2>1. [HostNext]_<<part, vars, parserVars>> => [Parser!Next]_parserVars
    BY DEF HostNext
  <2>2. QED BY <2>1, ParserStep
<1>3. QED BY <1>1, <1>2, PTL DEF HostSpec

(* Noise costs the frames it hits and no others, wherever the chunks end   *)
(* and whatever the damaged bytes look like (adv2uart.py:265-363), for     *)
(* frames and chunks of every length and any number of frames.             *)
THEOREM UndamagedFramesRecognised == HostSpec => []OnlyDamagedFramesLost
<1>1. ParserInv => OnlyDamagedFramesLost
  <2> SUFFICES ASSUME ParserInv PROVE OnlyDamagedFramesLost
    OBVIOUS
  <2>1. PICK p \in 0 .. Len(seen) : /\ data = SubSeq(seen, p + 1, Len(seen))
                                   /\ handled = Parser!Frames(seen)[p]
    BY DEF ParserInv, LeftAfter
  <2>2. Parser!Frames(seen)[Len(seen)] = handled \o Parser!Frames(data)[Len(data)]
    BY <2>1, FramesOfSuffix DEF ParserInv
  <2>3. QED BY <2>2 DEF OnlyDamagedFramesLost, Parser!OnlyDamagedFramesLost, Parser!Intact
<1>2. QED BY <1>1, ParserInvariant, PTL

(* read_adv stops only when self.data is shorter than the packet that it   *)
(* seems to begin with (adv2uart.py:275-277, 356-363).                     *)
THEOREM NoPacketIsLeft == HostSpec => []~Parser!HasPacket(data)
<1>1. ParserInv => ~Parser!HasPacket(data)
  BY DEF ParserInv
<1>2. QED BY <1>1, ParserInvariant, PTL
=============================================================================
