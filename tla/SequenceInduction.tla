------------------------- MODULE SequenceInduction --------------------------
(* Induction over data, for the proofs of the other modules.  The induction   *)
(* theorems of the library take an operator; in terms of sets, the            *)
(* well-foundedness of < on the naturals gives the same, and with it what     *)
(* FlattenSeq computes for sequences of any length.  Then what IsSuffix says, *)
(* folds over finite sets in any order, quotients and sums.                  *)
EXTENDS Integers, Sequences, SequencesExt, FiniteSets, SequenceTheorems, FiniteSetTheorems,
        WellFoundedInduction, TLAPS

\* Any set of naturals that has a member has a least one.
LEMMA LeastNat ==
    ASSUME NEW T, T \subseteq Nat, T # {}
    PROVE  \E m \in T : \A k \in T : m <= k
  <1> DEFINE R == OpToRel(<, Nat)
  <1>1. IsWellFoundedOn(R, Nat)
    BY NatLessThanWellFounded
  <1>2. \A x, y \in Nat : x < y => <<x, y>> \in R
    BY DEF OpToRel
  <1> HIDE DEF R
  <1>3. PICK m \in T : \A k \in T : ~(<<k, m>> \in R)
    BY <1>1, WFMin
  <1>4. \A k \in T : m <= k
    <2> TAKE k \in T
    <2>1. ~(k < m)
      BY <1>2, <1>3
    <2>2. QED
      BY <2>1
  <1>5. QED
    BY <1>4

\* Induction over the naturals, for the members of a set.
LEMMA SetInduction ==
    ASSUME NEW T, 0 \in T, \A n \in Nat : n \in T => n + 1 \in T
    PROVE  Nat \subseteq T
  <1>1. SUFFICES ASSUME Nat \ T # {}
                 PROVE  FALSE
    OBVIOUS
  <1>2. PICK m \in Nat \ T : \A k \in Nat \ T : m <= k
    BY <1>1, LeastNat
  <1>3. m # 0 /\ m - 1 \in Nat
    BY <1>2
  <1>4. m - 1 \in T
    BY <1>2, <1>3
  <1>5. QED
    BY <1>2, <1>3, <1>4

-----------------------------------------------------------------------------
(* FlattenSeq.  f[i] joins the first i members of ss.                        *)

Joins(f, ss, n) ==
    \A i \in 1..n : f[i] = IF i = 1 THEN ss[i] ELSE f[i - 1] \o ss[i]

Agree(ss, tt, n) == \A i \in 1..n : ss[i] = tt[i]

LEMMA JoinStep ==
    ASSUME NEW f, NEW ss, NEW n \in Nat, Joins(f, ss, n), NEW k \in Nat, k + 1 <= n
    PROVE  f[k + 1] = IF k = 0 THEN ss[1] ELSE f[k] \o ss[k + 1]
  <1>1. PICK i \in 1..n : i = k + 1
    OBVIOUS
  <1>2. f[i] = IF i = 1 THEN ss[i] ELSE f[i - 1] \o ss[i]
    BY DEF Joins
  <1>3. i - 1 = k /\ (i = 1 <=> k = 0)
    BY <1>1
  <1>4. QED
    BY <1>1, <1>2, <1>3

\* There is such a function ...
LEMMA JoinExists ==
    ASSUME NEW S, NEW ss \in Seq(Seq(S)), NEW n \in Nat, n <= Len(ss)
    PROVE  \E f \in [1..n -> Seq(S)] : Joins(f, ss, n)
  <1> DEFINE Has(k) == \E f \in [1..k -> Seq(S)] : Joins(f, ss, k)
             T == {k \in Nat : k <= Len(ss) => Has(k)}
  <1>0. Len(ss) \in Nat /\ \A i \in 1..Len(ss) : ss[i] \in Seq(S)
    OBVIOUS
  <1>1. 0 \in T
    <2>1. <<>> \in [1..0 -> Seq(S)] /\ Joins(<<>>, ss, 0)
      BY DEF Joins
    <2>2. Has(0)
      BY <2>1
    <2>3. QED
      BY <2>2
  <1>2. ASSUME NEW k \in Nat, k \in T
        PROVE  k + 1 \in T
    <2>1. ASSUME k + 1 <= Len(ss)
          PROVE  Has(k + 1)
      <3>1. Has(k)
        BY <1>0, <1>2, <2>1
      <3>2. PICK f \in [1..k -> Seq(S)] : Joins(f, ss, k)
        BY <3>1
      <3> DEFINE g == [i \in 1..(k + 1) |-> IF i <= k THEN f[i]
                                            ELSE IF k = 0 THEN ss[1] ELSE f[k] \o ss[k + 1]]
      <3>3. ss[k + 1] \in Seq(S) /\ ss[1] \in Seq(S)
        BY <1>0, <2>1
      <3>4. k # 0 => f[k] \in Seq(S) /\ f[k] \o ss[k + 1] \in Seq(S)
        BY <3>2, <3>3
      <3>5. g \in [1..(k + 1) -> Seq(S)]
        BY <3>2, <3>3, <3>4
      <3>6. ASSUME NEW i \in 1..(k + 1)
            PROVE  g[i] = IF i = 1 THEN ss[i] ELSE g[i - 1] \o ss[i]
        <4>1. CASE i <= k
          <5>1. i \in 1..k /\ (i # 1 => i - 1 \in 1..k)
            BY <4>1
          <5>2. g[i] = f[i] /\ (i # 1 => g[i - 1] = f[i - 1])
            BY <5>1
          <5>3. f[i] = IF i = 1 THEN ss[i] ELSE f[i - 1] \o ss[i]
            BY <3>2, <5>1 DEF Joins
          <5> HIDE DEF g
          <5>4. QED
            BY <5>2, <5>3
        <4>2. CASE i = k + 1
          <5>1. g[i] = IF k = 0 THEN ss[1] ELSE f[k] \o ss[k + 1]
            BY <4>2
          <5>2. i # 1 => g[i - 1] = f[k]
            BY <4>2
          <5> HIDE DEF g
          <5>3. QED
            BY <4>2, <5>1, <5>2
        <4>3. QED
          BY <4>1, <4>2
      <3>7. DOMAIN g = 1..(k + 1)
        OBVIOUS
      <3> HIDE DEF g
      <3>8. Joins(g, ss, k + 1)
        BY <3>6, <3>7 DEF Joins
      <3>9. QED
        BY <3>5, <3>8
    <2> HIDE DEF Has
    <2>2. QED
      BY <1>2, <2>1
  <1>3. n \in T
    <2> HIDE DEF T
    <2>1. Nat \subseteq T
      BY <1>1, <1>2, SetInduction
    <2>2. QED
      BY <2>1
  <1>4. QED
    BY <1>3

\* ... and only one.
LEMMA JoinUnique ==
    ASSUME NEW ss, NEW tt, NEW n \in Nat,
           NEW f, NEW g, Joins(f, ss, n), Joins(g, tt, n),
           Agree(ss, tt, n)
    PROVE  Agree(f, g, n)
  <1> DEFINE T == {k \in Nat : k \in 1..n => f[k] = g[k]}
  <1>1. 0 \in T
    OBVIOUS
  <1>2. ASSUME NEW k \in Nat, k \in T
        PROVE  k + 1 \in T
    <2>1. ASSUME k + 1 \in 1..n
          PROVE  f[k + 1] = g[k + 1]
      <3>1. k # 0 => f[k] = g[k]
        BY <1>2, <2>1
      <3>2. k + 1 <= n
        BY <2>1
      <3>3. f[k + 1] = IF k = 0 THEN ss[1] ELSE f[k] \o ss[k + 1]
        BY <3>2, JoinStep
      <3>4. g[k + 1] = IF k = 0 THEN tt[1] ELSE g[k] \o tt[k + 1]
        BY <3>2, JoinStep
      <3>5. ss[k + 1] = tt[k + 1] /\ ss[1] = tt[1]
        BY <2>1 DEF Agree
      <3>6. QED
        BY <3>1, <3>3, <3>4, <3>5
    <2>2. QED
      BY <2>1
  <1>3. Nat \subseteq T
    <2> HIDE DEF T
    <2>1. QED
      BY <1>1, <1>2, SetInduction
  <1>4. QED
    BY <1>3 DEF Agree

LEMMA FlattenEmpty == FlattenSeq(<<>>) = <<>>
  BY DEF FlattenSeq

\* FlattenSeq takes the last value of that function.
LEMMA FlattenJoins ==
    ASSUME NEW S, NEW ss \in Seq(Seq(S)), ss # <<>>
    PROVE  \E f \in [1..Len(ss) -> Seq(S)] :
              Joins(f, ss, Len(ss)) /\ FlattenSeq(ss) = f[Len(ss)]
  <1> DEFINE Rec(f) == f = [i \in 1..Len(ss) |-> IF i = 1 THEN ss[i] ELSE f[i - 1] \o ss[i]]
             F == CHOOSE f : Rec(f)
  <1>0. Len(ss) \in Nat \ {0}
    OBVIOUS
  <1>1. PICK h \in [1..Len(ss) -> Seq(S)] : Joins(h, ss, Len(ss))
    <2>1. Len(ss) \in Nat /\ Len(ss) <= Len(ss)
      BY <1>0
    <2>2. QED
      BY <2>1, JoinExists
  <1>2. Rec(h)
    BY <1>1 DEF Joins
  <1>3. Rec(F)
    BY <1>2
  <1>4. FlattenSeq(ss) = F[Len(ss)]
    BY <1>0 DEF FlattenSeq
  <1>5. Joins(F, ss, Len(ss))
    <2> HIDE DEF F
    <2>1. QED
      BY <1>3 DEF Joins
  <1> HIDE DEF F
  <1>6. Agree(F, h, Len(ss))
    <2>1. Agree(ss, ss, Len(ss)) /\ Len(ss) \in Nat
      BY <1>0 DEF Agree
    <2>2. QED
      BY <1>1, <1>5, <2>1, JoinUnique
  <1>7. FlattenSeq(ss) = h[Len(ss)]
    BY <1>0, <1>4, <1>6 DEF Agree
  <1>8. QED
    BY <1>1, <1>7

LEMMA FlattenType ==
    ASSUME NEW S, NEW ss \in Seq(Seq(S))
    PROVE  FlattenSeq(ss) \in Seq(S)
  <1>1. CASE ss = <<>>
    <2>1. FlattenSeq(ss) = <<>>
      BY <1>1, FlattenEmpty
    <2>2. QED
      BY <2>1, EmptySeq
  <1>2. CASE ss # <<>>
    <2>1. PICK f \in [1..Len(ss) -> Seq(S)] : FlattenSeq(ss) = f[Len(ss)]
      BY <1>2, FlattenJoins
    <2>2. Len(ss) \in 1..Len(ss)
      BY <1>2
    <2>3. QED
      BY <2>1, <2>2
  <1>3. QED
    BY <1>1, <1>2

\* What FlattenSeq does with one more member.
LEMMA FlattenAppend ==
    ASSUME NEW S, NEW ss \in Seq(Seq(S)), NEW s \in Seq(S)
    PROVE  FlattenSeq(Append(ss, s)) = FlattenSeq(ss) \o s
  <1> DEFINE tt == Append(ss, s)
             n == Len(ss)
  <1>1. /\ n \in Nat /\ tt \in Seq(Seq(S)) /\ tt # <<>> /\ Len(tt) = n + 1
        /\ tt[n + 1] = s /\ \A i \in 1..n : ss[i] = tt[i]
    BY AppendProperties
  <1> HIDE DEF tt
  <1>2. PICK g \in [1..Len(tt) -> Seq(S)] : Joins(g, tt, Len(tt)) /\ FlattenSeq(tt) = g[Len(tt)]
    BY <1>1, FlattenJoins
  <1>3. g[n + 1] = IF n = 0 THEN tt[1] ELSE g[n] \o tt[n + 1]
    <2>1. n + 1 \in Nat /\ n + 1 <= n + 1 /\ Joins(g, tt, n + 1)
      BY <1>1, <1>2
    <2>2. QED
      BY <1>1, <2>1, JoinStep
  <1>4. CASE ss = <<>>
    <2>1. n = 0
      BY <1>4
    <2>2. FlattenSeq(tt) = s
      BY <1>1, <1>2, <1>3, <2>1
    <2>3. FlattenSeq(ss) \o s = s
      BY <1>4, FlattenEmpty
    <2>4. QED
      BY <2>2, <2>3 DEF tt
  <1>5. CASE ss # <<>>
    <2>1. n # 0 /\ n \in 1..n
      BY <1>1, <1>5
    <2>2. PICK f \in [1..n -> Seq(S)] : Joins(f, ss, n) /\ FlattenSeq(ss) = f[n]
      BY <1>5, FlattenJoins
    <2>3. Agree(f, g, n)
      <3>1. Joins(g, tt, n)
        <4>1. \A i \in 1..n : i \in 1..Len(tt)
          BY <1>1
        <4>2. QED
          BY <1>2, <4>1 DEF Joins
      <3>2. Agree(ss, tt, n) /\ n \in Nat
        BY <1>1 DEF Agree
      <3>3. QED
        BY <2>2, <3>1, <3>2, JoinUnique
    <2>4. FlattenSeq(tt) = g[n] \o s
      BY <1>1, <1>2, <1>3, <2>1
    <2>5. QED
      BY <2>1, <2>2, <2>3, <2>4 DEF tt, Agree
  <1>6. QED
    BY <1>4, <1>5

LEMMA FlattenOne ==
    ASSUME NEW S, NEW s \in Seq(S)
    PROVE  FlattenSeq(<<s>>) = s
  <1>1. <<>> \in Seq(Seq(S)) /\ Append(<<>>, s) = <<s>>
    OBVIOUS
  <1>2. FlattenSeq(Append(<<>>, s)) = FlattenSeq(<<>>) \o s
    BY <1>1, FlattenAppend
  <1>3. QED
    BY <1>1, <1>2, FlattenEmpty

\* What it does when the last member grows.
LEMMA FlattenGrow ==
    ASSUME NEW S, NEW ss \in Seq(Seq(S)), ss # <<>>, NEW s \in Seq(S)
    PROVE  FlattenSeq([ss EXCEPT ![Len(ss)] = @ \o s]) = FlattenSeq(ss) \o s
  <1> DEFINE n == Len(ss)
             last == ss[n]
             front == SubSeq(ss, 1, n - 1)
             grown == [ss EXCEPT ![n] = last \o s]
  <1>1. n \in Nat /\ n >= 1 /\ last \in Seq(S) /\ last \o s \in Seq(S)
    <2>1. n \in Nat /\ n >= 1
      BY EmptySeq
    <2>2. n \in 1..n
      BY <2>1
    <2>3. last \in Seq(S)
      BY <2>2, ElementOfSeq
    <2>4. QED
      BY <2>1, <2>3
  <1>2. front \in Seq(Seq(S)) /\ Len(front) = n - 1 /\ \A i \in 1..(n - 1) : front[i] = ss[i]
    <2>1. \A i \in 1..(n - 1) : ss[i] \in Seq(S)
      BY ElementOfSeq, <1>1
    <2>2. 1 \in Int /\ n - 1 \in Int
      BY <1>1
    <2>3. /\ front \in Seq(Seq(S))
          /\ Len(front) = IF 1 <= n - 1 THEN n - 1 - 1 + 1 ELSE 0
          /\ \A i \in 1..(n - 1 - 1 + 1) : front[i] = ss[1 + i - 1]
      BY <2>1, <2>2, SubSeqProperties
    <2> HIDE DEF front, n
    <2>4. n - 1 - 1 + 1 = n - 1 /\ (1 > n - 1 => n - 1 = 0)
      BY <1>1
    <2>5. \A i \in 1..(n - 1) : 1 + i - 1 = i
      BY <1>1
    <2>6. Len(front) = n - 1
      <3>1. CASE 1 <= n - 1
        BY <2>3, <2>4, <3>1
      <3>2. CASE 1 > n - 1
        <4>1. ~(1 <= n - 1)
          BY <1>1, <3>2
        <4>2. QED
          BY <2>3, <2>4, <3>2, <4>1
      <3>3. QED
        BY <1>1, <3>1, <3>2
    <2>7. QED
      BY <2>3, <2>4, <2>5, <2>6
  <1>3. /\ grown \in Seq(Seq(S)) /\ Len(grown) = n
        /\ \A i \in 1..n : grown[i] = IF i = n THEN last \o s ELSE ss[i]
    <2>1. n \in 1..Len(ss)
      BY <1>1
    <2> HIDE DEF last
    <2>2. QED
      BY <1>1, <2>1, ExceptSeq
  <1>4. [ss EXCEPT ![Len(ss)] = @ \o s] = grown
    OBVIOUS
  <1>5. ss[n] = last
    OBVIOUS
  <1>0. n = Len(ss)
    OBVIOUS
  <1> HIDE DEF n, front, last, grown
  <1>6. ASSUME NEW tt \in Seq(Seq(S)), NEW e \in Seq(S), Len(tt) = n, tt[n] = e,
               \A i \in 1..(n - 1) : tt[i] = ss[i]
        PROVE  FlattenSeq(tt) = FlattenSeq(front) \o e
    <2> DEFINE uu == Append(front, e)
    <2>1. /\ uu \in Seq(Seq(S)) /\ Len(uu) = n
          /\ \A i \in 1..(n - 1) : uu[i] = front[i]
          /\ uu[n] = e
      BY <1>1, <1>2, AppendProperties
    <2> HIDE DEF uu
    <2>2. \A i \in 1..n : tt[i] = uu[i]
      <3> TAKE i \in 1..n
      <3>1. i = n \/ i \in 1..(n - 1)
        BY <1>1
      <3>2. QED
        BY <1>2, <1>6, <2>1, <3>1
    <2>3. tt = uu
      BY <1>6, <2>1, <2>2, SeqEqual
    <2>4. QED
      BY <1>2, <2>3, FlattenAppend DEF uu
  <1>7. FlattenSeq(ss) = FlattenSeq(front) \o last
    BY <1>0, <1>1, <1>5, <1>6
  <1>8. FlattenSeq(grown) = FlattenSeq(front) \o (last \o s)
    <2>1. grown[n] = last \o s /\ \A i \in 1..(n - 1) : grown[i] = ss[i]
      BY <1>1, <1>3
    <2>2. QED
      BY <1>1, <1>3, <1>6, <2>1
  <1>9. FlattenSeq(front) \in Seq(S)
    BY <1>2, FlattenType
  <1>10. FlattenSeq(grown) = (FlattenSeq(front) \o last) \o s
    <2>1. (FlattenSeq(front) \o last) \o s = FlattenSeq(front) \o (last \o s)
      BY ONLY <1>1, <1>9, s \in Seq(S), ConcatAssociative
    <2>2. QED
      BY <1>8, <2>1
  <1>11. QED
    BY <1>4, <1>7, <1>10
\* The same, when the longer sequence is given by its members.
LEMMA FlattenLonger ==
    ASSUME NEW S, NEW ss \in Seq(Seq(S)), NEW tt \in Seq(Seq(S)), Len(tt) = Len(ss) + 1,
           Agree(ss, tt, Len(ss))
    PROVE  FlattenSeq(tt) = FlattenSeq(ss) \o tt[Len(tt)]
  <1> DEFINE s == tt[Len(tt)]
             uu == Append(ss, s)
  <1>1. Len(ss) \in Nat /\ Len(tt) \in 1..Len(tt)
    OBVIOUS
  <1>2. s \in Seq(S)
    BY <1>1, ElementOfSeq
  <1> HIDE DEF s
  <1>3. /\ uu \in Seq(Seq(S)) /\ Len(uu) = Len(ss) + 1
        /\ uu[Len(ss) + 1] = s /\ \A i \in 1..Len(ss) : uu[i] = ss[i]
    BY <1>2, AppendProperties
  <1> HIDE DEF uu
  <1>4. \A i \in 1..Len(tt) : tt[i] = uu[i]
    <2> TAKE i \in 1..Len(tt)
    <2>1. i \in 1..Len(ss) \/ i = Len(ss) + 1
      BY <1>1
    <2>2. QED
      BY <1>3, <2>1 DEF Agree, s
  <1>5. tt = uu
    BY <1>3, <1>4, SeqEqual
  <1>6. FlattenSeq(uu) = FlattenSeq(ss) \o s
    BY <1>2, FlattenAppend DEF uu
  <1>7. QED
    BY <1>5, <1>6 DEF s

-----------------------------------------------------------------------------
(* Slices. *)

\* The k members of s after the first a.
LEMMA SliceMeans ==
    ASSUME NEW S, NEW s \in Seq(S), NEW a \in Nat, NEW k \in Nat, a + k <= Len(s)
    PROVE  /\ SubSeq(s, a + 1, a + k) \in Seq(S)
           /\ Len(SubSeq(s, a + 1, a + k)) = k
           /\ \A j \in 1..k : SubSeq(s, a + 1, a + k)[j] = s[a + j]
  <1> DEFINE m == a + 1
             n == a + k
  <1>1. m \in Int /\ n \in Int /\ n - m + 1 = k /\ (~(m <= n) => k = 0) /\ Len(s) \in Nat
    OBVIOUS
  <1>2. \A i \in m..n : s[i] \in S
    <2> TAKE i \in m..n
    <2>1. i \in 1..Len(s)
      BY <1>1
    <2>2. QED
      BY <2>1, ElementOfSeq
  <1>3. \A j \in 1..k : m + j - 1 = a + j
    OBVIOUS
  <1> HIDE DEF m, n
  <1>4. /\ SubSeq(s, m, n) \in Seq(S)
        /\ Len(SubSeq(s, m, n)) = IF m <= n THEN n - m + 1 ELSE 0
        /\ \A j \in 1..(n - m + 1) : SubSeq(s, m, n)[j] = s[m + j - 1]
    BY <1>1, <1>2, SubSeqProperties
  <1>5. QED
    BY <1>1, <1>3, <1>4 DEF m, n

\* One member more.
LEMMA SliceGrows ==
    ASSUME NEW S, NEW s \in Seq(S), NEW k \in Nat, k < Len(s)
    PROVE  SubSeq(s, 1, k + 1) = SubSeq(s, 1, k) \o <<s[k + 1]>>
  <1> DEFINE a == SubSeq(s, 1, k)
             b == SubSeq(s, 1, k + 1)
             e == <<s[k + 1]>>
  <1>1. Len(s) \in Nat /\ k + 1 \in 1..Len(s)
    OBVIOUS
  <1>2. e \in Seq(S) /\ Len(e) = 1 /\ e[1] = s[k + 1]
    BY <1>1, ElementOfSeq
  <1>3. a \in Seq(S) /\ Len(a) = k /\ \A j \in 1..k : a[j] = s[j]
    <2>1. 0 \in Nat /\ 0 + k = k /\ 0 + 1 = 1 /\ k <= Len(s) /\ \A j \in 1..k : 0 + j = j
      BY <1>1
    <2>2. /\ SubSeq(s, 0 + 1, 0 + k) \in Seq(S) /\ Len(SubSeq(s, 0 + 1, 0 + k)) = k
          /\ \A j \in 1..k : SubSeq(s, 0 + 1, 0 + k)[j] = s[0 + j]
      BY <2>1, SliceMeans
    <2>3. QED
      BY <2>1, <2>2
  <1>4. b \in Seq(S) /\ Len(b) = k + 1 /\ \A j \in 1..(k + 1) : b[j] = s[j]
    <2>1. 0 \in Nat /\ k + 1 \in Nat /\ 0 + (k + 1) = k + 1 /\ 0 + 1 = 1 /\ k + 1 <= Len(s)
          /\ \A j \in 1..(k + 1) : 0 + j = j
      BY <1>1
    <2>2. /\ SubSeq(s, 0 + 1, 0 + (k + 1)) \in Seq(S)
          /\ Len(SubSeq(s, 0 + 1, 0 + (k + 1))) = k + 1
          /\ \A j \in 1..(k + 1) : SubSeq(s, 0 + 1, 0 + (k + 1))[j] = s[0 + j]
      BY <2>1, SliceMeans
    <2>3. QED
      BY <2>1, <2>2
  <1> DEFINE ae == a \o e
  <1> HIDE DEF a, b, e
  <1>5. /\ ae \in Seq(S) /\ Len(ae) = k + 1
        /\ \A j \in 1..(k + 1) : ae[j] = IF j <= k THEN a[j] ELSE e[j - k]
    <2>1. /\ a \o e \in Seq(S) /\ Len(a \o e) = Len(a) + Len(e)
          /\ \A j \in 1..(Len(a) + Len(e)) :
                (a \o e)[j] = IF j <= Len(a) THEN a[j] ELSE e[j - Len(a)]
      BY ONLY <1>2, <1>3, ConcatProperties
    <2>2. QED
      BY <1>2, <1>3, <2>1
  <1> HIDE DEF ae
  <1>6. \A j \in 1..(k + 1) : b[j] = ae[j]
    <2> TAKE j \in 1..(k + 1)
    <2>1. CASE j <= k
      BY <1>3, <1>4, <1>5, <2>1
    <2>2. CASE ~(j <= k)
      <3>1. j = k + 1 /\ j - k = 1
        BY <2>2
      <3>2. QED
        BY <1>2, <1>4, <1>5, <2>2, <3>1
    <2>3. QED
      BY <2>1, <2>2
  <1>7. b = ae
    BY <1>4, <1>5, <1>6, SeqEqual
  <1>8. QED
    BY <1>7 DEF a, b, e, ae

\* Sequences that begin alike.
LEMMA SliceAgree ==
    ASSUME NEW S, NEW s \in Seq(S), NEW t \in Seq(S), NEW n \in Nat,
           n <= Len(s), n <= Len(t), Agree(s, t, n)
    PROVE  SubSeq(s, 1, n) = SubSeq(t, 1, n)
  <1> DEFINE a == SubSeq(s, 1, n)
             b == SubSeq(t, 1, n)
  <1>0. 0 \in Nat /\ 0 + n = n /\ 0 + 1 = 1 /\ \A j \in 1..n : 0 + j = j
    OBVIOUS
  <1>1. a \in Seq(S) /\ Len(a) = n /\ \A j \in 1..n : a[j] = s[j]
    <2>1. /\ SubSeq(s, 0 + 1, 0 + n) \in Seq(S) /\ Len(SubSeq(s, 0 + 1, 0 + n)) = n
          /\ \A j \in 1..n : SubSeq(s, 0 + 1, 0 + n)[j] = s[0 + j]
      BY <1>0, SliceMeans
    <2>2. QED
      BY <1>0, <2>1
  <1>2. b \in Seq(S) /\ Len(b) = n /\ \A j \in 1..n : b[j] = t[j]
    <2>1. /\ SubSeq(t, 0 + 1, 0 + n) \in Seq(S) /\ Len(SubSeq(t, 0 + 1, 0 + n)) = n
          /\ \A j \in 1..n : SubSeq(t, 0 + 1, 0 + n)[j] = t[0 + j]
      BY <1>0, SliceMeans
    <2>2. QED
      BY <1>0, <2>1
  <1> HIDE DEF a, b
  <1>3. a = b
    BY <1>1, <1>2, SeqEqual DEF Agree
  <1>4. QED
    BY <1>3 DEF a, b

\* Two members more.
LEMMA ConcatPair ==
    ASSUME NEW S, NEW s \in Seq(S), NEW x \in S, NEW y \in S
    PROVE  s \o <<x, y>> = Append(Append(s, x), y)
  <1>1. <<x>> \in Seq(S) /\ <<y>> \in Seq(S) /\ <<x>> \o <<y>> = <<x, y>>
    <2> DEFINE a == <<x>>
               b == <<y>>
               c == <<x, y>>
    <2>1. a \in Seq(S) /\ Len(a) = 1 /\ a[1] = x
      OBVIOUS
    <2>2. b \in Seq(S) /\ Len(b) = 1 /\ b[1] = y
      OBVIOUS
    <2>3. c \in Seq(S) /\ Len(c) = 2 /\ c[1] = x /\ c[2] = y
      OBVIOUS
    <2> HIDE DEF a, b, c
    <2>4. /\ a \o b \in Seq(S) /\ Len(a \o b) = Len(a) + Len(b)
          /\ \A i \in 1..(Len(a) + Len(b)) :
                (a \o b)[i] = IF i <= Len(a) THEN a[i] ELSE b[i - Len(a)]
      BY ONLY <2>1, <2>2, ConcatProperties
    <2>5. Len(a \o b) = 2 /\ (a \o b)[1] = x /\ (a \o b)[2] = y
      BY <2>1, <2>2, <2>4
    <2>6. \A i \in 1..2 : (a \o b)[i] = c[i]
      BY <2>3, <2>5
    <2>7. a \o b = c
      BY <2>3, <2>4, <2>5, <2>6, SeqEqual
    <2>8. QED
      BY <2>1, <2>2, <2>7 DEF a, b, c
  <1>2. Append(s, x) = s \o <<x>> /\ Append(s, x) \in Seq(S)
    BY AppendIsConcat, AppendProperties
  <1>3. Append(Append(s, x), y) = Append(s, x) \o <<y>>
    BY <1>2, AppendIsConcat
  <1>4. (s \o <<x>>) \o <<y>> = s \o (<<x>> \o <<y>>)
    BY ONLY <1>1, s \in Seq(S), ConcatAssociative
  <1>5. QED
    BY <1>1, <1>2, <1>3, <1>4

-----------------------------------------------------------------------------
(* IsSuffix, by positions. *)

LEMMA PrefixMeans ==
    ASSUME NEW S, NEW s \in Seq(S), NEW t \in Seq(S)
    PROVE  IsPrefix(s, t) <=> Len(s) <= Len(t) /\ \A i \in 1..Len(s) : s[i] = t[i]
  <1>1. Len(s) \in Nat /\ Len(t) \in Nat
    OBVIOUS
  <1>2. SubSeq(s, 1, Len(s)) = s
    BY SubSeqFull
  <1>3. ASSUME Len(s) <= Len(t)
        PROVE  s = SubSeq(t, 1, Len(s)) <=> \A i \in 1..Len(s) : s[i] = t[i]
    <2> DEFINE u == SubSeq(t, 1, Len(s))
    <2>1. u \in Seq(S) /\ Len(u) = Len(s) /\ \A i \in 1..Len(s) : u[i] = t[i]
      <3>1. \A i \in 1..Len(s) : t[i] \in S
        BY <1>1, <1>3
      <3>2. QED
        BY <1>1, <1>3, <3>1
    <2> HIDE DEF u
    <2>2. s = u <=> \A i \in 1..Len(s) : s[i] = u[i]
      BY <2>1, SeqEqual
    <2>3. QED
      BY <2>1, <2>2 DEF u
  <1>4. QED
    BY <1>1, <1>2, <1>3 DEF IsPrefix

LEMMA ReverseType ==
    ASSUME NEW S, NEW s \in Seq(S)
    PROVE  /\ Reverse(s) \in Seq(S) /\ Len(Reverse(s)) = Len(s)
           /\ \A i \in 1..Len(s) : Reverse(s)[i] = s[Len(s) - i + 1]
  <1>1. Len(s) \in Nat /\ \A i \in 1..Len(s) : s[(Len(s) - i) + 1] \in S
    OBVIOUS
  <1>2. QED
    BY <1>1 DEF Reverse

LEMMA SuffixMeans ==
    ASSUME NEW S, NEW s \in Seq(S), NEW t \in Seq(S)
    PROVE  IsSuffix(s, t) <=> /\ Len(s) <= Len(t)
                              /\ \A i \in 1..Len(s) : s[i] = t[Len(t) - Len(s) + i]
  <1> DEFINE r == Reverse(s)
             q == Reverse(t)
  <1>0. Len(s) \in Nat /\ Len(t) \in Nat
    OBVIOUS
  <1>1. /\ r \in Seq(S) /\ Len(r) = Len(s)
        /\ \A i \in 1..Len(s) : r[i] = s[Len(s) - i + 1]
    BY ReverseType
  <1>2. /\ q \in Seq(S) /\ Len(q) = Len(t)
        /\ \A i \in 1..Len(t) : q[i] = t[Len(t) - i + 1]
    BY ReverseType
  <1> HIDE DEF r, q
  <1>3. IsSuffix(s, t) <=> Len(s) <= Len(t) /\ \A i \in 1..Len(s) : r[i] = q[i]
    BY <1>1, <1>2, PrefixMeans DEF IsSuffix, r, q
  <1>4. ASSUME Len(s) <= Len(t)
        PROVE  (\A i \in 1..Len(s) : r[i] = q[i]) <=>
               (\A i \in 1..Len(s) : s[i] = t[Len(t) - Len(s) + i])
    <2>1. ASSUME \A i \in 1..Len(s) : r[i] = q[i], NEW i \in 1..Len(s)
          PROVE  s[i] = t[Len(t) - Len(s) + i]
      <3>1. PICK j \in 1..Len(s) : j = Len(s) - i + 1
        <4>1. Len(s) - i + 1 \in 1..Len(s)
          BY <1>0
        <4>2. QED
          BY <4>1
      <3>2. r[j] = s[Len(s) - j + 1] /\ q[j] = t[Len(t) - j + 1] /\ r[j] = q[j]
        BY <1>0, <1>1, <1>2, <1>4, <2>1
      <3>3. Len(s) - j + 1 = i /\ Len(t) - j + 1 = Len(t) - Len(s) + i
        BY <1>0, <3>1
      <3>4. QED
        BY <3>2, <3>3
    <2>2. ASSUME \A i \in 1..Len(s) : s[i] = t[Len(t) - Len(s) + i], NEW j \in 1..Len(s)
          PROVE  r[j] = q[j]
      <3>1. PICK i \in 1..Len(s) : i = Len(s) - j + 1
        <4>1. Len(s) - j + 1 \in 1..Len(s)
          BY <1>0
        <4>2. QED
          BY <4>1
      <3>2. r[j] = s[Len(s) - j + 1] /\ q[j] = t[Len(t) - j + 1]
        BY <1>0, <1>1, <1>2, <1>4
      <3>3. s[i] = t[Len(t) - Len(s) + i]
        BY <2>2
      <3>4. Len(s) - j + 1 = i /\ Len(t) - j + 1 = Len(t) - Len(s) + i
        BY <1>0, <3>1
      <3>5. QED
        BY <3>2, <3>3, <3>4
    <2>3. QED
      BY <2>1, <2>2
  <1>5. QED
    BY <1>3, <1>4

\* Every sequence ends with nothing, and what ends with s still does when both grow.
LEMMA SuffixGrows ==
    ASSUME NEW S, NEW s \in Seq(S), NEW t \in Seq(S), NEW e \in Seq(S), IsSuffix(s, t)
    PROVE  IsSuffix(s \o e, t \o e)
  <1>1. /\ Len(s) \in Nat /\ Len(t) \in Nat /\ Len(e) \in Nat
        /\ Len(s) <= Len(t) /\ \A i \in 1..Len(s) : s[i] = t[Len(t) - Len(s) + i]
    BY SuffixMeans
  <1> DEFINE se == s \o e
             te == t \o e
  <1>2. /\ se \in Seq(S) /\ Len(se) = Len(s) + Len(e)
        /\ \A i \in 1..(Len(s) + Len(e)) : se[i] = IF i <= Len(s) THEN s[i] ELSE e[i - Len(s)]
    BY ConcatProperties
  <1>3. /\ te \in Seq(S) /\ Len(te) = Len(t) + Len(e)
        /\ \A i \in 1..(Len(t) + Len(e)) : te[i] = IF i <= Len(t) THEN t[i] ELSE e[i - Len(t)]
    BY ConcatProperties
  <1> HIDE DEF se, te
  <1>4. Len(se) <= Len(te)
    BY <1>1, <1>2, <1>3
  <1>5. ASSUME NEW i \in 1..Len(se)
        PROVE  se[i] = te[Len(te) - Len(se) + i]
    <2>1. PICK j \in 1..(Len(t) + Len(e)) : j = Len(t) - Len(s) + i
      <3>1. Len(t) - Len(s) + i \in 1..(Len(t) + Len(e))
        BY <1>1, <1>2
      <3>2. QED
        BY <3>1
    <2>2. Len(te) - Len(se) + i = j
      BY <1>1, <1>2, <1>3, <2>1
    <2>3. CASE i <= Len(s)
      <3>1. i \in 1..Len(s) /\ j <= Len(t)
        BY <1>1, <1>2, <2>1, <2>3
      <3>2. se[i] = s[i] /\ te[j] = t[j] /\ s[i] = t[j]
        BY <1>1, <1>2, <1>3, <2>1, <3>1, SMTT(30)
      <3>3. QED
        BY <2>2, <3>2
    <2>4. CASE ~(i <= Len(s))
      <3>1. ~(j <= Len(t)) /\ i - Len(s) = j - Len(t)
        BY <1>1, <1>2, <2>1, <2>4
      <3>2. se[i] = e[i - Len(s)] /\ te[j] = e[j - Len(t)]
        BY <1>2, <1>3, <2>4, <3>1
      <3>3. QED
        BY <2>2, <3>1, <3>2
    <2>5. QED
      BY <2>3, <2>4
  <1>6. IsSuffix(se, te)
    BY <1>2, <1>3, <1>4, <1>5, SuffixMeans
  <1>7. QED
    BY <1>6 DEF se, te

LEMMA SuffixEmpty ==
    ASSUME NEW S, NEW t \in Seq(S)
    PROVE  IsSuffix(<<>>, t)
  <1>1. <<>> \in Seq(S) /\ Len(<<>>) = 0
    OBVIOUS
  <1>2. Len(<<>>) <= Len(t) /\ \A i \in 1..Len(<<>>) : <<>>[i] = t[Len(t) - Len(<<>>) + i]
    <2>1. Len(t) \in Nat
      OBVIOUS
    <2>2. QED
      BY <1>1, <2>1
  <1>3. QED
    BY <1>1, <1>2, SuffixMeans

-----------------------------------------------------------------------------
(* Folds over finite sets, for an operation given as a function a with the      *)
(* neutral element e.  h[z] is the fold of the members of f at z.               *)

Gathers(h, a, e, f, D) ==
    \A z \in SUBSET D :
        h[z] = IF z = {} THEN e
               ELSE LET x == CHOOSE x \in z : TRUE IN a[<<f[x], h[z \ {x}]>>]

LEMMA RemoveOne ==
    ASSUME NEW D, IsFiniteSet(D), NEW z \in SUBSET D, NEW x \in z
    PROVE  /\ z \ {x} \in SUBSET D
           /\ Cardinality(z) \in Nat
           /\ Cardinality(z \ {x}) = Cardinality(z) - 1
  <1>1. IsFiniteSet(z)
    BY FS_Subset
  <1>2. Cardinality(z) \in Nat
    BY <1>1, FS_CardinalityType
  <1>3. Cardinality(z \ {x}) = Cardinality(z) - 1
    BY <1>1, FS_RemoveElement
  <1>4. QED
    BY <1>2, <1>3

\* There is such a fold.
LEMMA GatherExists ==
    ASSUME NEW D, IsFiniteSet(D), NEW V, NEW a \in [V \X V -> V], NEW e \in V, NEW f \in [D -> V]
    PROVE  \E h \in [SUBSET D -> V] : Gathers(h, a, e, f, D)
  <1> DEFINE R(h, z) == IF z = {} THEN e
                        ELSE LET x == CHOOSE x \in z : TRUE IN a[<<f[x], h[z \ {x}]>>]
             Has(n) == \E h \in [SUBSET D -> V] :
                         \A z \in SUBSET D : Cardinality(z) <= n => h[z] = R(h, z)
             T == {n \in Nat : Has(n)}
  <1>1. \A z \in SUBSET D : IsFiniteSet(z) /\ Cardinality(z) \in Nat /\ Cardinality(z) <= Cardinality(D)
    BY FS_Subset, FS_CardinalityType
  <1>2. \A z \in SUBSET D : z # {} => (CHOOSE x \in z : TRUE) \in z
    OBVIOUS
  <1>3. 0 \in T
    <2> DEFINE h == [z \in SUBSET D |-> e]
    <2>1. h \in [SUBSET D -> V]
      OBVIOUS
    <2>2. \A z \in SUBSET D : Cardinality(z) <= 0 => z = {}
      BY <1>1, FS_EmptySet
    <2>3. \A z \in SUBSET D : Cardinality(z) <= 0 => h[z] = R(h, z)
      BY <2>2
    <2> HIDE DEF h, R
    <2>4. Has(0)
      BY <2>1, <2>3
    <2> HIDE DEF Has
    <2>5. QED
      BY <2>4
  <1>4. ASSUME NEW n \in Nat, n \in T
        PROVE  n + 1 \in T
    <2>1. PICK h \in [SUBSET D -> V] : \A z \in SUBSET D : Cardinality(z) <= n => h[z] = R(h, z)
      BY <1>4
    <2> DEFINE g == [z \in SUBSET D |-> R(h, z)]
    <2>2. \A z \in SUBSET D : R(h, z) \in V
      BY <1>2
    <2>3. g \in [SUBSET D -> V]
      BY <2>2
    <2>4. ASSUME NEW z \in SUBSET D, Cardinality(z) <= n + 1
          PROVE  g[z] = R(g, z)
      <3>1. CASE z = {}
        BY <3>1
      <3>2. CASE z # {}
        <4> DEFINE x == CHOOSE x \in z : TRUE
                   y == z \ {x}
        <4>1. x \in z /\ y \in SUBSET D
          BY <3>2
        <4>2. Cardinality(y) <= n
          <5> HIDE DEF x
          <5>1. QED
            BY <2>4, <4>1, RemoveOne
        <4>3. h[y] = R(h, y)
          BY <2>1, <4>1, <4>2
        <4>4. g[y] = R(h, y)
          BY <4>1
        <4>5. R(h, z) = a[<<f[x], h[y]>>] /\ R(g, z) = a[<<f[x], g[y]>>]
          BY <3>2
        <4>6. g[z] = R(h, z)
          OBVIOUS
        <4> HIDE DEF g, R
        <4>7. QED
          BY <4>3, <4>4, <4>5, <4>6
      <3>3. QED
        BY <3>1, <3>2
    <2> HIDE DEF g, R
    <2>5. Has(n + 1)
      BY <2>3, <2>4
    <2> HIDE DEF Has
    <2>6. QED
      BY <2>5
  <1>5. Cardinality(D) \in T
    <2> HIDE DEF T
    <2>1. Nat \subseteq T
      BY <1>3, <1>4, SetInduction
    <2>2. QED
      BY <1>1, <2>1
  <1>6. PICK h \in [SUBSET D -> V] : \A z \in SUBSET D : Cardinality(z) <= Cardinality(D) => h[z] = R(h, z)
    BY <1>5
  <1>7. \A z \in SUBSET D : h[z] = R(h, z)
    BY <1>1, <1>6
  <1>8. Gathers(h, a, e, f, D)
    BY <1>7 DEF Gathers
  <1>9. QED
    BY <1>8

\* Two of them agree where what they fold does.
LEMMA GatherAgree ==
    ASSUME NEW D, IsFiniteSet(D), NEW a, NEW e, NEW f, NEW h, Gathers(h, a, e, f, D),
           NEW E, NEW g, NEW k, Gathers(k, a, e, g, E),
           D \subseteq E, \A x \in D : f[x] = g[x]
    PROVE  h[D] = k[D]
  <1> DEFINE T == {n \in Nat : \A z \in SUBSET D : Cardinality(z) = n => h[z] = k[z]}
  <1>1. \A z \in SUBSET D : IsFiniteSet(z) /\ Cardinality(z) \in Nat
    BY FS_Subset, FS_CardinalityType
  <1>2. 0 \in T
    <2>1. \A z \in SUBSET D : Cardinality(z) = 0 => z = {}
      BY <1>1, FS_EmptySet
    <2>2. h[{}] = e /\ k[{}] = e
      BY DEF Gathers
    <2>3. QED
      BY <2>1, <2>2
  <1>3. ASSUME NEW n \in Nat, n \in T
        PROVE  n + 1 \in T
    <2>1. ASSUME NEW z \in SUBSET D, Cardinality(z) = n + 1
          PROVE  h[z] = k[z]
      <3>1. z # {}
        BY <2>1, FS_EmptySet
      <3> DEFINE x == CHOOSE x \in z : TRUE
                 y == z \ {x}
      <3>2. x \in z
        BY <3>1
      <3>8. y \in SUBSET D /\ Cardinality(y) = n
        <4> HIDE DEF x
        <4>1. QED
          BY <2>1, <3>2, RemoveOne
      <3>3. h[y] = k[y]
        BY <1>3, <3>8
      <3>4. h[z] = a[<<f[x], h[y]>>]
        BY <3>1 DEF Gathers
      <3>5. k[z] = a[<<g[x], k[y]>>]
        BY <3>1 DEF Gathers
      <3>6. f[x] = g[x]
        BY <3>2
      <3> HIDE DEF x, y
      <3>7. QED
        BY <3>3, <3>4, <3>5, <3>6
    <2>2. QED
      BY <2>1
  <1>4. Cardinality(D) \in T
    <2> HIDE DEF T
    <2>1. Nat \subseteq T
      BY <1>2, <1>3, SetInduction
    <2>2. QED
      BY <1>1, <2>1
  <1>5. QED
    BY <1>4

\* The order does not matter.
Commutes(a, V) ==
    /\ \A x, y \in V : a[<<x, y>>] = a[<<y, x>>]
    /\ \A x, y, z \in V : a[<<x, a[<<y, z>>]>>] = a[<<a[<<x, y>>], z>>]

TakesLast(h, a, f, D, x) == h[D] = a[<<f[x], h[D \ {x}]>>]

\* Then any member may come last.
LEMMA GatherAny ==
    ASSUME NEW D, IsFiniteSet(D), NEW V, NEW a, NEW e, NEW f \in [D -> V],
           Commutes(a, V),
           NEW h \in [SUBSET D -> V], Gathers(h, a, e, f, D),
           NEW x \in D
    PROVE  TakesLast(h, a, f, D, x)
  <1> DEFINE Swaps(z) == \A u \in z : h[z] = a[<<f[u], h[z \ {u}]>>]
             T == {n \in Nat : \A z \in SUBSET D : Cardinality(z) = n => Swaps(z)}
  <1>1. \A z \in SUBSET D : IsFiniteSet(z) /\ Cardinality(z) \in Nat
    BY FS_Subset, FS_CardinalityType
  <1>2. 0 \in T
    <2>1. \A z \in SUBSET D : Cardinality(z) = 0 => z = {}
      BY <1>1, FS_EmptySet
    <2>2. QED
      BY <2>1
  <1>3. ASSUME NEW n \in Nat, n \in T
        PROVE  n + 1 \in T
    <2>1. ASSUME NEW z \in SUBSET D, Cardinality(z) = n + 1, NEW u \in z
          PROVE  h[z] = a[<<f[u], h[z \ {u}]>>]
      <3> DEFINE c == CHOOSE c \in z : TRUE
                 w == (z \ {c}) \ {u}
      <3>1. c \in z
        OBVIOUS
      <3>2. h[z] = a[<<f[c], h[z \ {c}]>>]
        BY DEF Gathers
      <3> HIDE DEF c
      <3>3. CASE u = c
        BY <3>2, <3>3
      <3>4. CASE u # c
        <4>1. z \ {c} \in SUBSET D /\ z \ {u} \in SUBSET D /\ w \in SUBSET D
              /\ u \in z \ {c} /\ c \in z \ {u} /\ w = (z \ {u}) \ {c}
          BY <3>1, <3>4
        <4>2. Cardinality(z \ {c}) = n /\ Cardinality(z \ {u}) = n
          BY <2>1, <3>1, RemoveOne
        <4>3. Swaps(z \ {c}) /\ Swaps(z \ {u})
          BY <1>3, <4>1, <4>2
        <4>4. h[z \ {c}] = a[<<f[u], h[w]>>] /\ h[z \ {u}] = a[<<f[c], h[w]>>]
          <5>1. h[z \ {c}] = a[<<f[u], h[(z \ {c}) \ {u}]>>]
            BY <4>1, <4>3
          <5>2. h[z \ {u}] = a[<<f[c], h[(z \ {u}) \ {c}]>>]
            BY <4>1, <4>3
          <5> HIDE DEF Swaps
          <5>3. QED
            BY <4>1, <5>1, <5>2
        <4>5. f[u] \in V /\ f[c] \in V /\ h[w] \in V
          BY <3>1, <4>1
        <4> HIDE DEF w
        <4>6. a[<<f[c], a[<<f[u], h[w]>>]>>] = a[<<a[<<f[c], f[u]>>], h[w]>>]
              /\ a[<<f[u], a[<<f[c], h[w]>>]>>] = a[<<a[<<f[u], f[c]>>], h[w]>>]
              /\ a[<<f[c], f[u]>>] = a[<<f[u], f[c]>>]
          BY <4>5 DEF Commutes
        <4>7. QED
          BY <3>2, <4>4, <4>6
      <3>5. QED
        BY <3>3, <3>4
    <2>2. QED
      BY <2>1
  <1>4. Cardinality(D) \in T
    <2> HIDE DEF T
    <2>1. Nat \subseteq T
      BY <1>2, <1>3, SetInduction
    <2>2. QED
      BY <1>1, <2>1
  <1>5. h[D] = a[<<f[x], h[D \ {x}]>>]
    BY <1>4
  <1>6. QED
    BY <1>5 DEF TakesLast

-----------------------------------------------------------------------------
(* Quotients, remainders and sums. *)

LEMMA DivModMeans ==
    ASSUME NEW n \in Nat, NEW d \in Nat, d > 0
    PROVE  n \div d \in Nat /\ n % d \in 0..(d - 1) /\ n = d * (n \div d) + (n % d)
  <1>1. n \div d \in Int
    OBVIOUS
  <1>2. n % d \in 0..(d - 1)
    OBVIOUS
  <1>3. n = d * (n \div d) + (n % d)
    OBVIOUS
  <1>4. n \div d \in Nat
    <2> DEFINE q == n \div d
               r == n % d
    <2>1. q \in Int /\ r \in 0..(d - 1) /\ n = d * q + r
      BY <1>1, <1>2, <1>3
    <2> HIDE DEF q, r
    <2>2. q < 0 => d * q <= 0 - d
      BY <2>1
    <2>3. q >= 0
      BY <2>1, <2>2
    <2>4. QED
      BY <2>1, <2>3 DEF q
  <1>5. QED
    BY <1>2, <1>3, <1>4

LEMMA DivModUnique ==
    ASSUME NEW n \in Nat, NEW d \in Nat, NEW q \in Nat, NEW r \in Nat, n = d * q + r, r < d
    PROVE  n \div d = q /\ n % d = r
  OBVIOUS

Plus == [p \in Nat \X Nat |-> p[1] + p[2]]

LEMMA PlusFacts ==
    /\ Plus \in [Nat \X Nat -> Nat]
    /\ \A x, y \in Nat : Plus[<<x, y>>] = x + y
  <1>1. \A p \in Nat \X Nat : p[1] + p[2] \in Nat
    OBVIOUS
  <1>2. QED
    BY <1>1 DEF Plus

LEMMA PlusCommutes == Commutes(Plus, Nat)
  <1>1. ASSUME NEW x \in Nat, NEW y \in Nat
        PROVE  Plus[<<x, y>>] = Plus[<<y, x>>]
    <2>1. Plus[<<x, y>>] = x + y /\ Plus[<<y, x>>] = y + x
      BY PlusFacts
    <2>2. QED
      BY <2>1
  <1>2. ASSUME NEW x \in Nat, NEW y \in Nat, NEW z \in Nat
        PROVE  Plus[<<x, Plus[<<y, z>>]>>] = Plus[<<Plus[<<x, y>>], z>>]
    <2>1. y + z \in Nat /\ x + y \in Nat
      OBVIOUS
    <2>2. Plus[<<y, z>>] = y + z /\ Plus[<<x, y>>] = x + y
      BY PlusFacts
    <2>3. Plus[<<x, y + z>>] = x + (y + z) /\ Plus[<<x + y, z>>] = (x + y) + z
      BY <2>1, PlusFacts
    <2>4. QED
      BY <2>2, <2>3
  <1>3. QED
    BY <1>1, <1>2 DEF Commutes

LEMMA SumMeans ==
    ASSUME NEW D, IsFiniteSet(D), NEW f \in [D -> Nat]
    PROVE  \E h \in [SUBSET D -> Nat] : Gathers(h, Plus, 0, f, D) /\ SumFunction(f) = h[D]
  <1> DEFINE Rec(g) == g = [z \in SUBSET D |->
                             IF z = {} THEN 0 ELSE LET x == CHOOSE x \in z : TRUE IN f[x] + g[z \ {x}]]
             F == CHOOSE g : Rec(g)
  <1>1. PICK h \in [SUBSET D -> Nat] : Gathers(h, Plus, 0, f, D)
    <2>1. 0 \in Nat
      OBVIOUS
    <2>2. QED
      BY <2>1, PlusFacts, GatherExists
  <1>2. \A z \in SUBSET D : z # {} => LET x == CHOOSE x \in z : TRUE
                                     IN  /\ x \in z /\ z \ {x} \in SUBSET D
                                         /\ Plus[<<f[x], h[z \ {x}]>>] = f[x] + h[z \ {x}]
    BY PlusFacts
  <1>3. Rec(h)
    <2>1. \A z \in SUBSET D : h[z] = IF z = {} THEN 0
                                     ELSE LET x == CHOOSE x \in z : TRUE IN f[x] + h[z \ {x}]
      BY <1>1, <1>2 DEF Gathers
    <2>2. QED
      BY <2>1
  <1>4. Rec(F)
    BY <1>3
  <1>5. SumFunction(f) = F[D]
    BY DEF SumFunction, SumFunctionOnSet, FoldFunctionOnSet, MapThenFoldSet
  <1> HIDE DEF F
  <1>6. F[D] = h[D]
    <2> DEFINE G == [z \in SUBSET D |-> F[z]]
    <2>1. \A z \in SUBSET D : F[z] = IF z = {} THEN 0
                                     ELSE LET x == CHOOSE x \in z : TRUE IN f[x] + F[z \ {x}]
      BY <1>4
    <2> DEFINE T == {n \in Nat : \A z \in SUBSET D : Cardinality(z) = n => F[z] = h[z]}
    <2>2. \A z \in SUBSET D : IsFiniteSet(z) /\ Cardinality(z) \in Nat
      BY FS_Subset, FS_CardinalityType
    <2>3. \A z \in SUBSET D : h[z] = IF z = {} THEN 0
                                     ELSE LET x == CHOOSE x \in z : TRUE IN f[x] + h[z \ {x}]
      BY <1>3
    <2>4. 0 \in T
      <3>1. \A z \in SUBSET D : Cardinality(z) = 0 => z = {}
        BY <2>2, FS_EmptySet
      <3>2. QED
        BY <2>1, <2>3, <3>1
    <2>5. ASSUME NEW n \in Nat, n \in T
          PROVE  n + 1 \in T
      <3>1. ASSUME NEW z \in SUBSET D, Cardinality(z) = n + 1
            PROVE  F[z] = h[z]
        <4>1. z # {}
          <5>1. Cardinality(z) # 0
            BY <3>1
          <5>2. QED
            BY <5>1, FS_EmptySet
        <4> DEFINE x == CHOOSE x \in z : TRUE
        <4>2. x \in z
          BY <4>1
        <4>3. F[z] = f[x] + F[z \ {x}] /\ h[z] = f[x] + h[z \ {x}]
          BY <2>1, <2>3, <4>1
        <4> HIDE DEF x
        <4>4. z \ {x} \in SUBSET D /\ Cardinality(z \ {x}) = n
          BY <3>1, <4>2, RemoveOne
        <4>5. F[z \ {x}] = h[z \ {x}]
          BY <2>5, <4>4
        <4>6. QED
          BY <4>3, <4>5
      <3>2. QED
        BY <3>1
    <2>6. Cardinality(D) \in T
      <3> HIDE DEF T
      <3>1. Nat \subseteq T
        BY <2>4, <2>5, SetInduction
      <3>2. QED
        BY <2>2, <3>1
    <2>7. QED
      BY <2>6
  <1>7. QED
    BY <1>1, <1>5, <1>6

LEMMA SumNone == ASSUME NEW f \in [{} -> Nat] PROVE SumFunction(f) = 0
  <1>1. PICK h \in [SUBSET {} -> Nat] : Gathers(h, Plus, 0, f, {}) /\ SumFunction(f) = h[{}]
    BY FS_EmptySet, SumMeans
  <1>2. QED
    BY <1>1 DEF Gathers

LEMMA SumGrows ==
    ASSUME NEW n \in Nat, NEW f \in [1..(n + 1) -> Nat]
    PROVE  /\ [k \in 1..n |-> f[k]] \in [1..n -> Nat]
           /\ SumFunction(f) = SumFunction([k \in 1..n |-> f[k]]) + f[n + 1]
           /\ SumFunction(f) \in Nat
  <1> DEFINE D == 1..n
             E == 1..(n + 1)
             g == [k \in 1..n |-> f[k]]
  <1>0. D \subseteq E /\ n + 1 \in E /\ E \ {n + 1} = D /\ IsFiniteSet(D) /\ IsFiniteSet(E)
        /\ D \in SUBSET E /\ E \in SUBSET E
    <2>1. IsFiniteSet(D) /\ IsFiniteSet(E)
      BY FS_Interval
    <2>2. QED
      BY <2>1
  <1>1. g \in [D -> Nat]
    OBVIOUS
  <1>10. \A k \in D : f[k] = g[k] /\ g[k] = f[k]
    OBVIOUS
  <1> HIDE DEF D, E, g
  <1>2. f \in [E -> Nat]
    BY DEF E
  <1>3. PICK h \in [SUBSET E -> Nat] : Gathers(h, Plus, 0, f, E) /\ SumFunction(f) = h[E]
    BY <1>0, <1>2, SumMeans
  <1>4. PICK k \in [SUBSET D -> Nat] : Gathers(k, Plus, 0, g, D) /\ SumFunction(g) = k[D]
    BY <1>0, <1>1, SumMeans
  <1>5. k[D] = h[D]
    <2>1. IsFiniteSet(D) /\ IsFiniteSet(E) /\ D \subseteq E /\ \A x \in D : g[x] = f[x]
      BY <1>0, <1>10
    <2>2. Gathers(k, Plus, 0, g, D) /\ Gathers(h, Plus, 0, f, E)
      BY <1>3, <1>4
    <2>3. QED
      BY ONLY <2>1, <2>2, GatherAgree
  <1>6. h[E] = Plus[<<f[n + 1], h[E \ {n + 1}]>>]
    <2>1. IsFiniteSet(E) /\ n + 1 \in E /\ 0 \in Nat
      BY <1>0
    <2>2. TakesLast(h, Plus, f, E, n + 1)
      BY <1>2, <1>3, <2>1, PlusCommutes, GatherAny
    <2>3. QED
      BY <2>2 DEF TakesLast
  <1>7. f[n + 1] \in Nat /\ h[D] \in Nat /\ h[E] \in Nat
    BY <1>0, <1>2
  <1>8. h[E] = f[n + 1] + h[D]
    BY <1>0, <1>6, <1>7, PlusFacts
  <1>9. QED
    <2>1. SumFunction(f) = SumFunction(g) + f[n + 1] /\ SumFunction(f) \in Nat
      BY <1>3, <1>4, <1>5, <1>7, <1>8
    <2>2. QED
      BY <1>1, <2>1 DEF g, D

-----------------------------------------------------------------------------
(* Sequences piece by piece. *)

LEMMA ConsMeans ==
    ASSUME NEW S, NEW c \in S, NEW r \in Seq(S)
    PROVE  /\ <<c>> \o r \in Seq(S)
           /\ Len(<<c>> \o r) = Len(r) + 1
           /\ (<<c>> \o r)[1] = c
           /\ \A j \in 1..Len(r) : (<<c>> \o r)[j + 1] = r[j]
  <1>1. <<c>> \in Seq(S) /\ Len(<<c>>) = 1 /\ <<c>>[1] = c
    OBVIOUS
  <1>2. Len(r) \in Nat
    OBVIOUS
  <1> DEFINE s == <<c>>
  <1>3. s \in Seq(S) /\ Len(s) = 1 /\ s[1] = c
    BY <1>1
  <1> HIDE DEF s
  <1>4. /\ s \o r \in Seq(S)
        /\ Len(s \o r) = Len(s) + Len(r)
        /\ \A i \in 1..(Len(s) + Len(r)) : (s \o r)[i] = IF i <= Len(s) THEN s[i] ELSE r[i - Len(s)]
    BY <1>3, ConcatProperties
  <1>5. QED
    BY <1>2, <1>3, <1>4 DEF s

\* What follows a prefix.
LEMMA DropPrefix ==
    ASSUME NEW S, NEW s \in Seq(S), NEW r \in Seq(S)
    PROVE  SubSeq(s \o r, Len(s) + 1, Len(s \o r)) = r
  <1>1. /\ s \o r \in Seq(S)
        /\ Len(s \o r) = Len(s) + Len(r)
        /\ \A i \in 1..(Len(s) + Len(r)) : (s \o r)[i] = IF i <= Len(s) THEN s[i] ELSE r[i - Len(s)]
        /\ Len(s) \in Nat /\ Len(r) \in Nat
    BY ConcatProperties
  <1> DEFINE t == s \o r
             u == SubSeq(t, Len(s) + 1, Len(s) + Len(r))
  <1>2. /\ u \in Seq(S) /\ Len(u) = Len(r)
        /\ \A j \in 1..Len(r) : u[j] = t[Len(s) + j]
    <2> HIDE DEF t
    <2>1. t \in Seq(S) /\ Len(t) = Len(s) + Len(r)
      BY <1>1 DEF t
    <2>2. QED
      BY <1>1, <2>1, SliceMeans
  <1>3. \A j \in 1..Len(r) : u[j] = r[j]
    <2> HIDE DEF u
    <2>1. \A j \in 1..Len(r) : t[Len(s) + j] = r[j]
      BY <1>1
    <2>2. QED
      BY <1>2, <2>1
  <1>4. u = r
    <2> HIDE DEF u
    <2>1. QED
      BY <1>2, <1>3, SeqEqual
  <1>5. QED
    BY <1>1, <1>4

\* Onward: what a sequence of pieces adds up to from the k-th on.
Onward(ss, k) == FlattenSeq(SubSeq(ss, k, Len(ss)))

LEMMA FlattenCons ==
    ASSUME NEW S, NEW x \in Seq(S), NEW ss \in Seq(Seq(S))
    PROVE  FlattenSeq(<<x>> \o ss) = x \o FlattenSeq(ss)
  <1>0. \A v, y \in Seq(S) : (x \o v) \o y = x \o (v \o y)
    BY ONLY x \in Seq(S), ConcatAssociative
  <1> DEFINE T == {n \in Nat : \A tt \in Seq(Seq(S)) : Len(tt) = n =>
                                  FlattenSeq(<<x>> \o tt) = x \o FlattenSeq(tt)}
  <1>1. 0 \in T
    <2> SUFFICES ASSUME NEW tt \in Seq(Seq(S)), Len(tt) = 0
                 PROVE  FlattenSeq(<<x>> \o tt) = x \o FlattenSeq(tt)
      OBVIOUS
    <2>1. tt = <<>>
      OBVIOUS
    <2>2. <<x>> \o tt = <<x>> /\ FlattenSeq(<<x>>) = x
      <3>1. <<x>> \in Seq(Seq(S))
        OBVIOUS
      <3>2. <<x>> \o <<>> = <<x>>
        BY <3>1, ConcatEmptySeq
      <3>3. QED
        BY <2>1, <3>2, FlattenOne
    <2>3. FlattenSeq(tt) = <<>>
      BY <2>1, FlattenEmpty
    <2>4. x \o <<>> = x
      BY ConcatEmptySeq
    <2>5. QED
      BY <2>2, <2>3, <2>4
  <1>2. ASSUME NEW n \in Nat, n \in T
        PROVE  n + 1 \in T
    <2>0. n + 1 \in Nat
      OBVIOUS
    <2> SUFFICES ASSUME NEW tt \in Seq(Seq(S)), Len(tt) = n + 1
                 PROVE  FlattenSeq(<<x>> \o tt) = x \o FlattenSeq(tt)
      BY <2>0, Zenon
    <2>1. PICK uu \in Seq(Seq(S)), y \in Seq(S) : tt = Append(uu, y)
      <3>1. tt # <<>>
        BY EmptySeq
      <3>2. QED
        BY <3>1, SequenceEmptyOrAppend
    <2>2. Len(uu) = n
      <3>1. Len(tt) = Len(uu) + 1 /\ Len(uu) \in Nat
        BY <2>1, AppendProperties
      <3>2. QED
        BY <3>1
    <2>3. FlattenSeq(<<x>> \o uu) = x \o FlattenSeq(uu)
      BY <1>2, <2>2
    <2>4. <<x>> \in Seq(Seq(S)) /\ <<y>> \in Seq(Seq(S)) /\ <<x>> \o uu \in Seq(Seq(S))
      <3>1. <<x>> \in Seq(Seq(S)) /\ <<y>> \in Seq(Seq(S))
        OBVIOUS
      <3>2. QED
        BY <3>1, ConcatProperties
    <2>5. <<x>> \o tt = Append(<<x>> \o uu, y)
      <3>1. tt = uu \o <<y>>
        BY <2>1, AppendIsConcat
      <3>2. <<x>> \o (uu \o <<y>>) = (<<x>> \o uu) \o <<y>>
        BY ONLY <2>4, uu \in Seq(Seq(S)), ConcatAssociative
      <3>3. (<<x>> \o uu) \o <<y>> = Append(<<x>> \o uu, y)
        BY <2>4, AppendIsConcat
      <3>4. QED
        BY <3>1, <3>2, <3>3
    <2>6. FlattenSeq(<<x>> \o tt) = FlattenSeq(<<x>> \o uu) \o y
      BY <2>4, <2>5, FlattenAppend
    <2>7. FlattenSeq(tt) = FlattenSeq(uu) \o y
      BY <2>1, FlattenAppend
    <2>8. FlattenSeq(uu) \in Seq(S)
      BY FlattenType
    <2>9. (x \o FlattenSeq(uu)) \o y = x \o (FlattenSeq(uu) \o y)
      <3> DEFINE v == FlattenSeq(uu)
      <3>1. v \in Seq(S)
        BY <2>8
      <3> HIDE DEF v
      <3>2. (x \o v) \o y = x \o (v \o y)
        BY ONLY <1>0, <3>1, y \in Seq(S)
      <3>3. QED
        BY ONLY <3>2 DEF v
    <2>10. QED
      BY <2>3, <2>6, <2>7, <2>9
  <1>3. T = Nat
    <2>1. T \subseteq Nat
      OBVIOUS
    <2> HIDE DEF T
    <2>2. QED
      BY <1>1, <1>2, <2>1, SetInduction
  <1>4. Len(ss) \in T
    <2>1. Len(ss) \in Nat
      OBVIOUS
    <2>2. QED
      BY <1>3, <2>1
  <1>5. QED
    BY <1>4

LEMMA OnwardStep ==
    ASSUME NEW S, NEW ss \in Seq(Seq(S)), NEW k \in 1..Len(ss)
    PROVE  /\ Onward(ss, k) = ss[k] \o Onward(ss, k + 1)
           /\ ss[k] \in Seq(S)
  <1> DEFINE n == Len(ss)
             tt == SubSeq(ss, k + 1, n)
             uu == SubSeq(ss, k, n)
  <1>1. n \in Nat /\ k \in 1..n /\ ss[k] \in Seq(S)
    BY ElementOfSeq
  <1>2. /\ tt \in Seq(Seq(S)) /\ Len(tt) = n - k
        /\ \A j \in 1..(n - k) : tt[j] = ss[k + j]
    <2> DEFINE d == n - k
    <2>1. k \in Nat /\ d \in Nat /\ k + d <= Len(ss) /\ k + d = n
      BY <1>1
    <2> HIDE DEF d
    <2>2. /\ SubSeq(ss, k + 1, k + d) \in Seq(Seq(S))
          /\ Len(SubSeq(ss, k + 1, k + d)) = d
          /\ \A j \in 1..d : SubSeq(ss, k + 1, k + d)[j] = ss[k + j]
      BY <2>1, SliceMeans
    <2>3. QED
      BY <2>1, <2>2 DEF d
  <1>3. /\ uu \in Seq(Seq(S)) /\ Len(uu) = n - k + 1
        /\ \A j \in 1..(n - k + 1) : uu[j] = ss[k - 1 + j]
    <2> DEFINE d == n - k + 1
               e == k - 1
    <2>1. e \in Nat /\ d \in Nat /\ e + d <= Len(ss) /\ e + d = n /\ e + 1 = k
      BY <1>1
    <2> HIDE DEF d, e
    <2>2. /\ SubSeq(ss, e + 1, e + d) \in Seq(Seq(S))
          /\ Len(SubSeq(ss, e + 1, e + d)) = d
          /\ \A j \in 1..d : SubSeq(ss, e + 1, e + d)[j] = ss[e + j]
      BY <2>1, SliceMeans
    <2>3. QED
      BY <2>1, <2>2 DEF d, e
  <1> HIDE DEF n, tt, uu
  <1>4. /\ <<ss[k]>> \o tt \in Seq(Seq(S))
        /\ Len(<<ss[k]>> \o tt) = Len(tt) + 1
        /\ (<<ss[k]>> \o tt)[1] = ss[k]
        /\ \A j \in 1..Len(tt) : (<<ss[k]>> \o tt)[j + 1] = tt[j]
    <2> DEFINE x == ss[k]
    <2> HIDE DEF x
    <2>1. x \in Seq(S) /\ tt \in Seq(Seq(S))
      BY <1>1, <1>2 DEF x
    <2>2. QED
      BY <2>1, ConsMeans DEF x
  <1>5. uu = <<ss[k]>> \o tt
    <2> DEFINE vv == <<ss[k]>> \o tt
    <2>1. vv \in Seq(Seq(S)) /\ Len(vv) = Len(uu)
      BY <1>1, <1>2, <1>3, <1>4
    <2>2. \A j \in 1..Len(uu) : uu[j] = vv[j]
      <3> TAKE j \in 1..Len(uu)
      <3>1. CASE j = 1
        BY <1>1, <1>3, <1>4, <3>1
      <3>2. CASE j # 1
        <4>1. j - 1 \in 1..Len(tt) /\ (j - 1) + 1 = j /\ k - 1 + j = k + (j - 1) /\ j \in 1..(n - k + 1)
          BY <1>1, <1>2, <1>3, <3>2
        <4>2. vv[j] = tt[j - 1]
          BY <1>4, <4>1
        <4>3. tt[j - 1] = ss[k + (j - 1)]
          BY <1>2, <4>1
        <4>4. QED
          BY <1>3, <4>1, <4>2, <4>3
      <3>3. QED
        BY <3>1, <3>2
    <2> HIDE DEF vv
    <2>3. uu = vv
      BY <1>3, <2>1, <2>2, SeqEqual
    <2>4. QED
      BY <2>3 DEF vv
  <1>6. QED
    BY <1>1, <1>2, <1>5, FlattenCons DEF Onward, tt, uu, n

LEMMA OnwardEnds ==
    ASSUME NEW S, NEW ss \in Seq(Seq(S))
    PROVE  /\ Onward(ss, Len(ss) + 1) = <<>>
           /\ Onward(ss, 1) = FlattenSeq(ss)
  <1>1. SubSeq(ss, Len(ss) + 1, Len(ss)) = <<>>
    BY SubSeqEmpty
  <1>2. SubSeq(ss, 1, Len(ss)) = ss
    BY SubSeqFull
  <1>3. QED
    BY <1>1, <1>2, FlattenEmpty DEF Onward

LEMMA OnwardType ==
    ASSUME NEW S, NEW ss \in Seq(Seq(S)), NEW k \in 1..(Len(ss) + 1)
    PROVE  Onward(ss, k) \in Seq(S)
  <1>1. SubSeq(ss, k, Len(ss)) \in Seq(Seq(S))
    <2>1. \A i \in k..Len(ss) : ss[i] \in Seq(S)
      <3> TAKE i \in k..Len(ss)
      <3>1. i \in 1..Len(ss)
        OBVIOUS
      <3>2. QED
        BY <3>1, ElementOfSeq
    <2>2. k \in Int /\ Len(ss) \in Int
      OBVIOUS
    <2>3. QED
      BY <2>1, <2>2, SubSeqProperties
  <1>2. QED
    BY <1>1, FlattenType DEF Onward

-----------------------------------------------------------------------------
(* Texts, as concatenations that the provers need not look into. *)

s ++ t == s \o t

LEMMA CatType ==
    ASSUME NEW S, NEW s \in Seq(S), NEW t \in Seq(S)
    PROVE  s ++ t \in Seq(S)
  BY ConcatProperties DEF ++

LEMMA CatAssoc ==
    ASSUME NEW S, NEW s \in Seq(S), NEW t \in Seq(S), NEW u \in Seq(S)
    PROVE  (s ++ t) ++ u = s ++ (t ++ u)
  BY ConcatAssociative DEF ++

LEMMA CatAssoc4 ==
    ASSUME NEW S, NEW s \in Seq(S), NEW t \in Seq(S), NEW u \in Seq(S), NEW v \in Seq(S)
    PROVE  ((s ++ t) ++ u) ++ v = s ++ (t ++ (u ++ v))
  <1>1. s ++ t \in Seq(S) /\ u ++ v \in Seq(S)
    BY CatType
  <1>2. ((s ++ t) ++ u) ++ v = (s ++ t) ++ (u ++ v)
    BY <1>1, CatAssoc
  <1>3. (s ++ t) ++ (u ++ v) = s ++ (t ++ (u ++ v))
    BY <1>1, CatAssoc
  <1>4. QED
    BY <1>2, <1>3

LEMMA CatNone ==
    ASSUME NEW S, NEW s \in Seq(S)
    PROVE  <<>> ++ s = s /\ s ++ <<>> = s
  BY ConcatEmptySeq DEF ++

LEMMA OneType == ASSUME NEW S, NEW c \in S PROVE <<c>> \in Seq(S)
  OBVIOUS

LEMMA ConsType ==
    ASSUME NEW S, NEW c \in S, NEW r \in Seq(S)
    PROVE  Cons(c, r) \in Seq(S)
  BY OneType, ConcatProperties DEF Cons

LEMMA ConsCat ==
    ASSUME NEW S, NEW c \in S, NEW s \in Seq(S), NEW r \in Seq(S)
    PROVE  Cons(c, s) ++ r = Cons(c, s ++ r)
  BY OneType, ConcatAssociative DEF Cons, ++

LEMMA OneCat == ASSUME NEW c, NEW r PROVE <<c>> ++ r = Cons(c, r)
  BY DEF Cons, ++

LEMMA OneCons == ASSUME NEW S, NEW c \in S PROVE <<c>> = Cons(c, <<>>)
  BY OneType, ConcatEmptySeq DEF Cons

LEMMA ConsNone ==
    ASSUME NEW S, NEW c \in S, NEW r \in Seq(S)
    PROVE  Cons(c, <<>>) ++ r = Cons(c, r)
  BY OneCons, OneCat

LEMMA OnwardCat ==
    ASSUME NEW S, NEW ss \in Seq(Seq(S)), NEW k \in 1..Len(ss)
    PROVE  Onward(ss, k) = ss[k] ++ Onward(ss, k + 1)
  BY OnwardStep DEF ++

LEMMA PairCons ==
    ASSUME NEW S, NEW a \in S, NEW b \in S
    PROVE  <<a, b>> = Cons(a, Cons(b, <<>>))
  <1>1. <<a, b>> = <<a>> \o <<b>> /\ <<a>> \in Seq(S) /\ <<b>> \in Seq(S)
    <2> DEFINE s == <<a>>
               t == <<b>>
               u == <<a, b>>
    <2>1. /\ s \in Seq(S) /\ Len(s) = 1 /\ s[1] = a
          /\ t \in Seq(S) /\ Len(t) = 1 /\ t[1] = b
          /\ u \in Seq(S) /\ Len(u) = 2 /\ u[1] = a /\ u[2] = b
      OBVIOUS
    <2> HIDE DEF s, t, u
    <2>2. /\ s \o t \in Seq(S) /\ Len(s \o t) = Len(s) + Len(t)
          /\ \A i \in 1..(Len(s) + Len(t)) : (s \o t)[i] = IF i <= Len(s) THEN s[i] ELSE t[i - Len(s)]
      BY <2>1, ConcatProperties
    <2>3. Len(s \o t) = Len(u) /\ \A i \in 1..Len(u) : u[i] = (s \o t)[i]
      BY <2>1, <2>2
    <2>4. u = s \o t
      BY <2>1, <2>2, <2>3, SeqEqual
    <2>5. QED
      BY <2>1, <2>4 DEF s, t, u
  <1>2. <<b>> \o <<>> = <<b>>
    BY <1>1, ConcatEmptySeq
  <1>3. QED
    BY <1>1, <1>2 DEF Cons
=============================================================================
