-------------------------- MODULE BootLoader_proofs --------------------------
(* Proofs about BootLoader: whatever is uploaded, stored and loaded, and        *)
(* whenever the CPU is reset, what the bootloader starts is a whole program,    *)
(* and what it loads from the flash is what was last stored there.              *)
EXTENDS BootLoader, SequenceInduction

Word == 0..(WORD - 1)
ByteVal == 0..(BYTE - 1)

-----------------------------------------------------------------------------
(* Powers. *)

IsPowers(p, b, n) == p = [k \in 0..n |-> IF k = 0 THEN 1 ELSE b * p[k - 1]]

LEMMA PowersExist ==
    ASSUME NEW b \in Nat, NEW n \in Nat
    PROVE  \E p \in [0..n -> Nat] : IsPowers(p, b, n)
  <1> DEFINE T == {m \in Nat : \E p \in [0..m -> Nat] : IsPowers(p, b, m)}
  <1>1. 0 \in T
    <2> DEFINE p == [k \in 0..0 |-> 1]
    <2>1. p \in [0..0 -> Nat] /\ IsPowers(p, b, 0)
      BY DEF IsPowers
    <2>2. QED
      BY <2>1
  <1>2. ASSUME NEW m \in Nat, m \in T
        PROVE  m + 1 \in T
    <2>1. PICK p \in [0..m -> Nat] : IsPowers(p, b, m)
      BY <1>2
    <2> DEFINE q == [k \in 0..(m + 1) |-> IF k = m + 1 THEN b * p[m] ELSE p[k]]
    <2>2. \A k \in 0..(m + 1) : q[k] = IF k = m + 1 THEN b * p[m] ELSE p[k]
      OBVIOUS
    <2>3. q \in [0..(m + 1) -> Nat]
      <3>1. \A k \in 0..m : p[k] \in Nat
        OBVIOUS
      <3>2. \A k \in 0..(m + 1) : q[k] \in Nat
        BY <3>1, <2>2
      <3>3. QED
        BY <3>2
    <2>4. \A k \in 0..m : p[k] = IF k = 0 THEN 1 ELSE b * p[k - 1]
      BY <2>1 DEF IsPowers
    <2>5. ASSUME NEW k \in 0..(m + 1)
          PROVE  q[k] = IF k = 0 THEN 1 ELSE b * q[k - 1]
      <3>1. CASE k = m + 1
        <4>1. q[k] = b * p[m] /\ q[k - 1] = p[m]
          BY <2>2, <3>1
        <4> HIDE DEF q
        <4>2. QED
          BY <3>1, <4>1
      <3>2. CASE k # m + 1
        <4>1. k \in 0..m /\ (k # 0 => k - 1 \in 0..m)
          BY <3>2
        <4>2. q[k] = p[k] /\ (k # 0 => q[k - 1] = p[k - 1])
          BY <2>2, <4>1
        <4> HIDE DEF q
        <4>3. QED
          BY <2>4, <4>1, <4>2
      <3>3. QED
        BY <3>1, <3>2
    <2>6. DOMAIN q = 0..(m + 1)
      OBVIOUS
    <2> HIDE DEF q
    <2>7. IsPowers(q, b, m + 1)
      BY <2>3, <2>5 DEF IsPowers
    <2>8. QED
      BY <2>3, <2>7
  <1>3. n \in T
    <2> HIDE DEF T
    <2>1. Nat \subseteq T
      BY <1>1, <1>2, SetInduction
    <2>2. QED
      BY <2>1
  <1>4. QED
    BY <1>3

LEMMA PowersAgree ==
    ASSUME NEW b \in Nat, NEW m \in Nat, NEW n \in Nat, m <= n,
           NEW p, IsPowers(p, b, m), NEW q, IsPowers(q, b, n)
    PROVE  p[m] = q[m]
  <1>1. \A k \in 0..m : p[k] = IF k = 0 THEN 1 ELSE b * p[k - 1]
    BY DEF IsPowers
  <1>2. \A k \in 0..n : q[k] = IF k = 0 THEN 1 ELSE b * q[k - 1]
    BY DEF IsPowers
  <1> DEFINE T == {k \in Nat : k <= m => p[k] = q[k]}
  <1>3. 0 \in T
    BY <1>1, <1>2
  <1>4. ASSUME NEW k \in Nat, k \in T
        PROVE  k + 1 \in T
    <2>1. ASSUME k + 1 <= m
          PROVE  p[k + 1] = q[k + 1]
      <3>1. p[k] = q[k] /\ k + 1 \in 0..m /\ k + 1 \in 0..n /\ k + 1 # 0 /\ (k + 1) - 1 = k
        BY <1>4, <2>1
      <3>2. p[k + 1] = b * p[k] /\ q[k + 1] = b * q[k]
        BY <1>1, <1>2, <3>1
      <3>3. QED
        BY <3>1, <3>2
    <2>2. QED
      BY <2>1
  <1>5. QED
    <2> HIDE DEF T
    <2>1. Nat \subseteq T
      BY <1>3, <1>4, SetInduction
    <2>2. QED
      BY <2>1 DEF T

LEMMA PowerMeans ==
    ASSUME NEW b \in Nat, NEW n \in Nat
    PROVE  \E p \in [0..n -> Nat] : IsPowers(p, b, n) /\ Power(b, n) = p[n]
  <1> DEFINE q == CHOOSE p : IsPowers(p, b, n)
  <1>1. PICK p \in [0..n -> Nat] : IsPowers(p, b, n)
    BY PowersExist
  <1>2. IsPowers(q, b, n)
    BY <1>1
  <1>3. Power(b, n) = q[n]
    BY DEF Power, IsPowers
  <1> HIDE DEF q
  <1>4. p[n] = q[n]
    BY <1>1, <1>2, PowersAgree
  <1>5. QED
    BY <1>1, <1>3, <1>4

LEMMA PowerType == ASSUME NEW b \in Nat, NEW n \in Nat PROVE Power(b, n) \in Nat
  <1>1. PICK p \in [0..n -> Nat] : IsPowers(p, b, n) /\ Power(b, n) = p[n]
    BY PowerMeans
  <1>2. QED
    BY <1>1

LEMMA PowerZero == ASSUME NEW b \in Nat PROVE Power(b, 0) = 1
  <1>1. 0 \in Nat
    OBVIOUS
  <1>2. PICK p \in [0..0 -> Nat] : IsPowers(p, b, 0) /\ Power(b, 0) = p[0]
    BY <1>1, PowerMeans
  <1>3. p[0] = 1
    BY <1>2 DEF IsPowers
  <1>4. QED
    BY <1>2, <1>3

LEMMA PowerNext ==
    ASSUME NEW b \in Nat, NEW n \in Nat
    PROVE  Power(b, n + 1) = b * Power(b, n)
  <1>1. PICK p \in [0..n -> Nat] : IsPowers(p, b, n) /\ Power(b, n) = p[n]
    BY PowerMeans
  <1>2. n + 1 \in Nat /\ n <= n + 1
    OBVIOUS
  <1>3. PICK q \in [0..(n + 1) -> Nat] : IsPowers(q, b, n + 1) /\ Power(b, n + 1) = q[n + 1]
    BY <1>2, PowerMeans
  <1>4. q[n + 1] = b * q[n]
    <2>1. \A k \in 0..(n + 1) : q[k] = IF k = 0 THEN 1 ELSE b * q[k - 1]
      BY <1>3 DEF IsPowers
    <2>2. n + 1 \in 0..(n + 1) /\ n + 1 # 0 /\ (n + 1) - 1 = n
      OBVIOUS
    <2>3. QED
      BY <2>1, <2>2
  <1>5. p[n] = q[n]
    BY <1>1, <1>2, <1>3, PowersAgree
  <1>6. QED
    BY <1>1, <1>3, <1>4, <1>5

LEMMA PowerPositive ==
    ASSUME NEW b \in Nat, b > 0, NEW n \in Nat
    PROVE  Power(b, n) \in Nat /\ Power(b, n) > 0
  <1> DEFINE T == {k \in Nat : Power(b, k) > 0}
  <1>1. 0 \in T
    BY PowerZero
  <1>2. ASSUME NEW k \in Nat, k \in T
        PROVE  k + 1 \in T
    <2>1. Power(b, k) \in Nat /\ Power(b, k) > 0
      BY <1>2, PowerType
    <2>2. Power(b, k + 1) = b * Power(b, k)
      BY PowerNext
    <2> DEFINE u == Power(b, k)
    <2> HIDE DEF u
    <2>3. b * u > 0
      BY <2>1 DEF u
    <2>4. QED
      BY <2>2, <2>3 DEF u
  <1>3. n \in T
    <2> HIDE DEF T
    <2>1. Nat \subseteq T
      BY <1>1, <1>2, SetInduction
    <2>2. QED
      BY <2>1
  <1>4. QED
    BY <1>3, PowerType

LEMMA PowerSum ==
    ASSUME NEW b \in Nat, NEW m \in Nat, NEW n \in Nat
    PROVE  Power(b, m + n) = Power(b, m) * Power(b, n)
  <1> DEFINE T == {k \in Nat : Power(b, m + k) = Power(b, m) * Power(b, k)}
  <1>0. \A k \in Nat : Power(b, k) \in Nat
    BY PowerType
  <1>1. 0 \in T
    BY <1>0, PowerZero
  <1>2. ASSUME NEW k \in Nat, k \in T
        PROVE  k + 1 \in T
    <2>1. Power(b, k + 1) = b * Power(b, k)
      BY PowerNext
    <2>2. m + k \in Nat /\ m + (k + 1) = (m + k) + 1
      OBVIOUS
    <2>3. Power(b, m + (k + 1)) = b * Power(b, m + k)
      BY <2>2, PowerNext
    <2> DEFINE u == Power(b, m)
               v == Power(b, k)
    <2>4. Power(b, m + k) = u * v /\ u \in Nat /\ v \in Nat
      BY <1>0, <1>2
    <2> HIDE DEF u, v
    <2>5. b * (u * v) = u * (b * v)
      BY <2>4
    <2>6. QED
      BY <2>1, <2>3, <2>4, <2>5 DEF u, v
  <1>3. n \in T
    <2> HIDE DEF T
    <2>1. Nat \subseteq T
      BY <1>1, <1>2, SetInduction
    <2>2. QED
      BY <2>1
  <1>4. QED
    BY <1>3

-----------------------------------------------------------------------------
LEMMA ValueNone ==
    ASSUME NEW b \in Nat, NEW ds \in [{} -> Nat]
    PROVE  Value(b, ds) = 0
  <1> DEFINE f == [k \in DOMAIN ds |-> ds[k] * Power(b, k - 1)]
  <1>1. f \in [{} -> Nat]
    OBVIOUS
  <1>2. Value(b, ds) = SumFunction(f)
    BY DEF Value
  <1> HIDE DEF f
  <1>3. QED
    BY <1>1, <1>2, SumNone

LEMMA ValueGrow ==
    ASSUME NEW b \in Nat, NEW n \in Nat, NEW ds \in [1..(n + 1) -> Nat]
    PROVE  /\ Value(b, ds) = Value(b, [k \in 1..n |-> ds[k]]) + ds[n + 1] * Power(b, n)
           /\ Value(b, ds) \in Nat
  <1> DEFINE f == [k \in 1..(n + 1) |-> ds[k] * Power(b, k - 1)]
             g == [k \in 1..n |-> f[k]]
             es == [k \in 1..n |-> ds[k]]
  <1>1. f \in [1..(n + 1) -> Nat]
    <2>1. ASSUME NEW k \in 1..(n + 1)
          PROVE  ds[k] * Power(b, k - 1) \in Nat
      <3>1. k - 1 \in Nat
        OBVIOUS
      <3>2. Power(b, k - 1) \in Nat /\ ds[k] \in Nat
        BY <3>1, PowerType
      <3>3. QED
        BY <3>2
    <2>2. QED
      BY <2>1
  <1>2. Value(b, ds) = SumFunction(f)
    BY DEF Value
  <1>3. Value(b, es) = SumFunction(g)
    <2>1. [k \in DOMAIN es |-> es[k] * Power(b, k - 1)] = g
      OBVIOUS
    <2>2. QED
      BY <2>1 DEF Value
  <1>4. f[n + 1] = ds[n + 1] * Power(b, n)
    OBVIOUS
  <1>5. SumFunction(f) = SumFunction(g) + f[n + 1] /\ SumFunction(f) \in Nat
    <2> HIDE DEF f
    <2>1. QED
      BY <1>1, SumGrows
  <1> HIDE DEF f, g
  <1>6. QED
    BY <1>2, <1>3, <1>4, <1>5

\* The digits give a number below the power, and of the highest its top.
LEMMA ValueBound ==
    ASSUME NEW b \in Nat, b > 0, NEW n \in Nat, NEW ds \in [1..n -> 0..(b - 1)]
    PROVE  Value(b, ds) \in 0..(Power(b, n) - 1)
  <1> DEFINE T == {m \in Nat : \A es \in [1..m -> 0..(b - 1)] : Value(b, es) \in 0..(Power(b, m) - 1)}
  <1>1. 0 \in T
    <2>1. ASSUME NEW es \in [1..0 -> 0..(b - 1)]
          PROVE  Value(b, es) \in 0..(Power(b, 0) - 1)
      <3>1. es \in [{} -> Nat]
        OBVIOUS
      <3>2. Value(b, es) = 0
        BY <3>1, ValueNone
      <3>3. QED
        BY <3>2, PowerZero
    <2>2. QED
      BY <2>1
  <1>2. ASSUME NEW m \in Nat, m \in T
        PROVE  m + 1 \in T
    <2>1. ASSUME NEW es \in [1..(m + 1) -> 0..(b - 1)]
          PROVE  Value(b, es) \in 0..(Power(b, m + 1) - 1)
      <3> DEFINE fs == [k \in 1..m |-> es[k]]
                 v == Value(b, fs)
                 p == Power(b, m)
                 d == es[m + 1]
      <3>1. fs \in [1..m -> 0..(b - 1)]
        OBVIOUS
      <3>2. v \in 0..(p - 1)
        BY <1>2, <3>1
      <3>3. es \in [1..(m + 1) -> Nat]
        OBVIOUS
      <3>4. Value(b, es) = v + d * p
        BY <3>3, ValueGrow
      <3>5. Power(b, m + 1) = b * p /\ p \in Nat /\ p > 0
        BY PowerNext, PowerPositive
      <3>6. d \in 0..(b - 1)
        OBVIOUS
      <3> HIDE DEF v, p, d
      <3>7. d * p <= (b - 1) * p
        BY <3>5, <3>6
      <3>8. (b - 1) * p = b * p - p
        BY <3>5
      <3>9. d * p \in Nat
        BY <3>5, <3>6
      <3>10. b * p \in Nat
        BY <3>5
      <3>11. Value(b, es) \in Nat /\ Value(b, es) < b * p
        <4> DEFINE x == d * p
                   y == b * p
        <4>1. x \in Nat /\ y \in Nat /\ x <= y - p /\ v \in 0..(p - 1) /\ p \in Nat
              /\ Value(b, es) = v + x
          BY <3>2, <3>4, <3>5, <3>7, <3>8, <3>9, <3>10
        <4> HIDE DEF x, y
        <4>2. Value(b, es) \in Nat /\ Value(b, es) < y
          BY <4>1
        <4>3. QED
          BY <4>2 DEF y
      <3>12. QED
        <4> DEFINE y == b * p
        <4>1. y \in Nat /\ Value(b, es) \in Nat /\ Value(b, es) < y
          BY <3>10, <3>11
        <4>2. Power(b, m + 1) = y
          BY <3>5
        <4> HIDE DEF y
        <4>3. Value(b, es) \in 0..(y - 1)
          BY <4>1
        <4>4. QED
          BY <4>2, <4>3
    <2>2. m + 1 \in Nat
      OBVIOUS
    <2>3. QED
      BY <2>1, <2>2, Zenon
  <1>3. n \in T
    <2> HIDE DEF T
    <2>1. Nat \subseteq T
      BY <1>1, <1>2, SetInduction
    <2>2. QED
      BY <2>1
  <1>4. QED
    BY <1>3

LEMMA ModSplit ==
    ASSUME NEW w \in Nat, NEW p \in Nat, p > 0, NEW b \in Nat, b > 0
    PROVE  w % (b * p) = (w % p) + ((w \div p) % b) * p
  <1> DEFINE q == w \div p
             r == w % p
             s == q \div b
             t == q % b
  <1>1. q \in Nat /\ r \in 0..(p - 1) /\ w = p * q + r
    BY DivModMeans
  <1>2. s \in Nat /\ t \in 0..(b - 1) /\ q = b * s + t
    <2> HIDE DEF q
    <2>1. QED
      BY <1>1, DivModMeans
  <1> HIDE DEF q, r, s, t
  <1> DEFINE d == b * p
             m == r + t * p
  <1>3. d \in Nat /\ d > 0 /\ m \in Nat
    <2>1. t * p \in Nat
      BY <1>2
    <2>2. QED
      BY <1>1, <2>1
  <1>4. m < d
    <2>1. t * p <= (b - 1) * p
      BY <1>2
    <2>2. (b - 1) * p = b * p - p
      OBVIOUS
    <2>3. t * p \in Nat
      BY <1>2
    <2>4. QED
      BY <1>1, <2>1, <2>2, <2>3
  <1>5. w = d * s + m
    <2>1. p * (b * s + t) = (b * p) * s + t * p
      BY <1>2
    <2>2. QED
      BY <1>1, <1>2, <2>1
  <1> HIDE DEF d, m
  <1>6. w % d = m
    BY <1>2, <1>3, <1>4, <1>5, DivModUnique
  <1>7. QED
    BY <1>6 DEF d, m, q, r, t

LEMMA DigitType ==
    ASSUME NEW b \in Nat, b > 0, NEW w \in Nat, NEW k \in Nat
    PROVE  Digit(b, w, k) \in 0..(b - 1)
  <1>1. Power(b, k) \in Nat /\ Power(b, k) > 0
    BY PowerPositive
  <1>2. w \div Power(b, k) \in Nat
    BY <1>1, DivModMeans
  <1>3. QED
    BY <1>2, DivModMeans DEF Digit

LEMMA ValueDigits ==
    ASSUME NEW b \in Nat, b > 0, NEW w \in Nat, NEW n \in Nat
    PROVE  Value(b, [k \in 1..n |-> Digit(b, w, k - 1)]) = w % Power(b, n)
  <1> DEFINE D(m) == [k \in 1..m |-> Digit(b, w, k - 1)]
             T == {m \in Nat : Value(b, D(m)) = w % Power(b, m)}
  <1>0. \A k \in Nat : Digit(b, w, k) \in 0..(b - 1)
    BY DigitType
  <1>1. 0 \in T
    <2>1. D(0) \in [{} -> Nat]
      OBVIOUS
    <2>2. Value(b, D(0)) = 0
      BY <2>1, ValueNone
    <2>3. w % 1 = 0
      OBVIOUS
    <2>4. QED
      BY <2>2, <2>3, PowerZero
  <1>2. ASSUME NEW m \in Nat, m \in T
        PROVE  m + 1 \in T
    <2> DEFINE p == Power(b, m)
               es == D(m + 1)
               fs == [k \in 1..m |-> es[k]]
    <2>1. es \in [1..(m + 1) -> Nat]
      <3>1. \A k \in 1..(m + 1) : k - 1 \in Nat
        OBVIOUS
      <3>2. \A k \in 1..(m + 1) : Digit(b, w, k - 1) \in Nat
        BY <1>0, <3>1
      <3>3. QED
        BY <3>2
    <2>2. fs = D(m) /\ es[m + 1] = Digit(b, w, m)
      OBVIOUS
    <2>3. Value(b, es) = Value(b, fs) + es[m + 1] * p
      <3> HIDE DEF es
      <3>1. QED
        BY <2>1, ValueGrow
    <2>4. Value(b, fs) = w % p
      BY <1>2, <2>2
    <2>5. p \in Nat /\ p > 0 /\ Power(b, m + 1) = b * p
      BY PowerPositive, PowerNext
    <2> HIDE DEF p, es, fs
    <2>6. w % (b * p) = (w % p) + ((w \div p) % b) * p
      BY <2>5, ModSplit
    <2>7. es[m + 1] = (w \div p) % b
      BY <2>2 DEF Digit, p
    <2>8. Value(b, es) = w % Power(b, m + 1)
      BY <2>3, <2>4, <2>5, <2>6, <2>7
    <2>9. QED
      BY <2>8 DEF es
  <1>3. n \in T
    <2> HIDE DEF T
    <2>1. Nat \subseteq T
      BY <1>1, <1>2, SetInduction
    <2>2. QED
      BY <2>1
  <1>4. QED
    BY <1>3
-----------------------------------------------------------------------------
\* All digits of the number below a power are the highest.
LEMMA OnesDigit ==
    ASSUME NEW b \in Nat, b > 0, NEW n \in Nat, NEW k \in 0..(n - 1)
    PROVE  Digit(b, Power(b, n) - 1, k) = b - 1
  <1> DEFINE p == Power(b, k)
             s == Power(b, n - 1 - k)
             m == b * s
  <1>1. n - 1 - k \in Nat /\ k \in Nat /\ n = k + ((n - 1 - k) + 1) /\ (n - 1 - k) + 1 \in Nat
    OBVIOUS
  <1>2. Power(b, n) = p * Power(b, (n - 1 - k) + 1)
    BY <1>1, PowerSum
  <1>3. Power(b, (n - 1 - k) + 1) = b * s
    BY <1>1, PowerNext
  <1>4. p \in Nat /\ p > 0 /\ s \in Nat /\ s > 0
    BY <1>1, PowerPositive
  <1>5. Digit(b, Power(b, n) - 1, k) = ((p * m - 1) \div p) % b
    BY <1>2, <1>3 DEF Digit
  <1> HIDE DEF p, s
  <1>6. m \in Nat /\ m > 0
    BY <1>4
  <1>7. (p * m - 1) \div p = m - 1
    <2> HIDE DEF m
    <2>1. m - 1 \in Nat /\ p - 1 \in Nat /\ p - 1 < p
      BY <1>4, <1>6
    <2>2. p * (m - 1) = p * m - p
      BY <1>4, <1>6
    <2>3. p * m \in Nat /\ p * (m - 1) \in Nat
      BY <1>4, <2>1, <1>6
    <2>4. p * m - 1 = p * (m - 1) + (p - 1) /\ p * m - 1 \in Nat
      BY <1>4, <2>1, <2>2, <2>3
    <2>5. QED
      BY <1>4, <2>1, <2>4, DivModUnique
  <1>8. (m - 1) % b = b - 1
    <2>1. s - 1 \in Nat /\ b - 1 \in Nat /\ b - 1 < b
      BY <1>4
    <2>2. b * (s - 1) = b * s - b
      BY <1>4
    <2>3. m - 1 = b * (s - 1) + (b - 1) /\ m - 1 \in Nat
      BY <1>4, <1>6, <2>2
    <2> HIDE DEF m
    <2>4. QED
      BY <2>1, <2>3, DivModUnique
  <1>9. QED
    BY <1>5, <1>7, <1>8

\* The widths.
LEMMA WidthsAll ==
    /\ NB \in Nat /\ NB > 0 /\ BITS \in Nat /\ BITS > 0
    /\ BYTE \in Nat /\ BYTE > 1
    /\ WORD \in Nat /\ WORD > 1
    /\ Power(BYTE, NB - 1) \in Nat /\ Power(BYTE, NB - 1) > 0
    /\ WORD = BYTE * Power(BYTE, NB - 1)
  <1>1. NB \in Nat /\ NB > 0 /\ BITS \in Nat /\ BITS > 0 /\ NB - 1 \in Nat /\ BITS - 1 \in Nat
        /\ (NB - 1) + 1 = NB /\ (BITS - 1) + 1 = BITS
    BY WidthAssumption
  <1>2. BYTE = 2 * Power(2, BITS - 1) /\ Power(2, BITS - 1) \in Nat /\ Power(2, BITS - 1) > 0
    <2>1. Power(2, (BITS - 1) + 1) = 2 * Power(2, BITS - 1)
      BY <1>1, PowerNext
    <2>2. Power(2, BITS - 1) \in Nat /\ Power(2, BITS - 1) > 0
      BY <1>1, PowerPositive
    <2>3. QED
      BY <1>1, <2>1, <2>2 DEF BYTE
  <1>3. BYTE \in Nat /\ BYTE > 1
    BY <1>2
  <1>4. Power(BYTE, NB - 1) \in Nat /\ Power(BYTE, NB - 1) > 0
    BY <1>1, <1>3, PowerPositive
  <1>5. WORD = BYTE * Power(BYTE, NB - 1)
    <2>1. Power(BYTE, (NB - 1) + 1) = BYTE * Power(BYTE, NB - 1)
      BY <1>1, <1>3, PowerNext
    <2>2. QED
      BY <1>1, <2>1 DEF WORD
  <1>6. WORD \in Nat /\ WORD > 1
    <2> DEFINE p == Power(BYTE, NB - 1)
    <2>1. p \in Nat /\ p > 0 /\ WORD = BYTE * p
      BY <1>4, <1>5
    <2> HIDE DEF p
    <2>2. BYTE * p > 1
      BY <1>3, <2>1
    <2>3. BYTE * p \in Nat
      BY <1>3, <2>1
    <2>4. QED
      BY <2>1, <2>2, <2>3
  <1>7. QED
    BY <1>1, <1>3, <1>4, <1>5, <1>6

LEMMA Widths ==
    /\ NB \in Nat /\ NB > 0 /\ NB - 1 \in Nat
    /\ BITS \in Nat /\ BITS > 0
    /\ BYTE \in Nat /\ BYTE > 0 /\ BYTE > 1
    /\ WORD \in Nat /\ WORD > 0 /\ WORD > 1
  BY WidthsAll

LEMMA WordOfType == ASSUME NEW bs \in [1..NB -> ByteVal] PROVE WordOf(bs) \in Word
  <1>1. Value(BYTE, bs) \in 0..(Power(BYTE, NB) - 1)
    BY Widths, ValueBound DEF ByteVal
  <1>2. QED
    BY <1>1 DEF WordOf, Word, WORD

LEMMA WordOfBytes ==
    ASSUME NEW w \in Word, NEW bs, bs = [k \in 1..NB |-> ByteOf(w, k - 1)]
    PROVE  WordOf(bs) = w
  <1>1. w \in Nat
    BY Widths DEF Word
  <1>2. WordOf(bs) = Value(BYTE, [k \in 1..NB |-> Digit(BYTE, w, k - 1)])
    BY DEF WordOf, ByteOf
  <1>3. WordOf(bs) = w % WORD
    BY <1>1, <1>2, Widths, ValueDigits DEF WORD
  <1>4. w \in Nat /\ w < WORD /\ w = WORD * 0 + w
    BY <1>1, Widths DEF Word
  <1>5. w % WORD = w
    BY <1>4, Widths, DivModUnique
  <1>6. QED
    BY <1>3, <1>5

LEMMA ByteType == ASSUME NEW w \in Word, NEW k \in Nat PROVE ByteOf(w, k) \in ByteVal
  <1>1. w \in Nat
    BY Widths DEF Word
  <1>2. QED
    BY <1>1, Widths, DigitType DEF ByteOf, ByteVal

\* What an erased flash and one that is all zeros hold.
LEMMA BlankWord == WordOf([k \in 1..NB |-> BYTE - 1]) = WORD - 1
  <1>1. WORD - 1 \in Word
    BY Widths DEF Word
  <1>2. \A k \in 1..NB : k - 1 \in 0..(NB - 1)
    BY Widths
  <1>3. \A k \in 1..NB : ByteOf(WORD - 1, k - 1) = BYTE - 1
    BY <1>2, Widths, OnesDigit DEF ByteOf, WORD
  <1>4. [k \in 1..NB |-> BYTE - 1] = [k \in 1..NB |-> ByteOf(WORD - 1, k - 1)]
    BY <1>3
  <1>5. QED
    BY <1>1, <1>4, WordOfBytes

LEMMA ZeroWord == WordOf([k \in 1..NB |-> 0]) = 0
  <1>1. 0 \in Word /\ 0 \in Nat
    BY Widths DEF Word
  <1>2. ASSUME NEW k \in 1..NB
        PROVE  ByteOf(0, k - 1) = 0
    <2> DEFINE p == Power(BYTE, k - 1)
    <2>0. k - 1 \in Nat
      OBVIOUS
    <2>1. p \in Nat /\ p > 0
      BY <2>0, Widths, PowerPositive
    <2> HIDE DEF p
    <2>2. 0 = p * 0 + 0 /\ 0 = BYTE * 0 + 0 /\ 0 < p /\ 0 < BYTE
      BY <2>1, Widths
    <2>3. 0 \div p = 0
      BY <1>1, <2>1, <2>2, DivModUnique
    <2>4. 0 % BYTE = 0
      BY <1>1, <2>2, Widths, DivModUnique
    <2>5. QED
      BY <2>3, <2>4 DEF ByteOf, Digit, p
  <1>3. [k \in 1..NB |-> 0] = [k \in 1..NB |-> ByteOf(0, k - 1)]
    BY <1>2
  <1>4. QED
    BY <1>1, <1>3, WordOfBytes

\* A word whose last byte was not programmed is large.
LEMMA LargeWord ==
    ASSUME NEW bs \in [1..NB -> ByteVal], bs[NB] = BYTE - 1
    PROVE  WordOf(bs) >= (BYTE - 1) * Power(BYTE, NB - 1)
  <1> DEFINE n == NB - 1
             cs == [k \in 1..n |-> bs[k]]
             v == Value(BYTE, cs)
  <1>1. n \in Nat /\ n + 1 = NB
    BY Widths
  <1>2. bs \in [1..(n + 1) -> Nat] /\ cs \in [1..n -> ByteVal]
    BY <1>1, Widths DEF ByteVal
  <1>3. Value(BYTE, bs) = v + bs[n + 1] * Power(BYTE, n)
    <2> HIDE DEF n
    <2>1. QED
      BY <1>1, <1>2, Widths, ValueGrow
  <1>4. v \in 0..(Power(BYTE, n) - 1)
    <2> HIDE DEF n, cs
    <2>1. QED
      BY <1>1, <1>2, Widths, ValueBound DEF ByteVal
  <1>5. v \in Nat /\ (BYTE - 1) * Power(BYTE, n) \in Nat
    <2> DEFINE p == Power(BYTE, n)
    <2>1. p \in Nat /\ p > 0
      BY <1>1, Widths, PowerPositive
    <2> HIDE DEF p
    <2>2. (BYTE - 1) * p \in Nat
      BY <2>1, Widths
    <2>3. QED
      BY <1>4, <2>1, <2>2 DEF p
  <1>6. Value(BYTE, bs) = v + (BYTE - 1) * Power(BYTE, n)
    BY <1>1, <1>3
  <1> HIDE DEF v
  <1>7. QED
    BY <1>5, <1>6 DEF WordOf

LEMMA ProgrammedType ==
    ASSUME NEW old \in ByteVal, NEW b \in ByteVal
    PROVE  Programmed(old, b) \in ByteVal
  <1> DEFINE ds == [k \in 1..BITS |-> Digit(2, old, k - 1) * Digit(2, b, k - 1)]
  <1>1. ds \in [1..BITS -> 0..(2 - 1)]
    <2>1. old \in Nat /\ b \in Nat /\ 2 \in Nat /\ 2 > 0
      BY Widths DEF ByteVal
    <2>2. ASSUME NEW k \in 1..BITS
          PROVE  ds[k] \in 0..(2 - 1)
      <3>1. k - 1 \in Nat
        OBVIOUS
      <3>2. Digit(2, old, k - 1) \in 0..(2 - 1) /\ Digit(2, b, k - 1) \in 0..(2 - 1)
        BY <2>1, <3>1, DigitType
      <3>3. QED
        BY <3>2
    <2>3. QED
      BY <2>2
  <1>2. Value(2, ds) \in 0..(Power(2, BITS) - 1)
    <2> HIDE DEF ds
    <2>1. QED
      BY <1>1, Widths, ValueBound
  <1>3. QED
    BY <1>2 DEF Programmed, ByteVal, BYTE

\* A byte programmed where the flash is erased is kept as it is.
LEMMA ProgrammedErased ==
    ASSUME NEW b \in ByteVal
    PROVE  Programmed(BYTE - 1, b) = b
  <1>1. b \in Nat /\ 2 \in Nat /\ 2 > 0
    BY Widths DEF ByteVal
  <1>2. ASSUME NEW k \in 1..BITS
        PROVE  Digit(2, BYTE - 1, k - 1) * Digit(2, b, k - 1) = Digit(2, b, k - 1)
    <2>1. k - 1 \in 0..(BITS - 1) /\ k - 1 \in Nat
      BY Widths
    <2>2. Digit(2, BYTE - 1, k - 1) = 2 - 1
      BY <2>1, Widths, OnesDigit DEF BYTE
    <2>3. Digit(2, b, k - 1) \in 0..(2 - 1)
      BY <1>1, <2>1, DigitType
    <2>4. QED
      BY <2>2, <2>3
  <1>3. Programmed(BYTE - 1, b) = Value(2, [k \in 1..BITS |-> Digit(2, b, k - 1)])
    BY <1>2 DEF Programmed
  <1>4. Programmed(BYTE - 1, b) = b % BYTE
    BY <1>1, <1>3, Widths, ValueDigits DEF BYTE
  <1>5. b < BYTE /\ b = BYTE * 0 + b
    BY <1>1, Widths DEF ByteVal
  <1>6. b % BYTE = b
    BY <1>1, <1>5, Widths, DivModUnique
  <1>7. QED
    BY <1>4, <1>6
-----------------------------------------------------------------------------
(* Sums of words. *)

AddWords == [p \in Word \X Word |-> Add(p[1], p[2])]

LEMMA AddType == ASSUME NEW x \in Word, NEW y \in Word PROVE Add(x, y) \in Word
  <1>1. x + y \in Nat
    BY Widths DEF Word
  <1>2. (x + y) % WORD \in 0..(WORD - 1)
    BY <1>1, Widths, DivModMeans
  <1>3. QED
    BY <1>2 DEF Add, Word

\* Add has no more than two cases.
LEMMA AddMeans ==
    ASSUME NEW x \in Word, NEW y \in Word
    PROVE  Add(x, y) = IF x + y < WORD THEN x + y ELSE x + y - WORD
  <1>1. x + y \in Nat /\ x \in Nat /\ y \in Nat /\ x < WORD /\ y < WORD
    BY Widths DEF Word
  <1>2. CASE x + y < WORD
    <2>1. x + y = WORD * 0 + (x + y)
      BY <1>1, Widths
    <2>2. (x + y) % WORD = x + y
      BY <1>1, <1>2, <2>1, Widths, DivModUnique
    <2>3. QED
      BY <1>2, <2>2 DEF Add
  <1>3. CASE ~(x + y < WORD)
    <2>1. x + y = WORD * 1 + (x + y - WORD) /\ x + y - WORD \in Nat /\ x + y - WORD < WORD
      BY <1>1, <1>3, Widths
    <2>2. (x + y) % WORD = x + y - WORD
      BY <1>1, <2>1, Widths, DivModUnique
    <2>3. QED
      BY <1>3, <2>2 DEF Add
  <1>4. QED
    BY <1>2, <1>3

LEMMA AddSwap ==
    ASSUME NEW x \in Word, NEW y \in Word
    PROVE  Add(x, y) = Add(y, x)
  BY AddMeans, Widths DEF Word

LEMMA AddGroup ==
    ASSUME NEW x \in Word, NEW y \in Word, NEW z \in Word
    PROVE  Add(x, Add(y, z)) = Add(Add(x, y), z)
  <1>1. Add(x, y) \in Word /\ Add(y, z) \in Word
    BY AddType
  <1>2. Add(x, Add(y, z)) = IF x + Add(y, z) < WORD THEN x + Add(y, z) ELSE x + Add(y, z) - WORD
    BY <1>1, AddMeans
  <1>3. Add(Add(x, y), z) = IF Add(x, y) + z < WORD THEN Add(x, y) + z ELSE Add(x, y) + z - WORD
    BY <1>1, AddMeans
  <1>4. QED
    BY <1>2, <1>3, AddMeans, Widths DEF Word

LEMMA AddNone == ASSUME NEW x \in Word PROVE Add(x, 0) = x /\ Add(0, x) = x
  <1>1. 0 \in Word
    BY Widths DEF Word
  <1>2. QED
    BY <1>1, AddMeans, Widths DEF Word

LEMMA AddCancels ==
    ASSUME NEW x \in Word, NEW y \in Word, NEW z \in Word, Add(x, z) = Add(y, z)
    PROVE  x = y
  BY AddMeans, Widths DEF Word

\* The complement of a checksum and the sum it belongs to.
LEMMA ComplementFits ==
    ASSUME NEW x \in Word, NEW y \in Word
    PROVE  /\ Complement(x) \in Word
           /\ Add(Add(x, y), 1) = 0 <=> x = Complement(y)
  <1>1. Complement(x) \in Word /\ 1 \in Word
    BY Widths DEF Word, Complement
  <1>2. Add(x, y) \in Word
    BY AddType
  <1>3. Add(Add(x, y), 1) = IF Add(x, y) + 1 < WORD THEN Add(x, y) + 1 ELSE Add(x, y) + 1 - WORD
    BY <1>1, <1>2, AddMeans
  <1>4. QED
    BY <1>1, <1>2, <1>3, AddMeans, Widths DEF Word, Complement

LEMMA AddWordsFacts ==
    /\ AddWords \in [Word \X Word -> Word]
    /\ \A x, y \in Word : AddWords[<<x, y>>] = Add(x, y)
  <1>1. \A p \in Word \X Word : Add(p[1], p[2]) \in Word
    BY AddType
  <1>2. QED
    BY <1>1 DEF AddWords

LEMMA AddWordsCommutes == Commutes(AddWords, Word)
  <1>1. ASSUME NEW x \in Word, NEW y \in Word
        PROVE  AddWords[<<x, y>>] = AddWords[<<y, x>>]
    BY AddWordsFacts, AddSwap
  <1>2. ASSUME NEW x \in Word, NEW y \in Word, NEW z \in Word
        PROVE  AddWords[<<x, AddWords[<<y, z>>]>>] = AddWords[<<AddWords[<<x, y>>], z>>]
    <2>1. Add(y, z) \in Word /\ Add(x, y) \in Word
      BY AddType
    <2>2. AddWords[<<y, z>>] = Add(y, z) /\ AddWords[<<x, y>>] = Add(x, y)
      BY AddWordsFacts
    <2>3. AddWords[<<x, Add(y, z)>>] = Add(x, Add(y, z)) /\ AddWords[<<Add(x, y), z>>] = Add(Add(x, y), z)
      BY <2>1, AddWordsFacts
    <2>4. QED
      BY <2>2, <2>3, AddGroup
  <1>3. QED
    BY <1>1, <1>2 DEF Commutes

LEMMA SumWordsMeans ==
    ASSUME NEW n \in Nat, NEW f \in [1..n -> Word]
    PROVE  \E h \in [SUBSET (1..n) -> Word] : Gathers(h, AddWords, 0, f, 1..n) /\ Sum(f) = h[1..n]
  <1> DEFINE D == 1..n
  <1>0. IsFiniteSet(D) /\ 0 \in Word /\ D = DOMAIN f
    BY FS_Interval, Widths DEF Word
  <1> DEFINE Rec(g) == g = [z \in SUBSET D |->
                             IF z = {} THEN 0 ELSE LET x == CHOOSE x \in z : TRUE IN Add(f[x], g[z \ {x}])]
             F == CHOOSE g : Rec(g)
  <1>5. Sum(f) = F[D]
    BY DEF Sum, FoldSeq, FoldFunction, FoldFunctionOnSet, MapThenFoldSet
  <1>9. f \in [D -> Word]
    OBVIOUS
  <1> HIDE DEF D
  <1>1. PICK h \in [SUBSET D -> Word] : Gathers(h, AddWords, 0, f, D)
    BY <1>0, <1>9, AddWordsFacts, GatherExists
  <1>2. \A z \in SUBSET D : z # {} => LET x == CHOOSE x \in z : TRUE
                                     IN  /\ x \in z /\ z \ {x} \in SUBSET D
                                         /\ AddWords[<<f[x], h[z \ {x}]>>] = Add(f[x], h[z \ {x}])
    BY <1>9, AddWordsFacts
  <1>3. Rec(h)
    <2>1. \A z \in SUBSET D : h[z] = IF z = {} THEN 0
                                     ELSE LET x == CHOOSE x \in z : TRUE IN Add(f[x], h[z \ {x}])
      BY <1>1, <1>2 DEF Gathers
    <2>2. QED
      BY <2>1
  <1>4. Rec(F)
    BY <1>3
  <1> HIDE DEF F
  <1>6. F[D] = h[D]
    <2>1. \A z \in SUBSET D : F[z] = IF z = {} THEN 0
                                     ELSE LET x == CHOOSE x \in z : TRUE IN Add(f[x], F[z \ {x}])
      BY <1>4
    <2> DEFINE T == {m \in Nat : \A z \in SUBSET D : Cardinality(z) = m => F[z] = h[z]}
    <2>2. \A z \in SUBSET D : IsFiniteSet(z) /\ Cardinality(z) \in Nat
      BY <1>0, FS_Subset, FS_CardinalityType
    <2>3. \A z \in SUBSET D : h[z] = IF z = {} THEN 0
                                     ELSE LET x == CHOOSE x \in z : TRUE IN Add(f[x], h[z \ {x}])
      BY <1>3
    <2>4. 0 \in T
      <3>1. \A z \in SUBSET D : Cardinality(z) = 0 => z = {}
        BY <2>2, FS_EmptySet
      <3>2. QED
        BY <2>1, <2>3, <3>1
    <2>5. ASSUME NEW m \in Nat, m \in T
          PROVE  m + 1 \in T
      <3>1. ASSUME NEW z \in SUBSET D, Cardinality(z) = m + 1
            PROVE  F[z] = h[z]
        <4>1. z # {}
          <5>1. Cardinality(z) # 0
            BY <3>1
          <5>2. QED
            BY <5>1, FS_EmptySet
        <4> DEFINE x == CHOOSE x \in z : TRUE
        <4>2. x \in z
          BY <4>1
        <4>3. F[z] = Add(f[x], F[z \ {x}]) /\ h[z] = Add(f[x], h[z \ {x}])
          BY <2>1, <2>3, <4>1
        <4> HIDE DEF x
        <4>4. z \ {x} \in SUBSET D /\ Cardinality(z \ {x}) = m
          <5>1. z \ {x} \in SUBSET D /\ Cardinality(z \ {x}) = Cardinality(z) - 1
            BY <1>0, <4>2, RemoveOne
          <5>2. QED
            BY <3>1, <5>1
        <4>5. F[z \ {x}] = h[z \ {x}]
          BY <2>5, <4>4
        <4>6. QED
          BY <4>3, <4>5
      <3>2. QED
        BY <3>1
    <2>6. Cardinality(D) \in T
      <3> HIDE DEF T
      <3>1. Nat \subseteq T
        BY <2>4, <2>5, SetInduction
      <3>2. QED
        BY <2>2, <3>1
    <2>7. QED
      BY <2>6
  <1>7. QED
    BY <1>1, <1>5, <1>6 DEF D

LEMMA SumNothing == Sum(<<>>) = 0
  <1>1. <<>> \in [1..0 -> Word] /\ 0 \in Nat
    OBVIOUS
  <1>2. PICK h \in [SUBSET (1..0) -> Word] : Gathers(h, AddWords, 0, <<>>, 1..0) /\ Sum(<<>>) = h[1..0]
    BY <1>1, SumWordsMeans
  <1>3. 1..0 = {}
    OBVIOUS
  <1>4. QED
    BY <1>2, <1>3 DEF Gathers

LEMMA SumType == ASSUME NEW ws \in Seq(Word) PROVE Sum(ws) \in Word
  <1>1. Len(ws) \in Nat /\ ws \in [1..Len(ws) -> Word]
    OBVIOUS
  <1>2. PICK h \in [SUBSET (1..Len(ws)) -> Word] :
            Gathers(h, AddWords, 0, ws, 1..Len(ws)) /\ Sum(ws) = h[1..Len(ws)]
    BY <1>1, SumWordsMeans
  <1>3. QED
    BY <1>2

LEMMA SumNext ==
    ASSUME NEW n \in Nat, NEW f \in [1..(n + 1) -> Word]
    PROVE  /\ [k \in 1..n |-> f[k]] \in [1..n -> Word]
           /\ Sum(f) = Add(f[n + 1], Sum([k \in 1..n |-> f[k]]))
  <1> DEFINE D == 1..n
             E == 1..(n + 1)
             g == [k \in 1..n |-> f[k]]
  <1>0. D \subseteq E /\ n + 1 \in E /\ E \ {n + 1} = D /\ D \in SUBSET E /\ E \in SUBSET E
    OBVIOUS
  <1>11. IsFiniteSet(D) /\ IsFiniteSet(E)
    BY FS_Interval
  <1>1. g \in [D -> Word]
    OBVIOUS
  <1>10. \A k \in D : g[k] = f[k]
    OBVIOUS
  <1>3. PICK h \in [SUBSET E -> Word] : Gathers(h, AddWords, 0, f, E) /\ Sum(f) = h[E]
    <2>1. n + 1 \in Nat
      OBVIOUS
    <2>2. QED
      BY <2>1, SumWordsMeans
  <1>4. PICK k \in [SUBSET D -> Word] : Gathers(k, AddWords, 0, g, D) /\ Sum(g) = k[D]
    <2> HIDE DEF g
    <2>1. QED
      BY <1>1, SumWordsMeans
  <1>2. f \in [E -> Word]
    OBVIOUS
  <1> HIDE DEF D, E, g
  <1>5. k[D] = h[D]
    BY <1>0, <1>11, <1>1, <1>10, <1>3, <1>4, GatherAgree
  <1>6. h[E] = AddWords[<<f[n + 1], h[E \ {n + 1}]>>]
    <2>1. TakesLast(h, AddWords, f, E, n + 1)
      BY <1>0, <1>11, <1>2, <1>3, AddWordsCommutes, GatherAny
    <2>2. QED
      BY <2>1 DEF TakesLast
  <1>7. f[n + 1] \in Word /\ h[D] \in Word
    BY <1>0, <1>2
  <1>8. h[E] = Add(f[n + 1], h[D])
    BY <1>0, <1>6, <1>7, AddWordsFacts
  <1>9. QED
    <2>1. Sum(f) = Add(f[n + 1], Sum(g))
      BY <1>3, <1>4, <1>5, <1>8
    <2>2. QED
      BY <1>1, <2>1 DEF g, D

\* A sum tells when one of its words is another.
LEMMA SumTells ==
    ASSUME NEW n \in Nat, NEW f \in [1..n -> Word], NEW m \in 1..n,
           NEW g \in [1..n -> Word], \A k \in 1..n : k # m => g[k] = f[k], Sum(g) = Sum(f)
    PROVE  g[m] = f[m]
  <1> DEFINE D == 1..n
             C == D \ {m}
  <1>0. C \subseteq D /\ C \in SUBSET D /\ D \in SUBSET D
    OBVIOUS
  <1>11. IsFiniteSet(D) /\ IsFiniteSet(C)
    BY <1>0, FS_Interval, FS_Subset
  <1>1. g \in [D -> Word] /\ f \in [D -> Word] /\ m \in D
    OBVIOUS
  <1>2. \A k \in C : g[k] = f[k]
    OBVIOUS
  <1>3. PICK h \in [SUBSET D -> Word] : Gathers(h, AddWords, 0, f, D) /\ Sum(f) = h[D]
    BY SumWordsMeans
  <1>4. PICK k \in [SUBSET D -> Word] : Gathers(k, AddWords, 0, g, D) /\ Sum(g) = k[D]
    BY <1>1, SumWordsMeans
  <1>5. Gathers(k, AddWords, 0, g, C)
    BY <1>0, <1>4 DEF Gathers
  <1>13. C = D \ {m}
    OBVIOUS
  <1> HIDE DEF D, C
  <1>16. C \subseteq D /\ IsFiniteSet(C)
    BY <1>0, <1>11
  <1>17. Gathers(h, AddWords, 0, f, D)
    BY <1>3
  <1>6. k[C] = h[C]
    BY <1>16, <1>2, <1>17, <1>5, GatherAgree
  <1>7. TakesLast(h, AddWords, f, D, m)
    BY <1>1, <1>11, <1>3, AddWordsCommutes, GatherAny
  <1>8. TakesLast(k, AddWords, g, D, m)
    BY <1>1, <1>11, <1>4, AddWordsCommutes, GatherAny
  <1>9. h[D] = AddWords[<<f[m], h[C]>>] /\ k[D] = AddWords[<<g[m], h[C]>>]
    BY <1>6, <1>7, <1>8, <1>13 DEF TakesLast
  <1>10. h[C] \in Word /\ f[m] \in Word /\ g[m] \in Word
    BY <1>0, <1>1
  <1>14. Add(f[m], h[C]) = Add(g[m], h[C])
    BY <1>3, <1>4, <1>9, <1>10, AddWordsFacts
  <1>15. QED
    BY <1>10, <1>14, AddCancels
-----------------------------------------------------------------------------
(* Multiples of the width of a word. *)

LEMMA Multiple ==
    ASSUME NEW n \in Nat, NEW r \in 0..(NB - 1)
    PROVE  NB * n \in Nat /\ (NB * n + r) \div NB = n /\ (NB * n + r) % NB = r
  <1>1. NB * n \in Nat /\ r \in Nat /\ r < NB
    BY Widths
  <1>2. NB * n + r \in Nat
    BY <1>1
  <1>3. QED
    BY <1>1, <1>2, Widths, DivModUnique

LEMMA MultipleOnly ==
    ASSUME NEW n \in Nat
    PROVE  NB * n \in Nat /\ (NB * n) \div NB = n /\ (NB * n) % NB = 0
  <1>1. 0 \in 0..(NB - 1)
    BY Widths
  <1>2. NB * n \in Nat /\ (NB * n + 0) \div NB = n /\ (NB * n + 0) % NB = 0
    BY <1>1, Multiple
  <1>3. NB * n + 0 = NB * n
    BY <1>2
  <1>4. QED
    BY <1>2, <1>3

LEMMA MultipleMeans ==
    ASSUME NEW m \in Nat
    PROVE  /\ m \div NB \in Nat /\ m % NB \in 0..(NB - 1)
           /\ m = NB * (m \div NB) + (m % NB)
           /\ m % NB = 0 => m = NB * (m \div NB)
  <1>1. m \div NB \in Nat /\ m % NB \in 0..(NB - 1) /\ m = NB * (m \div NB) + (m % NB)
    BY Widths, DivModMeans
  <1>2. NB * (m \div NB) \in Nat
    BY <1>1, Multiple
  <1>3. QED
    BY <1>1, <1>2

LEMMA MultipleOrder ==
    ASSUME NEW m \in Nat, NEW n \in Nat
    PROVE  /\ NB * m \in Nat /\ NB * n \in Nat
           /\ NB * (m + n) = NB * m + NB * n
           /\ m < n <=> NB * m < NB * n
           /\ m < n => NB * m + NB <= NB * n
  <1>1. NB * m \in Nat /\ NB * n \in Nat
    BY MultipleOnly
  <1>2. NB * (m + n) = NB * m + NB * n
    BY Widths
  <1>3. m < n => NB * m + NB <= NB * n
    BY Widths
  <1>4. ~(m < n) => NB * n <= NB * m
    BY Widths
  <1>5. QED
    BY <1>1, <1>2, <1>3, <1>4, Widths

LEMMA Fits ==
    /\ MEM \in Nat /\ NB * MEM \in Nat /\ NB * MEM < WORD
    /\ NB * MEM < (BYTE - 1) * Power(BYTE, NB - 1)
    /\ BIN_OFFSET_DATA \in Nat /\ BIN_OFFSET_DATA = NB * 4
    /\ SECTOR \in Nat /\ SECTOR > 0 /\ BIN_OFFSET_DATA <= SECTOR
    /\ FLASH \in Nat /\ FLASH > 0 /\ NB * MEM + SECTOR <= FLASH
  <1>1. MEM \in Nat /\ NB * MEM \in Nat
    BY SizesAssumption, MultipleOnly
  <1>2. BIN_OFFSET_DATA \in Nat /\ BIN_OFFSET_DATA = NB * 4 /\ BIN_OFFSET_DATA > 0
    BY Widths DEF BIN_OFFSET_DATA
  <1>3. (BYTE - 1) * Power(BYTE, NB - 1) <= WORD
    <2> DEFINE p == Power(BYTE, NB - 1)
    <2>1. p \in Nat /\ WORD = BYTE * p /\ BYTE \in Nat
      BY WidthsAll
    <2> HIDE DEF p
    <2>2. (BYTE - 1) * p = BYTE * p - p
      BY <2>1
    <2>3. BYTE * p \in Nat
      BY <2>1
    <2>4. (BYTE - 1) * p <= WORD
      BY <2>1, <2>2, <2>3
    <2>5. QED
      BY <2>4 DEF p
  <1>4. NB * MEM < (BYTE - 1) * Power(BYTE, NB - 1) /\ (BYTE - 1) * Power(BYTE, NB - 1) \in Nat
    <2> DEFINE p == Power(BYTE, NB - 1)
    <2>1. p \in Nat /\ BYTE - 1 \in Nat
      BY WidthsAll
    <2> HIDE DEF p
    <2>2. (BYTE - 1) * p \in Nat
      BY <2>1
    <2>3. QED
      BY <2>2, SizesAssumption DEF p
  <1>5. NB * MEM < WORD
    <2> DEFINE c == (BYTE - 1) * Power(BYTE, NB - 1)
    <2>1. c \in Nat /\ NB * MEM < c /\ c <= WORD
      BY <1>3, <1>4
    <2> HIDE DEF c
    <2>2. QED
      BY <1>1, <2>1, Widths
  <1>6. SECTOR \in Nat /\ BIN_OFFSET_DATA <= SECTOR /\ FLASH \in Nat /\ NB * MEM + SECTOR <= FLASH
    BY SizesAssumption
  <1>7. QED
    BY <1>1, <1>2, <1>4, <1>5, <1>6

-----------------------------------------------------------------------------
(* Images and uploads. *)

Program(f) == Words(Padded(f.bytes))
Part(ws, n) == [k \in 1..n |-> ws[4 + k]]

LEMMA PaddedLength ==
    ASSUME NEW s \in Seq(ByteVal), s # <<>>
    PROVE  Padded(s) \in Seq(ByteVal) /\ \E n \in Nat : n > 0 /\ Len(Padded(s)) = NB * n
  <1> DEFINE l == Len(s)
             p == (-l) % NB
             m == (-l) \div NB
             z == [k \in 1..p |-> 0]
  <1>1. l \in Nat /\ l > 0
    OBVIOUS
  <1> HIDE DEF l
  <1>2. p \in 0..(NB - 1) /\ m \in Int /\ -l = NB * m + p
    BY <1>1, Widths
  <1> HIDE DEF p, m
  <1>3. z \in Seq(ByteVal) /\ Len(z) = p
    BY <1>2, Widths DEF ByteVal
  <1> HIDE DEF z
  <1>4. s \o z \in Seq(ByteVal) /\ Len(s \o z) = l + p
    BY <1>3 DEF l
  <1>5. NB * (0 - m) = 0 - NB * m
    BY <1>2, Widths
  <1>6. l + p = NB * (0 - m) /\ l + p > 0
    BY <1>1, <1>2, <1>5, Widths
  <1>7. 0 - m > 0
    <2> DEFINE u == 0 - m
    <2>1. u \in Int /\ NB * u > 0
      BY <1>2, <1>6
    <2> HIDE DEF u
    <2>2. u <= 0 => NB * u <= 0
      BY <2>1, Widths
    <2>3. NB * u \in Int
      BY <2>1, Widths
    <2>4. u > 0
      BY <2>1, <2>2, <2>3
    <2>5. QED
      BY <2>4 DEF u
  <1>8. Padded(s) = s \o z
    BY DEF Padded, z, p, l
  <1>9. 0 - m \in Nat
    BY <1>2, <1>7
  <1>10. QED
    BY <1>4, <1>6, <1>7, <1>8, <1>9

LEMMA WordsMeans ==
    ASSUME NEW s \in Seq(ByteVal), NEW n \in Nat, Len(s) = NB * n
    PROVE  Words(s) \in Seq(Word) /\ Len(Words(s)) = n
  <1>1. Len(s) \div NB = n
    BY MultipleOnly
  <1>2. ASSUME NEW k \in 1..n
        PROVE  WordOf(SubSeq(s, NB * (k - 1) + 1, NB * k)) \in Word
    <2> DEFINE a == NB * (k - 1)
               b == NB * k
               t == SubSeq(s, a + 1, b)
    <2>1. a \in Nat /\ b = a + NB /\ b <= NB * n
      <3>1. k - 1 \in Nat /\ k \in Nat /\ k = (k - 1) + 1 /\ k - 1 < n
        OBVIOUS
      <3>2. NB * (k - 1) + NB <= NB * n
        BY <3>1, MultipleOrder
      <3>3. NB * ((k - 1) + 1) = NB * (k - 1) + NB * 1
        BY <3>1, Widths
      <3>4. QED
        BY <3>1, <3>2, <3>3, MultipleOnly, Widths
    <2> HIDE DEF a, b
    <2>2. a + 1 \in Int /\ b \in Int /\ a + 1 <= b /\ b - (a + 1) + 1 = b - a
      BY <2>1, Widths
    <2>8. \A j \in (a + 1)..b : s[j] \in ByteVal
      BY <2>1
    <2>3. t \in Seq(ByteVal) /\ Len(t) = b - a
      BY <2>2, <2>8, SubSeqProperties
    <2>4. b - a = NB
      BY <2>1, Widths
    <2> HIDE DEF t
    <2>5. t \in [1..NB -> ByteVal]
      <3>1. t \in [1..Len(t) -> ByteVal]
        BY <2>3
      <3>2. QED
        BY <2>3, <2>4, <3>1
    <2>6. WordOf(t) \in Word
      BY <2>5, WordOfType
    <2>7. QED
      BY <2>6 DEF t, a, b
  <1>3. Words(s) = [k \in 1..n |-> WordOf(SubSeq(s, NB * (k - 1) + 1, NB * k))]
    BY <1>1 DEF Words
  <1>4. QED
    BY <1>2, <1>3

LEMMA FileFacts ==
    ASSUME NEW f \in FILES
    PROVE  /\ Program(f) \in Seq(Word) /\ Len(Program(f)) \in Nat /\ Len(Program(f)) > 0
           /\ f.base \in Word /\ f.base % NB = 0
           /\ NB * Len(Program(f)) \in Word
           /\ f.base + NB * Len(Program(f)) <= NB * MEM
  <1>1. f.bytes \in Seq(ByteVal) /\ f.bytes # <<>> /\ f.base \in Nat /\ f.base % NB = 0
        /\ f.base + NB * Len(Program(f)) <= NB * MEM
    BY FilesAssumption DEF Program, ByteVal
  <1>2. PICK n \in Nat : n > 0 /\ Len(Padded(f.bytes)) = NB * n
    BY <1>1, PaddedLength
  <1>3. Program(f) \in Seq(Word) /\ Len(Program(f)) = n
    BY <1>1, <1>2, PaddedLength, WordsMeans DEF Program
  <1>4. NB * n \in Nat /\ f.base \in Nat /\ f.base + NB * n <= NB * MEM
    BY <1>1, <1>3, MultipleOnly
  <1>5. f.base \in Word /\ NB * n \in Word
    BY <1>4, Fits, Widths DEF Word
  <1>6. QED
    BY <1>1, <1>2, <1>3, <1>4, <1>5

LEMMA ImageFacts ==
    ASSUME NEW f \in FILES, NEW w, w = Image(f.bytes, f.base)
    PROVE  /\ w \in Seq(Word) /\ Len(w) = 4 + Len(Program(f))
           /\ w[1] = BIN_SIGNATURE /\ w[2] = f.base /\ w[3] = NB * Len(Program(f))
           /\ w[4] = Complement(Sum(Program(f)))
           /\ \A k \in 1..Len(Program(f)) : w[4 + k] = Program(f)[k]
  <1> DEFINE p == Program(f)
             h == <<BIN_SIGNATURE, f.base, NB * Len(p), Complement(Sum(p))>>
  <1>1. w = h \o p
    BY DEF Image, Program
  <1>2. p \in Seq(Word) /\ Len(p) \in Nat /\ f.base \in Word /\ NB * Len(p) \in Word
    BY FileFacts
  <1>3. Sum(p) \in Word
    BY <1>2, SumType
  <1>4. Complement(Sum(p)) \in Word
    BY <1>3, ComplementFits
  <1>5. BIN_SIGNATURE \in Word
    BY SignatureAssumption, Widths DEF Word
  <1> HIDE DEF p
  <1>6. h \in Seq(Word) /\ Len(h) = 4
    BY <1>2, <1>4, <1>5
  <1>7. h[1] = BIN_SIGNATURE /\ h[2] = f.base /\ h[3] = NB * Len(p) /\ h[4] = Complement(Sum(p))
    OBVIOUS
  <1> HIDE DEF h
  <1>12. p \in Seq(Word) /\ h \in Seq(Word) /\ Len(h) = 4 /\ Len(p) \in Nat
    BY <1>2, <1>6
  <1>13. \A j \in 1..(Len(h) + Len(p)) : w[j] = IF j <= Len(h) THEN h[j] ELSE p[j - Len(h)]
    <2>1. \A j \in 1..(Len(h) + Len(p)) : (h \o p)[j] = IF j <= Len(h) THEN h[j] ELSE p[j - Len(h)]
      BY <1>12, ConcatProperties, Zenon
    <2>2. QED
      BY <1>1, <2>1, Zenon
  <1>8. w \in Seq(Word) /\ Len(w) = 4 + Len(p)
    <2>1. w \in Seq(Word) /\ Len(w) = Len(h) + Len(p)
      BY <1>1, <1>12, ConcatProperties
    <2>2. QED
      BY <1>12, <2>1
  <1>9. w[1] = h[1] /\ w[2] = h[2] /\ w[3] = h[3] /\ w[4] = h[4]
    BY <1>12, <1>13
  <1>10. \A k \in 1..Len(p) : w[4 + k] = p[k]
    BY <1>12, <1>13
  <1>11. QED
    BY <1>7, <1>8, <1>9, <1>10 DEF p

LEMMA UploadFacts ==
    ASSUME NEW f \in FILES, NEW ws \in Uploads(f)
    PROVE  /\ ws \in Seq(Word)
           /\ Len(ws) >= 4 => ws[3] = NB * Len(Program(f))
  <1> DEFINE w == Image(f.bytes, f.base)
             n == Len(Program(f))
  <1>1. w \in Seq(Word) /\ Len(w) = 4 + n /\ w[3] = NB * n
    BY ImageFacts
  <1>2. n \in Nat /\ n > 0
    BY FileFacts
  <1>3. ws = w \/ (\E k \in DOMAIN w \ {3}, v \in NOISE : ws = [w EXCEPT ![k] = v])
        \/ (\E k \in {3, Len(w) - 1} : ws = SubSeq(w, 1, k))
    BY DEF Uploads
  <1> HIDE DEF w, n
  <1>4. CASE ws = w
    BY <1>1, <1>4 DEF n
  <1>5. ASSUME NEW k \in DOMAIN w \ {3}, NEW v \in NOISE, ws = [w EXCEPT ![k] = v]
        PROVE  ws \in Seq(Word) /\ ws[3] = NB * n
    <2>1. v \in Word
      BY NoiseAssumption DEF Word
    <2>2. ws \in Seq(Word)
      BY <1>1, <1>5, <2>1
    <2>3. ws[3] = w[3]
      BY <1>1, <1>2, <1>5
    <2>4. QED
      BY <1>1, <2>2, <2>3
  <1>6. ASSUME NEW k \in {3, Len(w) - 1}, ws = SubSeq(w, 1, k)
        PROVE  ws \in Seq(Word) /\ (Len(ws) >= 4 => ws[3] = NB * n)
    <2>1. k \in Nat /\ k <= Len(w)
      BY <1>1, <1>2
    <2>2. ws \in Seq(Word) /\ Len(ws) = k /\ \A j \in 1..k : ws[j] = w[j]
      BY <1>1, <1>6, <2>1
    <2>3. QED
      BY <1>1, <2>1, <2>2
  <1>7. QED
    BY <1>3, <1>4, <1>5, <1>6 DEF n

\* An upload that is complete and fits its checksum is the program.
LEMMA UploadChecks ==
    ASSUME NEW f \in FILES, NEW ws \in Uploads(f), NEW n \in Nat, n = Len(Program(f)),
           4 + n <= Len(ws), Add(Add(ws[4], Sum(Part(ws, n))), 1) = 0
    PROVE  Part(ws, n) = Program(f)
  <1> DEFINE w == Image(f.bytes, f.base)
             p == Program(f)
             d == Part(ws, n)
  <1>1. w \in Seq(Word) /\ Len(w) = 4 + n /\ w[4] = Complement(Sum(p))
        /\ \A k \in 1..n : w[4 + k] = p[k]
    BY ImageFacts
  <1>2. n > 0 /\ p \in Seq(Word) /\ Len(p) = n
    BY FileFacts
  <1>3. ws = w \/ (\E k \in DOMAIN w \ {3}, v \in NOISE : ws = [w EXCEPT ![k] = v])
        \/ (\E k \in {3, Len(w) - 1} : ws = SubSeq(w, 1, k))
    BY DEF Uploads
  <1>4. ws \in Seq(Word)
    BY UploadFacts
  <1>5. d \in [1..n -> Word] /\ \A k \in 1..n : d[k] = ws[4 + k]
    <2>1. \A k \in 1..n : ws[4 + k] \in Word
      BY <1>4
    <2>2. QED
      BY <2>1 DEF Part
  <1>6. p \in [1..n -> Word] /\ d \in Seq(Word)
    BY <1>2, <1>5
  <1>7. Sum(p) \in Word /\ Sum(d) \in Word /\ ws[4] \in Word
    BY <1>2, <1>4, <1>6, SumType
  <1>8. ws[4] = Complement(Sum(d))
    BY <1>7, ComplementFits
  <1> HIDE DEF w, p, d
  <1>9. ASSUME ws = w
        PROVE  d = p
    <2>1. \A k \in 1..n : d[k] = p[k]
      BY <1>1, <1>5, <1>9
    <2>2. QED
      BY <1>5, <1>6, <2>1
  <1>10. ASSUME NEW k \in DOMAIN w \ {3}, NEW v \in NOISE, ws = [w EXCEPT ![k] = v]
         PROVE  d = p
    <2>1. \A j \in 1..n : 4 + j # k => d[j] = p[j]
      BY <1>1, <1>5, <1>10
    <2>2. CASE k \in 1..4
      <3>1. \A j \in 1..n : d[j] = p[j]
        BY <2>1, <2>2
      <3>2. QED
        BY <1>5, <1>6, <3>1
    <2>3. CASE ~(k \in 1..4)
      <3>1. k - 4 \in 1..n /\ ws[4] = w[4]
        BY <1>1, <1>10, <2>3
      <3>2. Sum(d) = Sum(p)
        BY <1>1, <1>7, <1>8, <3>1, Widths DEF Complement, Word
      <3> DEFINE m == k - 4
      <3>3. m \in 1..n /\ \A j \in 1..n : j # m => d[j] = p[j]
        BY <2>1, <3>1
      <3> HIDE DEF m
      <3>4. d[m] = p[m]
        BY <1>5, <1>6, <3>2, <3>3, SumTells
      <3>5. \A j \in 1..n : d[j] = p[j]
        BY <3>3, <3>4
      <3>6. QED
        BY <1>5, <1>6, <3>5
    <2>4. QED
      BY <2>2, <2>3
  <1>11. ASSUME NEW k \in {3, Len(w) - 1}, ws = SubSeq(w, 1, k)
         PROVE  FALSE
    <2>1. k \in Nat /\ k <= Len(w) /\ k < 4 + n
      BY <1>1, <1>2
    <2>2. Len(ws) = k
      BY <1>1, <1>11, <2>1
    <2>3. QED
      BY <2>1, <2>2
  <1>12. d = p
    BY <1>3, <1>9, <1>10, <1>11
  <1>13. QED
    BY <1>12 DEF d, p
-----------------------------------------------------------------------------
(* Words in the flash. *)

FlashType == flash \in [0..(FLASH - 1) -> ByteVal]

LEMMA FlashWordMeans ==
    ASSUME FlashType, NEW a \in Nat, a + NB <= FLASH
    PROVE  /\ [k \in 1..NB |-> flash[a + k - 1]] \in [1..NB -> ByteVal]
           /\ FlashWord(a) = WordOf([k \in 1..NB |-> flash[a + k - 1]])
  <1>1. ASSUME NEW k \in 1..NB
        PROVE  (a + k - 1) % FLASH = a + k - 1 /\ a + k - 1 \in 0..(FLASH - 1)
    <2> DEFINE m == a + k - 1
    <2>1. m \in Nat /\ m < FLASH /\ m = FLASH * 0 + m
      BY Widths, Fits
    <2> HIDE DEF m
    <2>2. m % FLASH = m
      BY <2>1, Fits, DivModUnique
    <2>3. m \in 0..(FLASH - 1)
      BY <2>1, Fits
    <2>4. QED
      BY <2>2, <2>3 DEF m
  <1>2. [k \in 1..NB |-> flash[(a + k - 1) % FLASH]] = [k \in 1..NB |-> flash[a + k - 1]]
    BY <1>1
  <1>3. QED
    BY <1>1, <1>2 DEF FlashWord, FlashType

LEMMA FlashWordType == ASSUME FlashType, NEW a \in Nat PROVE FlashWord(a) \in Word
  <1>1. ASSUME NEW k \in 1..NB
        PROVE  flash[(a + k - 1) % FLASH] \in ByteVal
    <2>1. a + k - 1 \in Nat
      OBVIOUS
    <2>2. (a + k - 1) % FLASH \in 0..(FLASH - 1)
      BY <2>1, Fits, DivModMeans
    <2>3. QED
      BY <2>2 DEF FlashType
  <1> DEFINE bs == [k \in 1..NB |-> flash[(a + k - 1) % FLASH]]
  <1>2. bs \in [1..NB -> ByteVal]
    BY <1>1
  <1> HIDE DEF bs
  <1>3. WordOf(bs) \in Word
    BY <1>2, WordOfType
  <1>4. QED
    BY <1>3 DEF FlashWord, bs

\* The bytes of a word give it back.
LEMMA FlashWordIs ==
    ASSUME FlashType, NEW a \in Nat, a + NB <= FLASH, NEW w \in Word,
           \A r \in 0..(NB - 1) : flash[a + r] = ByteOf(w, r)
    PROVE  FlashWord(a) = w
  <1> DEFINE bs == [k \in 1..NB |-> flash[a + k - 1]]
  <1>1. FlashWord(a) = WordOf(bs)
    BY FlashWordMeans
  <1>2. ASSUME NEW k \in 1..NB
        PROVE  flash[a + k - 1] = ByteOf(w, k - 1)
    <2>1. k - 1 \in 0..(NB - 1) /\ a + (k - 1) = a + k - 1
      BY Widths
    <2>2. QED
      BY <2>1
  <1>3. bs = [k \in 1..NB |-> ByteOf(w, k - 1)]
    BY <1>2
  <1> HIDE DEF bs
  <1>4. WordOf(bs) = w
    BY <1>3, WordOfBytes
  <1>5. QED
    BY <1>1, <1>4

LEMMA FlashWordLarge ==
    ASSUME FlashType, NEW a \in Nat, a + NB <= FLASH, flash[a + (NB - 1)] = BYTE - 1
    PROVE  FlashWord(a) > NB * MEM
  <1> DEFINE bs == [k \in 1..NB |-> flash[a + k - 1]]
             c  == (BYTE - 1) * Power(BYTE, NB - 1)
  <1>1. FlashWord(a) = WordOf(bs) /\ bs \in [1..NB -> ByteVal]
    BY FlashWordMeans
  <1>2. bs[NB] = BYTE - 1
    <2>1. NB \in 1..NB /\ a + (NB - 1) = a + NB - 1
      BY Widths
    <2>2. QED
      BY <2>1
  <1> HIDE DEF bs
  <1>3. WordOf(bs) \in Word /\ WordOf(bs) >= c
    BY <1>1, <1>2, WordOfType, LargeWord
  <1>4. c \in Nat /\ NB * MEM < c
    <2> DEFINE p == Power(BYTE, NB - 1)
    <2>1. p \in Nat /\ BYTE - 1 \in Nat /\ NB * MEM < (BYTE - 1) * p
      BY WidthsAll, Fits
    <2> HIDE DEF p
    <2>2. (BYTE - 1) * p \in Nat
      BY <2>1
    <2>3. QED
      BY <2>1, <2>2 DEF p
  <1> HIDE DEF c
  <1>5. QED
    BY <1>1, <1>3, <1>4, Fits, Widths DEF Word

\* Nothing looks like a signature where nothing was ever stored.
LEMMA FlashWordUnused ==
    ASSUME FlashType, NEW b \in {0, BYTE - 1}, \A x \in 0..(FLASH - 1) : flash[x] = b
    PROVE  FlashWord(0) # BIN_SIGNATURE
  <1> DEFINE bs == [k \in 1..NB |-> flash[0 + k - 1]]
  <1>0. 0 \in Nat /\ 0 + NB <= FLASH
    BY Fits, Widths
  <1>1. FlashWord(0) = WordOf(bs)
    BY <1>0, FlashWordMeans
  <1>2. \A k \in 1..NB : 0 + k - 1 \in 0..(FLASH - 1)
    <2>1. NB <= FLASH /\ FLASH \in Nat /\ NB \in Nat
      BY <1>0, Fits, Widths
    <2>2. QED
      BY <2>1
  <1>3. bs = [k \in 1..NB |-> b]
    BY <1>2
  <1> HIDE DEF bs
  <1>4. WordOf(bs) \in {0, WORD - 1}
    <2>1. CASE b = 0
      BY <1>3, <2>1, ZeroWord
    <2>2. CASE b = BYTE - 1
      BY <1>3, <2>2, BlankWord
    <2>3. QED
      BY <2>1, <2>2
  <1>5. QED
    BY <1>1, <1>4, SignatureAssumption, Widths

\* The bytes of a sequence of words, word by word.
LEMMA BytesMeans ==
    ASSUME NEW ws \in Seq(Word)
    PROVE  /\ Bytes(ws) \in [1..(NB * Len(ws)) -> ByteVal]
           /\ \A n \in Nat, r \in 0..(NB - 1) :
                 n < Len(ws) => /\ NB * n + r + 1 \in 1..(NB * Len(ws))
                                /\ Bytes(ws)[NB * n + r + 1] = ByteOf(ws[n + 1], r)
  <1>1. NB * Len(ws) \in Nat /\ Len(ws) \in Nat
    BY MultipleOnly
  <1>2. ASSUME NEW m \in 1..(NB * Len(ws))
        PROVE  ByteOf(ws[((m - 1) \div NB) + 1], (m - 1) % NB) \in ByteVal
    <2> DEFINE q == (m - 1) \div NB
               r == (m - 1) % NB
    <2>0. m - 1 \in Nat
      OBVIOUS
    <2>1. q \in Nat /\ r \in 0..(NB - 1) /\ m - 1 = NB * q + r
      BY <2>0, MultipleMeans
    <2> HIDE DEF q, r
    <2>2. q < Len(ws)
      <3>1. NB * q < NB * Len(ws) /\ NB * q \in Nat
        BY <1>1, <2>1, MultipleOnly
      <3>2. QED
        BY <1>1, <2>1, <3>1, MultipleOrder
    <2>3. q + 1 \in 1..Len(ws) /\ r \in Nat
      BY <1>1, <2>1, <2>2
    <2>4. ws[q + 1] \in Word
      BY <2>3
    <2>5. QED
      BY <2>3, <2>4, ByteType DEF q, r
  <1>3. Bytes(ws) \in [1..(NB * Len(ws)) -> ByteVal]
    BY <1>2 DEF Bytes
  <1>4. ASSUME NEW n \in Nat, NEW r \in 0..(NB - 1), n < Len(ws)
        PROVE  /\ NB * n + r + 1 \in 1..(NB * Len(ws))
               /\ Bytes(ws)[NB * n + r + 1] = ByteOf(ws[n + 1], r)
    <2> DEFINE m == NB * n + r
    <2>1. NB * n + NB <= NB * Len(ws) /\ NB * n \in Nat
      BY <1>1, <1>4, MultipleOrder
    <2>2. m + 1 \in 1..(NB * Len(ws)) /\ (m + 1) - 1 = m
      BY <1>1, <2>1, Widths
    <2>3. m \div NB = n /\ m % NB = r
      BY Multiple
    <2> HIDE DEF m
    <2>4. Bytes(ws)[m + 1] = ByteOf(ws[n + 1], r)
      BY <2>2, <2>3 DEF Bytes
    <2>5. QED
      BY <2>2, <2>4 DEF m
  <1>5. QED
    BY <1>3, <1>4

\* Stored words are read back.
LEMMA FlashWordStored ==
    ASSUME FlashType, NEW ws \in Seq(Word), NEW n \in Nat, n < Len(ws), NEW b \in Nat,
           b + NB * Len(ws) <= FLASH,
           \A r \in 0..(NB - 1) : flash[b + (NB * n + r)] = Bytes(ws)[NB * n + r + 1]
    PROVE  FlashWord(b + NB * n) = ws[n + 1]
  <1> DEFINE a == b + NB * n
  <1>1. NB * n \in Nat /\ NB * n + NB <= NB * Len(ws) /\ NB * Len(ws) \in Nat
    BY MultipleOrder
  <1>2. a \in Nat /\ a + NB <= FLASH /\ \A r \in 0..(NB - 1) : b + (NB * n + r) = a + r
    BY <1>1, Widths, Fits
  <1>3. ws[n + 1] \in Word
    OBVIOUS
  <1>4. \A r \in 0..(NB - 1) : flash[a + r] = ByteOf(ws[n + 1], r)
    BY <1>2, BytesMeans
  <1> HIDE DEF a
  <1>5. FlashWord(a) = ws[n + 1]
    BY <1>2, <1>3, <1>4, FlashWordIs
  <1>6. QED
    BY <1>5 DEF a
-----------------------------------------------------------------------------
(* The inductive invariant. *)

WorkType ==
    work \in {None} \cup [op : {"erase"}, addr : 0..(FLASH - 1)]
                   \cup [op : {"program"}, addr : 0..(FLASH - 1), byte : ByteVal]

KeptType == kept \in {None} \cup [op : {"store", "keep"}, base : Word, data : Seq(Word)]

TypeInv ==
    /\ at \in {"auto", "prompt", "header", "copy", "confirm", "erase", "data", "header_out",
               "boot", "anyway", "quiet", "dark", "jump", "app", "halt"}
    /\ job \in {"auto", "u", "l", "s", "e"}
    /\ exe \in [base : Word, size : Word]
    /\ hdr \in [signature : Word, base_addr : Word, size : Word, checksum : Word]
    /\ i \in Nat /\ left \in Nat /\ g_flash_addr \in Nat
    /\ mem \in [0..(MEM - 1) -> Word]
    /\ FlashType
    /\ WorkType
    /\ stream \in Seq(Word)
    /\ KeptType
    /\ forced \in BOOLEAN

\* What the program that takes over finds.
IrqInv ==
    /\ led \in {0, 1} /\ mie \in BOOLEAN
    /\ at \in {"dark", "jump", "app"} => ~mie
    /\ at \in {"jump", "app"} => led = 0
    /\ at = "halt" => ~mie /\ led = 1

\* What counts as available lies in main memory, in whole words; nothing does
\* while a load is at work, and nothing else is started unless the user insists.
ExeInv ==
    /\ exe.size # 0 =>
         /\ exe.base % NB = 0 /\ exe.size % NB = 0
         /\ exe.base + exe.size <= NB * MEM
    /\ at \in {"auto", "header", "copy"} => exe.size = 0
    /\ at \in {"quiet", "dark", "jump", "app"} /\ ~forced => exe.size # 0
    /\ at \in {"confirm", "erase", "data", "header_out"} => exe.size # 0 /\ job = "s"
    /\ at \in {"header", "copy"} => job \in {"auto", "u", "l"}

\* The words a load takes, from the flash or as the host sent them.
FlashWords == [k \in Nat \ {0} |-> FlashWord(NB * (k - 1))]
Source(ws) ==
    IF job = "u" THEN \E f \in FILES : ws \in Uploads(f) ELSE ws = FlashWords

\* What the copy loop has done of them.
Copying(ws) ==
    /\ job = "u" => /\ 4 + i \div NB <= Len(ws)
                    /\ stream = SubSeq(ws, 5 + i \div NB, Len(ws))
    /\ job # "u" => g_flash_addr = BIN_OFFSET_DATA + i
    /\ hdr.signature = ws[1] /\ hdr.base_addr = ws[2] /\ hdr.size = ws[3]
    /\ hdr.signature = BIN_SIGNATURE
    /\ hdr.checksum = Add(ws[4], Sum(Part(ws, i \div NB)))
    /\ exe.base = hdr.base_addr
    /\ i % NB = 0
    /\ i > 0 => /\ hdr.base_addr % NB = 0
                /\ hdr.base_addr + i <= NB * MEM
                /\ i < hdr.size + NB
    /\ \A k \in 1..(i \div NB) : mem[hdr.base_addr \div NB + k - 1] = ws[4 + k]

LoadInv ==
    /\ at \in {"header", "copy"} /\ job # "u" => ~busy
    /\ at = "header" => IF job = "u" THEN \E f \in FILES : stream \in Uploads(f)
                                     ELSE g_flash_addr = 0
    /\ at = "copy" => \E ws : Source(ws) /\ Copying(ws)

\* The flash's share of a store: h bytes of the header, n bytes of data.
KeptHead(k) == <<BIN_SIGNATURE, k.base, NB * Len(k.data), Complement(Sum(k.data))>>
HeadOf(k) == Bytes(KeptHead(k))

HeadUpTo(k, h) ==
    \A x \in 0..(BIN_OFFSET_DATA - 1) :
        Settled[x] = IF x < h THEN HeadOf(k)[x + 1] ELSE BYTE - 1

DataUpTo(k, n) ==
    Covered(NB * Len(k.data)) => \A x \in 0..(n - 1) : Settled[BIN_OFFSET_DATA + x] = Bytes(k.data)[x + 1]

Blank(a, b) == \A x \in a..(b - 1) : Settled[x] = BYTE - 1

KeptInv ==
    /\ kept # None =>
         /\ kept.data # <<>>
         /\ kept.base % NB = 0
         /\ kept.base + NB * Len(kept.data) <= NB * MEM
    /\ kept.op = "none" => \E b \in {0, BYTE - 1} : \A x \in 0..(FLASH - 1) : Settled[x] = b
    /\ kept.op = "keep" => HeadUpTo(kept, BIN_OFFSET_DATA) /\ DataUpTo(kept, NB * Len(kept.data))
    /\ kept.op = "store" => \E h \in 0..BIN_OFFSET_DATA :
                              HeadUpTo(kept, h) /\ (h > 0 => DataUpTo(kept, NB * Len(kept.data)))

\* A store at work.
StoreInv ==
    /\ at = "confirm" => g_flash_addr = 0
    /\ at \in {"erase", "data", "header_out"} =>
         /\ hdr.signature = BIN_SIGNATURE /\ hdr.base_addr = exe.base /\ hdr.size = exe.size
    /\ at = "erase" =>
         /\ hdr.checksum = 0
         /\ g_flash_addr % SECTOR = 0
         /\ g_flash_addr + SECTOR * left = SECTOR * Sectors(exe.size)
         /\ g_flash_addr # 0 => kept = Loaded("store")
         /\ Blank(0, g_flash_addr)
    /\ at = "data" =>
         /\ kept = Loaded("store")
         /\ i <= exe.size
         /\ g_flash_addr = BIN_OFFSET_DATA + i
         /\ hdr.checksum = Sum(SubSeq(kept.data, 1, (i + NB - 1) \div NB))
         /\ DataUpTo(kept, i)
         /\ Blank(0, BIN_OFFSET_DATA)
         /\ Blank(BIN_OFFSET_DATA + i, SECTOR * Sectors(exe.size))
    /\ at = "header_out" =>
         /\ kept = Loaded("store")
         /\ i <= BIN_OFFSET_DATA
         /\ g_flash_addr = i
         /\ hdr.checksum = Complement(Sum(kept.data))
         /\ HeadUpTo(kept, i)
         /\ DataUpTo(kept, NB * Len(kept.data))

\* What a load from the flash has made available is what the flash keeps.
FetchInv ==
    job \in {"auto", "l"} /\ exe.size # 0 =>
        /\ kept # None
        /\ exe.base = kept.base /\ exe.size = NB * Len(kept.data)
        /\ Covered(exe.size) => Loaded(kept.op) = kept

IInv ==
    /\ TypeInv /\ IrqInv /\ ExeInv /\ LoadInv /\ KeptInv /\ StoreInv /\ FetchInv

\* Where all programs leave room for the header, whole programs only.
IsProgram(ws) == \E f \in FILES : ws = Program(f)

AllCovered == \A f \in FILES : Covered(NB * Len(Program(f)))

IntactInv ==
    /\ kept # None => IsProgram(kept.data)
    /\ exe.size # 0 => IsProgram(Loaded("keep").data)
-----------------------------------------------------------------------------
(* Lemmas about a state. *)

LEMMA WordConstants == 0 \in Word /\ BIN_SIGNATURE \in Word /\ 0 \in ByteVal /\ BYTE - 1 \in ByteVal
  BY SignatureAssumption, Widths DEF Word, ByteVal

LEMMA SettledIdle == ASSUME ~busy PROVE Settled = flash
  BY DEF Settled, busy, None

LEMMA SettledType == ASSUME FlashType, WorkType PROVE Settled \in [0..(FLASH - 1) -> ByteVal]
  <1>1. CASE work = None
    BY <1>1 DEF Settled, None, FlashType
  <1>2. CASE work \in [op : {"erase"}, addr : 0..(FLASH - 1)]
    BY <1>2, WordConstants DEF Settled, FlashType
  <1>3. CASE work \in [op : {"program"}, addr : 0..(FLASH - 1), byte : ByteVal]
    <2>1. flash[work.addr] \in ByteVal
      BY <1>3 DEF FlashType
    <2>2. Programmed(flash[work.addr], work.byte) \in ByteVal
      BY <1>3, <2>1, ProgrammedType
    <2>3. QED
      BY <1>3, <2>2 DEF Settled, FlashType
  <1>4. QED
    BY <1>1, <1>2, <1>3 DEF WorkType

LEMMA SettledStays == ASSUME UNCHANGED <<flash, work>> PROVE Settled' = Settled
  BY DEF Settled

LEMMA SettledDone == ASSUME FlashDone PROVE Settled' = Settled
  BY DEF Settled, FlashDone, None

\* What a sector's erase and a byte's programming will have done.
LEMMA SettledErased ==
    ASSUME FlashType, EraseSector, g_flash_addr \in Nat, g_flash_addr < FLASH
    PROVE  Settled' = [x \in 0..(FLASH - 1) |-> IF x \div SECTOR = g_flash_addr \div SECTOR
                                               THEN BYTE - 1 ELSE Settled[x]]
  <1>1. g_flash_addr % FLASH = g_flash_addr
    <2>1. g_flash_addr = FLASH * 0 + g_flash_addr
      BY Fits
    <2>2. QED
      BY <2>1, Fits, DivModUnique
  <1>2. work' = [op |-> "erase", addr |-> g_flash_addr] /\ flash' = flash /\ ~busy
    BY <1>1 DEF EraseSector
  <1>3. Settled = flash
    BY <1>2, SettledIdle
  <1>4. Settled' = [x \in DOMAIN flash |-> IF x \div SECTOR = g_flash_addr \div SECTOR
                                           THEN BYTE - 1 ELSE flash[x]]
    BY <1>2 DEF Settled
  <1>5. QED
    BY <1>3, <1>4 DEF FlashType

LEMMA SettledProgrammed ==
    ASSUME FlashType, ~busy, NEW b, PutByte(b), g_flash_addr \in Nat, g_flash_addr < FLASH
    PROVE  Settled' = [Settled EXCEPT ![g_flash_addr] = Programmed(@, b)]
  <1>1. g_flash_addr % FLASH = g_flash_addr
    <2>1. g_flash_addr = FLASH * 0 + g_flash_addr
      BY Fits
    <2>2. QED
      BY <2>1, Fits, DivModUnique
  <1>2. work' = [op |-> "program", addr |-> g_flash_addr, byte |-> b] /\ flash' = flash
    BY <1>1 DEF PutByte
  <1>3. Settled = flash
    BY SettledIdle
  <1>4. Settled' = [flash EXCEPT ![g_flash_addr] = Programmed(@, b)]
    BY <1>2 DEF Settled
  <1>5. QED
    BY <1>3, <1>4

\* The words in memory m from address b on, s bytes of them.
WordAt(m, a) == IF a % NB = 0 /\ a \div NB \in DOMAIN m THEN m[a \div NB] ELSE WORD
DataAt(m, b, s) == [k \in 1..(s \div NB) |-> WordAt(m, b + NB * (k - 1))]
LiesAt(d, m, b) ==
    \A k \in 1..Len(d) : b \div NB + k - 1 \in 0..(MEM - 1) /\ d[k] = m[b \div NB + k - 1]

LEMMA LoadedIs ==
    ASSUME NEW op
    PROVE  /\ Loaded(op) = [op |-> op, base |-> exe.base, data |-> DataAt(mem, exe.base, exe.size)]
           /\ Loaded(op)' = [op |-> op, base |-> exe'.base, data |-> DataAt(mem', exe'.base, exe'.size)]
  BY DEF Loaded, DataAt, WordAt, MemWord, Mapped

LEMMA WordAtMeans ==
    ASSUME NEW mm \in [0..(MEM - 1) -> Word], NEW a \in Nat, a % NB = 0, a + NB <= NB * MEM
    PROVE  WordAt(mm, a) = mm[a \div NB] /\ WordAt(mm, a) \in Word /\ a \div NB \in 0..(MEM - 1)
  <1>1. a = NB * (a \div NB) /\ a \div NB \in Nat
    BY MultipleMeans
  <1> DEFINE q == a \div NB
  <1> HIDE DEF q
  <1>2. a = NB * q /\ q \in Nat
    BY <1>1 DEF q
  <1>3. NB * q < NB * MEM
    BY <1>2, Widths, Fits
  <1>4. q < MEM
    BY <1>2, <1>3, Fits, MultipleOrder
  <1>5. q \in 0..(MEM - 1)
    BY <1>2, <1>4, Fits
  <1>6. QED
    BY <1>5 DEF WordAt, q

LEMMA DataAtMeans ==
    ASSUME NEW mm \in [0..(MEM - 1) -> Word], NEW b \in Nat, NEW s \in Nat, s > 0,
           b % NB = 0, s % NB = 0, b + s <= NB * MEM
    PROVE  LET d == DataAt(mm, b, s)
           IN  /\ s \div NB \in Nat /\ s \div NB > 0 /\ NB * (s \div NB) = s
               /\ d \in Seq(Word) /\ Len(d) = s \div NB /\ d # <<>>
               /\ LiesAt(d, mm, b)
               /\ \A k \in 1..(s \div NB) : d[k] = WordAt(mm, b + NB * (k - 1))
  <1> DEFINE n == s \div NB
             m == b \div NB
             d == [k \in 1..n |-> WordAt(mm, b + NB * (k - 1))]
  <1>2. s = NB * n /\ b = NB * m /\ n \in Nat /\ m \in Nat
    BY MultipleMeans
  <1>3. n > 0
    <2> HIDE DEF n
    <2>1. n = 0 => NB * n = 0
      BY Widths
    <2>2. QED
      BY <1>2, <2>1
  <1>6. DataAt(mm, b, s) = d
    BY DEF DataAt
  <1> HIDE DEF n, m
  <1>4. ASSUME NEW k \in 1..n
        PROVE  /\ WordAt(mm, b + NB * (k - 1)) = mm[m + k - 1] /\ WordAt(mm, b + NB * (k - 1)) \in Word
               /\ m + k - 1 \in 0..(MEM - 1)
    <2> DEFINE a == b + NB * (k - 1)
    <2>1. k - 1 \in Nat /\ k - 1 < n
      BY <1>2
    <2>2. NB * (k - 1) \in Nat /\ NB * (k - 1) + NB <= NB * n
      BY <1>2, <2>1, MultipleOrder
    <2>3. a \in Nat /\ a + NB <= NB * MEM
      BY <1>2, <2>2, Widths, Fits
    <2>4. a = NB * (m + (k - 1)) /\ m + (k - 1) \in Nat
      BY <1>2, <2>1, MultipleOrder
    <2>5. a % NB = 0 /\ a \div NB = m + (k - 1)
      BY <2>4, MultipleOnly
    <2> HIDE DEF a
    <2>6. WordAt(mm, a) = mm[a \div NB] /\ WordAt(mm, a) \in Word /\ a \div NB \in 0..(MEM - 1)
      BY <2>3, <2>5, WordAtMeans
    <2>7. m + (k - 1) = m + k - 1
      BY <1>2, <2>1
    <2>8. QED
      BY <2>5, <2>6, <2>7 DEF a
  <1>7. d \in [1..n -> Word]
    BY <1>4
  <1>8. \A k \in 1..n : d[k] = mm[m + k - 1] /\ d[k] = WordAt(mm, b + NB * (k - 1)) /\ m + k - 1 \in 0..(MEM - 1)
    BY <1>4
  <1> HIDE DEF d
  <1>9. d \in Seq(Word) /\ Len(d) = n
    BY <1>2, <1>7
  <1>10. d # <<>>
    BY <1>3, <1>9
  <1>12. LiesAt(d, mm, b)
    BY <1>8, <1>9 DEF LiesAt, m
  <1>11. QED
    BY <1>2, <1>3, <1>6, <1>8, <1>9, <1>10, <1>12 DEF n, m

\* What is loaded is what lies in memory.
LEMMA LoadedMeans ==
    ASSUME TypeInv, ExeInv, exe.size # 0, NEW op
    PROVE  LET k == Loaded(op)
           IN  /\ k = [op |-> op, base |-> exe.base, data |-> k.data]
               /\ k.data = DataAt(mem, exe.base, exe.size)
               /\ k.data \in Seq(Word) /\ k.data # <<>>
               /\ Len(k.data) = exe.size \div NB /\ NB * Len(k.data) = exe.size
               /\ \A n \in 1..Len(k.data) : k.data[n] = MemWord(exe.base + NB * (n - 1))
  <1>1. exe.size \in Nat /\ exe.base \in Nat /\ exe.size > 0 /\ mem \in [0..(MEM - 1) -> Word]
    BY Widths DEF TypeInv, Word
  <1>2. exe.size % NB = 0 /\ exe.base % NB = 0 /\ exe.base + exe.size <= NB * MEM
    BY DEF ExeInv
  <1> DEFINE d == DataAt(mem, exe.base, exe.size)
  <1>3. /\ NB * (exe.size \div NB) = exe.size
        /\ d \in Seq(Word) /\ Len(d) = exe.size \div NB /\ d # <<>>
        /\ \A k \in 1..(exe.size \div NB) : d[k] = WordAt(mem, exe.base + NB * (k - 1))
    BY <1>1, <1>2, DataAtMeans
  <1>4. Loaded(op) = [op |-> op, base |-> exe.base, data |-> d]
    BY LoadedIs
  <1> HIDE DEF d
  <1>5. Loaded(op).data = d
    BY <1>4
  <1>6. \A a : MemWord(a) = WordAt(mem, a)
    BY DEF MemWord, Mapped, WordAt
  <1>7. QED
    BY <1>3, <1>4, <1>5, <1>6 DEF d

\* The words a load takes next.
LEMMA StreamedMeans ==
    ASSUME TypeInv, NEW n \in Nat, StreamGet(n)
    PROVE  /\ Streamed(n) \in [1..n -> Word]
           /\ stream' \in Seq(Word) /\ g_flash_addr' \in Nat
           /\ job = "u" => /\ Len(stream) >= n
                           /\ stream' = SubSeq(stream, n + 1, Len(stream))
                           /\ \A k \in 1..n : Streamed(n)[k] = stream[k]
           /\ job # "u" => /\ g_flash_addr' = g_flash_addr + NB * n
                           /\ \A k \in 1..n : Streamed(n)[k] = FlashWord(g_flash_addr + NB * (k - 1))
  <1>1. CASE job = "u"
    <2>1. Len(stream) >= n /\ stream' = SubSeq(stream, n + 1, Len(stream)) /\ g_flash_addr' = g_flash_addr
      BY <1>1 DEF StreamGet
    <2>2. stream \in Seq(Word) /\ g_flash_addr \in Nat
      BY DEF TypeInv
    <2>3. stream' \in Seq(Word)
      BY <2>1, <2>2
    <2>4. Streamed(n) = SubSeq(stream, 1, n)
      BY <1>1 DEF Streamed
    <2>5. \A k \in 1..n : stream[k] \in Word
      BY <2>1, <2>2
    <2>6. SubSeq(stream, 1, n) \in Seq(Word) /\ Len(SubSeq(stream, 1, n)) = n
          /\ \A k \in 1..n : SubSeq(stream, 1, n)[k] = stream[k]
      BY <2>5, SubSeqProperties
    <2> DEFINE t == Streamed(n)
    <2>7. t \in Seq(Word) /\ Len(t) = n /\ \A k \in 1..n : t[k] = stream[k]
      BY <2>4, <2>6
    <2> HIDE DEF t
    <2>8. t \in [1..n -> Word]
      <3>1. t \in [1..Len(t) -> Word]
        BY <2>7
      <3>2. QED
        BY <2>7, <3>1
    <2>9. QED
      BY <1>1, <2>1, <2>2, <2>3, <2>7, <2>8 DEF t
  <1>2. CASE job # "u"
    <2>1. g_flash_addr' = g_flash_addr + NB * n /\ stream' = stream
      BY <1>2 DEF StreamGet
    <2>2. stream \in Seq(Word) /\ g_flash_addr \in Nat /\ FlashType
      BY DEF TypeInv
    <2>3. Streamed(n) = [k \in 1..n |-> FlashWord(g_flash_addr + NB * (k - 1))]
      BY <1>2 DEF Streamed
    <2>4. ASSUME NEW k \in 1..n
          PROVE  FlashWord(g_flash_addr + NB * (k - 1)) \in Word
      <3>1. k - 1 \in Nat
        OBVIOUS
      <3>2. NB * (k - 1) \in Nat
        BY <3>1, MultipleOnly
      <3>3. g_flash_addr + NB * (k - 1) \in Nat
        BY <2>2, <3>2
      <3>4. QED
        BY <2>2, <3>3, FlashWordType
    <2>5. NB * n \in Nat
      BY MultipleOnly
    <2>6. QED
      BY <1>2, <2>1, <2>2, <2>3, <2>4, <2>5
  <1>3. QED
    BY <1>1, <1>2

-----------------------------------------------------------------------------
(* The interrupt and the LED. *)

LEMMA IrqStep == ASSUME IrqInv, Next PROVE IrqInv'
  <1>1. ASSUME FlashDone
        PROVE  IrqInv'
    BY <1>1 DEF FlashDone, busy, code, irq, book, IrqInv
  <1>2. ASSUME Reset
        PROVE  IrqInv'
    BY <1>2 DEF Reset, Restarted, IrqInv
  <1>3. ASSUME Mti
        PROVE  IrqInv'
    BY <1>3 DEF Mti, code, dev, book, IrqInv
  <1>4. ASSUME TimeOut
        PROVE  IrqInv'
    BY <1>4 DEF TimeOut, LoadFlash, Load, Goto, irq, dev, IrqInv
  <1>5. ASSUME AnyKey
        PROVE  IrqInv'
    BY <1>5 DEF AnyKey, Goto, irq, code, dev, book, IrqInv
  <1>6. ASSUME GetHeader
        PROVE  IrqInv'
    BY <1>6 DEF GetHeader, StreamGet, Goto, irq, AfterLoad, Trap, book, IrqInv
  <1>7. ASSUME Copy
        PROVE  IrqInv'
    BY <1>7 DEF Copy, StreamGet, Trap, irq, book, IrqInv
  <1>8. ASSUME Copied
        PROVE  IrqInv'
    BY <1>8 DEF Copied, AfterLoad, Goto, Trap, irq, dev, book, IrqInv
  <1>9. ASSUME NEW f \in FILES, CmdUpload(f)
        PROVE  IrqInv'
    BY <1>9 DEF CmdUpload, Command, Load, Goto, irq, IrqInv
  <1>10. ASSUME CmdLoad
        PROVE  IrqInv'
    BY <1>10 DEF CmdLoad, Command, LoadFlash, Load, Goto, irq, dev, IrqInv
  <1>11. ASSUME CmdStore
        PROVE  IrqInv'
    BY <1>11 DEF CmdStore, Command, Store, Goto, irq, dev, IrqInv
  <1>12. ASSUME CmdBoot
        PROVE  IrqInv'
    BY <1>12 DEF CmdBoot, Command, Goto, irq, dev, IrqInv
  <1>13. ASSUME CmdExit
        PROVE  IrqInv'
    BY <1>13 DEF CmdExit, Command, Trap, code, dev, IrqInv
  <1>14. ASSUME CmdRestart
        PROVE  IrqInv'
    BY <1>14 DEF CmdRestart, Command, Restarted, IrqInv
  <1>15. ASSUME NEW yes \in BOOLEAN, Confirm(yes)
        PROVE  IrqInv'
    BY <1>15 DEF Confirm, Goto, irq, dev, book, IrqInv
  <1>16. ASSUME EraseSector
        PROVE  IrqInv'
    BY <1>16 DEF EraseSector, irq, IrqInv
  <1>17. ASSUME Erased
        PROVE  IrqInv'
    BY <1>17 DEF Erased, Goto, irq, dev, book, IrqInv
  <1>18. ASSUME StoreData
        PROVE  IrqInv'
    BY <1>18 DEF StoreData, PutByte, irq, book, IrqInv
  <1>19. ASSUME DataStored
        PROVE  IrqInv'
    BY <1>19 DEF DataStored, Goto, irq, dev, book, IrqInv
  <1>20. ASSUME StoreHeader
        PROVE  IrqInv'
    BY <1>20 DEF StoreHeader, PutByte, irq, book, IrqInv
  <1>21. ASSUME Stored
        PROVE  IrqInv'
    BY <1>21 DEF Stored, Goto, irq, dev, IrqInv
  <1>22. ASSUME Boot
        PROVE  IrqInv'
    BY <1>22 DEF Boot, Goto, irq, code, dev, book, IrqInv
  <1>23. ASSUME NEW yes \in BOOLEAN, Anyway(yes)
        PROVE  IrqInv'
    BY <1>23 DEF Anyway, Goto, irq, code, dev, IrqInv
  <1>24. ASSUME DisableIrq
        PROVE  IrqInv'
    BY <1>24 DEF DisableIrq, MieAtBoot, code, dev, book, IrqInv
  <1>25. ASSUME LedOff
        PROVE  IrqInv'
    BY <1>25 DEF LedOff, code, dev, book, IrqInv
  <1>26. ASSUME Jump
        PROVE  IrqInv'
    BY <1>26 DEF Jump, Goto, irq, code, dev, book, IrqInv
  <1>27. QED
    BY <1>1, <1>2, <1>3, <1>4, <1>5, <1>6, <1>7, <1>8, <1>9, <1>10, <1>11, <1>12, <1>13, <1>14,
       <1>15, <1>16, <1>17, <1>18, <1>19, <1>20, <1>21, <1>22, <1>23, <1>24, <1>25, <1>26 DEF
       Next, Cpu, User
-----------------------------------------------------------------------------
(* Types. *)

\* The word a store is at.
LEMMA StoreWord ==
    ASSUME TypeInv, ExeInv, StoreInv, at = "data", i - (i % NB) < hdr.size
    PROVE  LET n == i \div NB
               r == i % NB
               tmp == MemWord(hdr.base_addr + i - (i % NB))
           IN  /\ n \in Nat /\ r \in 0..(NB - 1) /\ i = NB * n + r
               /\ n < Len(kept.data) /\ i < exe.size /\ NB * Len(kept.data) = exe.size
               /\ tmp = kept.data[n + 1] /\ tmp \in Word
               /\ ByteOf(tmp, r) = Bytes(kept.data)[i + 1] /\ ByteOf(tmp, r) \in ByteVal
  <1> DEFINE n == i \div NB
             r == i % NB
             tmp == MemWord(hdr.base_addr + i - r)
  <1>1. kept = Loaded("store") /\ hdr.base_addr = exe.base /\ hdr.size = exe.size /\ exe.size # 0
    BY DEF StoreInv, ExeInv
  <1>2. kept.data \in Seq(Word) /\ NB * Len(kept.data) = exe.size
        /\ \A k \in 1..Len(kept.data) : kept.data[k] = MemWord(exe.base + NB * (k - 1))
    BY <1>1, LoadedMeans
  <1>3. i \in Nat /\ exe.base \in Nat /\ exe.size \in Nat
    BY Widths DEF TypeInv, Word
  <1>4. n \in Nat /\ r \in 0..(NB - 1) /\ i = NB * n + r /\ i - r < exe.size
    BY <1>1, <1>3, MultipleMeans
  <1> HIDE DEF n, r
  <1>5. NB * n \in Nat /\ NB * n < NB * Len(kept.data) /\ Len(kept.data) \in Nat
    BY <1>2, <1>4, MultipleOnly, Widths
  <1>6. n < Len(kept.data)
    BY <1>4, <1>5, MultipleOrder
  <1>7. NB * n + NB <= exe.size
    BY <1>2, <1>4, <1>5, <1>6, MultipleOrder
  <1>8. i < exe.size
    BY <1>3, <1>4, <1>5, <1>7, Widths
  <1>9. tmp = kept.data[n + 1] /\ kept.data[n + 1] \in Word
    <2>1. n + 1 \in 1..Len(kept.data) /\ (n + 1) - 1 = n
      BY <1>4, <1>5, <1>6
    <2>2. kept.data[n + 1] = MemWord(exe.base + NB * n)
      BY <1>2, <2>1
    <2>3. hdr.base_addr + i - r = exe.base + NB * n
      BY <1>1, <1>3, <1>4, <1>5, Widths
    <2>4. kept.data[n + 1] \in Word
      BY <1>2, <2>1
    <2>5. QED
      BY <2>2, <2>3, <2>4
  <1> HIDE DEF tmp
  <1>10. Bytes(kept.data)[NB * n + r + 1] = ByteOf(kept.data[n + 1], r)
    BY <1>2, <1>4, <1>6, BytesMeans
  <1>11. ByteOf(tmp, r) \in ByteVal
    <2>1. r \in Nat
      BY <1>4, Widths
    <2>2. QED
      BY <1>9, <2>1, ByteType
  <1>12. QED
    BY <1>2, <1>4, <1>6, <1>8, <1>9, <1>10, <1>11 DEF n, r, tmp

\* A byte of the header a store writes.
LEMMA HeaderByte ==
    ASSUME TypeInv, ExeInv, StoreInv, at = "header_out", i < BIN_OFFSET_DATA
    PROVE  /\ Bytes(HeaderWords(hdr))[i + 1] = HeadOf(kept)[i + 1]
           /\ Bytes(HeaderWords(hdr))[i + 1] \in ByteVal
  <1>1. kept = Loaded("store") /\ hdr.base_addr = exe.base /\ hdr.size = exe.size /\ exe.size # 0
        /\ hdr.signature = BIN_SIGNATURE /\ hdr.checksum = Complement(Sum(kept.data))
    BY DEF StoreInv, ExeInv
  <1>2. NB * Len(kept.data) = exe.size /\ kept.base = exe.base
    <2>1. Loaded("store").base = exe.base
      BY DEF Loaded
    <2>2. QED
      BY <1>1, <2>1, LoadedMeans
  <1>3. Bytes(HeaderWords(hdr)) = HeadOf(kept)
    BY <1>1, <1>2 DEF HeaderWords, HeadOf, KeptHead
  <1> DEFINE h == HeaderWords(hdr)
  <1>4. h \in Seq(Word) /\ Len(h) = 4
    BY DEF HeaderWords, TypeInv
  <1> HIDE DEF h
  <1>5. Bytes(h) \in [1..(NB * 4) -> ByteVal]
    BY <1>4, BytesMeans
  <1>6. i + 1 \in 1..(NB * 4)
    BY Fits DEF TypeInv
  <1>7. Bytes(h)[i + 1] \in ByteVal
    BY <1>5, <1>6
  <1>8. QED
    BY <1>3, <1>7 DEF h

\* What a flash busy with one thing is busy with.
LEMMA WorkTypes ==
    ASSUME g_flash_addr \in Nat
    PROVE  /\ [op |-> "erase", addr |-> g_flash_addr % FLASH] \in [op : {"erase"}, addr : 0..(FLASH - 1)]
           /\ \A b \in ByteVal : [op |-> "program", addr |-> g_flash_addr % FLASH, byte |-> b]
                                 \in [op : {"program"}, addr : 0..(FLASH - 1), byte : ByteVal]
  <1>1. g_flash_addr % FLASH \in 0..(FLASH - 1)
    BY Fits, DivModMeans
  <1>2. QED
    BY <1>1

LEMMA TypeStep == ASSUME TypeInv, ExeInv, StoreInv, Next PROVE TypeInv'
  <1>1. ASSUME FlashDone
        PROVE  TypeInv'
    <2>1. Settled \in [0..(FLASH - 1) -> ByteVal]
      BY SettledType DEF TypeInv
    <2>2. flash' = Settled /\ work' = None
      BY <1>1 DEF FlashDone
    <2>3. FlashType' /\ WorkType'
      BY <2>1, <2>2 DEF FlashType, WorkType
    <2>4. QED
      BY <1>1, <2>3 DEF FlashDone, code, irq, book, TypeInv, KeptType
  <1>2. ASSUME Reset
        PROVE  TypeInv'
    <2>1. exe' \in [base : Word, size : Word] /\ stream' \in Seq(Word)
      BY <1>2, WordConstants DEF Reset, Restarted
    <2>2. at' = "auto" /\ g_flash_addr' = 0 /\ forced' = FALSE
          /\ UNCHANGED <<job, hdr, i, left, mem, flash, work, kept>>
      BY <1>2 DEF Reset, Restarted
    <2>3. QED
      BY <2>1, <2>2 DEF TypeInv, FlashType, WorkType, KeptType
  <1>3. ASSUME Mti
        PROVE  TypeInv'
    BY <1>3, WordConstants DEF Mti, code, dev, book, TypeInv, FlashType, WorkType, KeptType
  <1>4. ASSUME TimeOut
        PROVE  TypeInv'
    BY <1>4, WordConstants DEF TimeOut, LoadFlash, Load, Goto, irq, dev, TypeInv, FlashType,
       WorkType, KeptType
  <1>5. ASSUME AnyKey
        PROVE  TypeInv'
    BY <1>5, WordConstants DEF AnyKey, Goto, irq, code, dev, book, TypeInv, FlashType, WorkType,
       KeptType
  <1>6. ASSUME GetHeader
        PROVE  TypeInv'
    <2>1. StreamGet(4) /\ 4 \in Nat
      BY <1>6 DEF GetHeader
    <2>2. Streamed(4) \in [1..4 -> Word] /\ stream' \in Seq(Word) /\ g_flash_addr' \in Nat
      BY <2>1, StreamedMeans
    <2> DEFINE t == Streamed(4)
    <2>3. hdr' = Header(t)
      BY <1>6 DEF GetHeader
    <2>4. t[1] \in Word /\ t[2] \in Word /\ t[3] \in Word /\ t[4] \in Word
      BY <2>2
    <2> HIDE DEF t
    <2>5. hdr' \in [signature : Word, base_addr : Word, size : Word, checksum : Word]
      BY <2>3, <2>4 DEF Header
    <2>6. exe' \in [base : Word, size : Word]
      BY <1>6, <2>5 DEF GetHeader, TypeInv
    <2>7. at' \in {"copy", "boot", "prompt", "halt"} /\ i' = 0
          /\ UNCHANGED <<job, left, mem, flash, work, kept, forced>>
      BY <1>6 DEF GetHeader, AfterLoad, Goto, Trap, book
    <2>8. QED
      BY <2>2, <2>5, <2>6, <2>7 DEF TypeInv, FlashType, WorkType, KeptType
  <1>7. ASSUME Copy
        PROVE  TypeInv'
    <2>1. StreamGet(1) /\ 1 \in Nat
      BY <1>7 DEF Copy
    <2> DEFINE tmp == Streamed(1)[1]
               a == Add(hdr.base_addr, i)
    <2>2. tmp \in Word /\ stream' \in Seq(Word) /\ g_flash_addr' \in Nat
      BY <2>1, StreamedMeans
    <2>3. IF Mapped(a)
          THEN /\ mem' = [mem EXCEPT ![a \div NB] = tmp]
               /\ hdr' = [hdr EXCEPT !.checksum = Add(@, tmp)]
               /\ i' = Add(i, NB)
               /\ at' = at
          ELSE at' = "halt" /\ UNCHANGED <<mem, hdr, i>>
      BY <1>7 DEF Copy, Trap
    <2> HIDE DEF tmp, a
    <2>4. Add(hdr.checksum, tmp) \in Word
      BY <2>2, AddType DEF TypeInv
    <2>5. Add(i, NB) \in Nat
      BY Widths DEF TypeInv, Add
    <2>6. mem' \in [0..(MEM - 1) -> Word] /\ i' \in Nat
          /\ hdr' \in [signature : Word, base_addr : Word, size : Word, checksum : Word]
          /\ at' \in {at, "halt"}
      BY <2>2, <2>3, <2>4, <2>5 DEF TypeInv
    <2>7. UNCHANGED <<job, exe, left, flash, work, kept, forced>>
      BY <1>7 DEF Copy, book
    <2>8. QED
      BY <2>2, <2>6, <2>7 DEF TypeInv, FlashType, WorkType, KeptType
  <1>8. ASSUME Copied
        PROVE  TypeInv'
    BY <1>8, WordConstants DEF Copied, AfterLoad, Goto, Trap, irq, dev, book, TypeInv, FlashType,
       WorkType, KeptType
  <1>9. ASSUME NEW f \in FILES, CmdUpload(f)
        PROVE  TypeInv'
    <2>1. stream' \in Seq(Word)
      BY <1>9, UploadFacts DEF CmdUpload
    <2>2. QED
      BY <1>9, <2>1, WordConstants DEF CmdUpload, Command, Load, Goto, irq, TypeInv, FlashType,
         WorkType, KeptType
  <1>10. ASSUME CmdLoad
        PROVE  TypeInv'
    BY <1>10, WordConstants DEF CmdLoad, Command, LoadFlash, Load, Goto, irq, dev, TypeInv,
       FlashType, WorkType, KeptType
  <1>11. ASSUME CmdStore
        PROVE  TypeInv'
    BY <1>11, WordConstants DEF CmdStore, Command, Store, Goto, irq, dev, TypeInv, FlashType,
       WorkType, KeptType
  <1>12. ASSUME CmdBoot
        PROVE  TypeInv'
    BY <1>12, WordConstants DEF CmdBoot, Command, Goto, irq, dev, TypeInv, FlashType, WorkType,
       KeptType
  <1>13. ASSUME CmdExit
        PROVE  TypeInv'
    BY <1>13, WordConstants DEF CmdExit, Command, Trap, code, dev, TypeInv, FlashType, WorkType,
       KeptType
  <1>14. ASSUME CmdRestart
        PROVE  TypeInv'
    <2>1. exe' \in [base : Word, size : Word] /\ stream' \in Seq(Word)
      BY <1>14, WordConstants DEF CmdRestart, Command, Restarted
    <2>2. at' = "auto" /\ g_flash_addr' = 0 /\ forced' = FALSE
          /\ UNCHANGED <<job, hdr, i, left, mem, flash, work, kept>>
      BY <1>14 DEF CmdRestart, Command, Restarted
    <2>3. QED
      BY <2>1, <2>2 DEF TypeInv, FlashType, WorkType, KeptType
  <1>15. ASSUME NEW yes \in BOOLEAN, Confirm(yes)
        PROVE  TypeInv'
    <2>1. Sectors(exe.size) \in Nat
      <3>1. exe.size \in Nat
        BY Widths DEF TypeInv, Word
      <3>2. exe.size \div SECTOR \in Nat
        BY <3>1, Fits, DivModMeans
      <3>3. QED
        BY <3>2 DEF Sectors
    <2>2. hdr' \in [signature : Word, base_addr : Word, size : Word, checksum : Word]
      BY <1>15, WordConstants DEF Confirm, Header, TypeInv
    <2>3. at' \in {"erase", "prompt"} /\ left' \in Nat /\ g_flash_addr' = 0
          /\ UNCHANGED <<job, exe, i, mem, flash, work, stream, kept, forced>>
      BY <1>15, <2>1 DEF Confirm, Goto, dev, book, TypeInv
    <2>4. QED
      BY <2>2, <2>3 DEF TypeInv, FlashType, WorkType, KeptType
  <1>16. ASSUME EraseSector
        PROVE  TypeInv'
    <2>1. at = "erase" /\ exe.size # 0 /\ g_flash_addr \in Nat /\ left \in Nat
      BY <1>16 DEF EraseSector, ExeInv, TypeInv
    <2>2. Loaded("store").data \in Seq(Word)
          /\ Loaded("store") = [op |-> "store", base |-> exe.base, data |-> Loaded("store").data]
      BY <2>1, LoadedMeans
    <2>3. KeptType'
      BY <1>16, <2>2 DEF EraseSector, KeptType, TypeInv
    <2>4. work' = [op |-> "erase", addr |-> g_flash_addr % FLASH]
          /\ g_flash_addr' = g_flash_addr + SECTOR /\ left' = left - 1 /\ left > 0
          /\ UNCHANGED <<at, job, exe, hdr, i, mem, flash, stream, forced>>
      BY <1>16 DEF EraseSector
    <2>5. WorkType'
      BY <2>1, <2>4, WorkTypes DEF WorkType
    <2>6. g_flash_addr' \in Nat /\ left' \in Nat
      BY <2>1, <2>4, Fits
    <2>7. QED
      BY <2>3, <2>4, <2>5, <2>6 DEF TypeInv, FlashType
  <1>17. ASSUME Erased
        PROVE  TypeInv'
    BY <1>17, Fits DEF Erased, Goto, irq, dev, book, TypeInv, FlashType, WorkType, KeptType
  <1>18. ASSUME StoreData
        PROVE  TypeInv'
    <2> DEFINE tmp == MemWord(hdr.base_addr + i - (i % NB))
               b == ByteOf(tmp, i % NB)
    <2>1. tmp \in Word /\ b \in ByteVal
      BY <1>18, StoreWord DEF StoreData
    <2>2. work' = [op |-> "program", addr |-> g_flash_addr % FLASH, byte |-> b]
          /\ g_flash_addr' = g_flash_addr + 1 /\ i' = i + 1
          /\ hdr' = [hdr EXCEPT !.checksum = IF i % NB = 0 THEN Add(@, tmp) ELSE @]
          /\ UNCHANGED <<at, job, exe, left, mem, flash, stream, kept, forced>>
      BY <1>18 DEF StoreData, PutByte, book
    <2> HIDE DEF tmp, b
    <2>3. WorkType'
      BY <2>1, <2>2, WorkTypes DEF WorkType, TypeInv
    <2>4. Add(hdr.checksum, tmp) \in Word
      BY <2>1, AddType DEF TypeInv
    <2>5. hdr' \in [signature : Word, base_addr : Word, size : Word, checksum : Word]
      BY <2>2, <2>4 DEF TypeInv
    <2>6. QED
      BY <2>2, <2>3, <2>5 DEF TypeInv, FlashType, KeptType
  <1>19. ASSUME DataStored
        PROVE  TypeInv'
    <2>1. Complement(hdr.checksum) \in Word
      BY ComplementFits DEF TypeInv
    <2>2. QED
      BY <1>19, <2>1 DEF DataStored, Goto, irq, dev, book, TypeInv, FlashType, WorkType, KeptType
  <1>20. ASSUME StoreHeader
        PROVE  TypeInv'
    <2> DEFINE b == Bytes(HeaderWords(hdr))[i + 1]
    <2>1. b \in ByteVal
      BY <1>20, HeaderByte DEF StoreHeader
    <2>2. work' = [op |-> "program", addr |-> g_flash_addr % FLASH, byte |-> b]
          /\ g_flash_addr' = g_flash_addr + 1 /\ i' = i + 1
          /\ UNCHANGED <<at, job, exe, hdr, left, mem, flash, stream, kept, forced>>
      BY <1>20 DEF StoreHeader, PutByte, book
    <2> HIDE DEF b
    <2>3. WorkType'
      BY <2>1, <2>2, WorkTypes DEF WorkType, TypeInv
    <2>4. QED
      BY <2>2, <2>3 DEF TypeInv, FlashType, KeptType
  <1>21. ASSUME Stored
        PROVE  TypeInv'
    <2>1. at = "header_out" /\ exe.size # 0
      BY <1>21 DEF Stored, ExeInv
    <2>2. Loaded("keep").data \in Seq(Word)
          /\ Loaded("keep") = [op |-> "keep", base |-> exe.base, data |-> Loaded("keep").data]
      BY <2>1, LoadedMeans
    <2>3. KeptType'
      BY <1>21, <2>2 DEF Stored, KeptType, TypeInv
    <2>4. QED
      BY <1>21, <2>3 DEF Stored, Goto, dev, TypeInv, FlashType, WorkType
  <1>22. ASSUME Boot
        PROVE  TypeInv'
    BY <1>22, WordConstants DEF Boot, Goto, irq, code, dev, book, TypeInv, FlashType, WorkType,
       KeptType
  <1>23. ASSUME NEW yes \in BOOLEAN, Anyway(yes)
        PROVE  TypeInv'
    BY <1>23, WordConstants DEF Anyway, Goto, irq, code, dev, TypeInv, FlashType, WorkType,
       KeptType
  <1>24. ASSUME DisableIrq
        PROVE  TypeInv'
    BY <1>24, WordConstants DEF DisableIrq, MieAtBoot, code, dev, book, TypeInv, FlashType,
       WorkType, KeptType
  <1>25. ASSUME LedOff
        PROVE  TypeInv'
    BY <1>25, WordConstants DEF LedOff, code, dev, book, TypeInv, FlashType, WorkType, KeptType
  <1>26. ASSUME Jump
        PROVE  TypeInv'
    BY <1>26, WordConstants DEF Jump, Goto, irq, code, dev, book, TypeInv, FlashType, WorkType,
       KeptType
  <1>27. QED
    BY <1>1, <1>2, <1>3, <1>4, <1>5, <1>6, <1>7, <1>8, <1>9, <1>10, <1>11, <1>12, <1>13, <1>14,
       <1>15, <1>16, <1>17, <1>18, <1>19, <1>20, <1>21, <1>22, <1>23, <1>24, <1>25, <1>26 DEF
       Next, Cpu, User

-----------------------------------------------------------------------------
(* What a load finds in the flash. *)

\* Sizes and words of what the flash keeps.
LEMMA KeptFacts ==
    ASSUME TypeInv, KeptInv, kept # None
    PROVE  /\ kept.op \in {"store", "keep"} /\ kept.base \in Word /\ kept.data \in Seq(Word)
           /\ kept.base \in Nat /\ kept.base % NB = 0
           /\ Len(kept.data) \in Nat /\ Len(kept.data) > 0
           /\ NB * Len(kept.data) \in Nat /\ NB * Len(kept.data) > 0
           /\ kept.base + NB * Len(kept.data) <= NB * MEM
           /\ KeptHead(kept) \in Seq(Word) /\ Len(KeptHead(kept)) = 4
           /\ KeptHead(kept)[1] = BIN_SIGNATURE /\ KeptHead(kept)[2] = kept.base
           /\ KeptHead(kept)[3] = NB * Len(kept.data)
           /\ KeptHead(kept)[4] = Complement(Sum(kept.data))
  <1>1. kept.op \in {"store", "keep"} /\ kept.base \in Word /\ kept.data \in Seq(Word)
    BY DEF TypeInv, KeptType
  <1>2. kept.data # <<>> /\ kept.base % NB = 0 /\ kept.base + NB * Len(kept.data) <= NB * MEM
    BY DEF KeptInv
  <1>3. kept.base \in Nat /\ Len(kept.data) \in Nat /\ Len(kept.data) > 0
    BY <1>1, <1>2, Widths DEF Word
  <1> DEFINE n == Len(kept.data)
  <1> HIDE DEF n
  <1>4. NB * n \in Nat /\ NB * n > 0
    BY <1>3, Widths, MultipleOnly DEF n
  <1>5. NB * n \in Word
    BY <1>2, <1>3, <1>4, Fits, Widths DEF Word, n
  <1>6. Complement(Sum(kept.data)) \in Word
    BY <1>1, SumType, ComplementFits
  <1>7. KeptHead(kept) = <<BIN_SIGNATURE, kept.base, NB * n, Complement(Sum(kept.data))>>
    BY DEF KeptHead, n
  <1>8. KeptHead(kept) \in Seq(Word) /\ Len(KeptHead(kept)) = 4
    BY <1>1, <1>5, <1>6, <1>7, WordConstants
  <1>9. QED
    BY <1>1, <1>2, <1>3, <1>4, <1>7, <1>8 DEF n

\* The words of the header that are complete.
LEMMA HeadWord ==
    ASSUME TypeInv, KeptInv, kept # None, ~busy, NEW h \in Nat, HeadUpTo(kept, h),
           NEW m \in 0..3, NB * m + NB <= h
    PROVE  FlashWord(NB * m) = KeptHead(kept)[m + 1]
  <1> DEFINE ws == KeptHead(kept)
  <1>1. ws \in Seq(Word) /\ Len(ws) = 4
    BY KeptFacts
  <1>2. Settled = flash /\ FlashType
    BY SettledIdle DEF TypeInv
  <1>3. ASSUME NEW r \in 0..(NB - 1)
        PROVE  flash[0 + (NB * m + r)] = Bytes(ws)[NB * m + r + 1]
    <2> DEFINE x == NB * m + r
    <2>1. NB * m \in Nat /\ NB * m + NB <= NB * 4
      <3>1. m < 4 /\ m \in Nat /\ 4 \in Nat
        OBVIOUS
      <3>2. QED
        BY <3>1, MultipleOrder
    <2>2. x \in 0..(BIN_OFFSET_DATA - 1) /\ x < h
      BY <2>1, Fits, Widths
    <2> HIDE DEF x
    <2>3. flash[x] = HeadOf(kept)[x + 1]
      BY <1>2, <2>2 DEF HeadUpTo
    <2>4. 0 + x = x
      BY <2>2
    <2>5. flash[0 + x] = Bytes(ws)[x + 1]
      BY <2>3, <2>4 DEF HeadOf
    <2>6. QED
      BY <2>5 DEF x
  <1>4. 0 + NB * Len(ws) <= FLASH /\ m < Len(ws) /\ m \in Nat /\ 0 \in Nat
    BY <1>1, Fits, Widths
  <1> HIDE DEF ws
  <1>5. FlashWord(0 + NB * m) = ws[m + 1]
    BY <1>1, <1>2, <1>3, <1>4, FlashWordStored
  <1>6. 0 + NB * m = NB * m
    BY <1>4, MultipleOnly
  <1>7. QED
    BY <1>5, <1>6 DEF ws

\* The data words of a program whose sectors were all erased.
LEMMA DataWord ==
    ASSUME TypeInv, KeptInv, kept # None, ~busy, DataUpTo(kept, NB * Len(kept.data)),
           Covered(NB * Len(kept.data)), NEW n \in Nat, n < Len(kept.data)
    PROVE  FlashWord(NB * (4 + n)) = kept.data[n + 1]
  <1> DEFINE ws == kept.data
  <1>1. ws \in Seq(Word) /\ NB * Len(ws) \in Nat /\ NB * Len(ws) <= NB * MEM /\ Len(ws) \in Nat
    BY KeptFacts, Fits
  <1>2. Settled = flash /\ FlashType
    BY SettledIdle DEF TypeInv
  <1>3. ASSUME NEW r \in 0..(NB - 1)
        PROVE  flash[BIN_OFFSET_DATA + (NB * n + r)] = Bytes(ws)[NB * n + r + 1]
    <2> DEFINE x == NB * n + r
    <2>1. NB * n \in Nat /\ NB * n + NB <= NB * Len(ws)
      BY <1>1, MultipleOrder
    <2>2. x \in 0..(NB * Len(ws) - 1)
      BY <1>1, <2>1, Widths
    <2> HIDE DEF x
    <2>3. flash[BIN_OFFSET_DATA + x] = Bytes(ws)[x + 1]
      BY <1>2, <2>2 DEF DataUpTo
    <2>4. QED
      BY <2>3 DEF x
  <1>4. BIN_OFFSET_DATA + NB * Len(ws) <= FLASH /\ BIN_OFFSET_DATA \in Nat
    BY <1>1, Fits
  <1> HIDE DEF ws
  <1>5. FlashWord(BIN_OFFSET_DATA + NB * n) = ws[n + 1]
    BY <1>1, <1>2, <1>3, <1>4, FlashWordStored DEF ws
  <1>6. BIN_OFFSET_DATA + NB * n = NB * (4 + n)
    BY Fits, MultipleOrder
  <1>7. QED
    BY <1>5, <1>6 DEF ws

\* Where there is a signature, there is the header of what was stored, or at
\* least its size is beyond all bounds; and data if all of the size is there.
LEMMA FlashHeader ==
    ASSUME TypeInv, KeptInv, ~busy
    PROVE  /\ FlashWord(0) = BIN_SIGNATURE => kept # None
           /\ kept # None /\ ~(FlashWord(NB * 2) > NB * MEM) =>
                /\ FlashWord(NB) = kept.base /\ FlashWord(NB * 2) = NB * Len(kept.data)
                /\ Covered(NB * Len(kept.data)) =>
                     \A n \in Nat : n < Len(kept.data) => FlashWord(NB * (4 + n)) = kept.data[n + 1]
           /\ kept.op = "keep" =>
                /\ FlashWord(0) = BIN_SIGNATURE /\ FlashWord(NB) = kept.base
                /\ FlashWord(NB * 2) = NB * Len(kept.data)
                /\ FlashWord(NB * 3) = Complement(Sum(kept.data))
  <1>0. FlashType /\ Settled = flash
    BY SettledIdle DEF TypeInv
  <1>1. ASSUME FlashWord(0) = BIN_SIGNATURE, kept = None
        PROVE  FALSE
    <2>1. PICK b \in {0, BYTE - 1} : \A x \in 0..(FLASH - 1) : Settled[x] = b
      BY <1>1 DEF KeptInv, None
    <2>2. QED
      BY <1>0, <1>1, <2>1, FlashWordUnused
  <1>2. ASSUME NEW h \in 0..BIN_OFFSET_DATA, HeadUpTo(kept, h), h > 0 => DataUpTo(kept, NB * Len(kept.data)),
               kept # None, ~(FlashWord(NB * 2) > NB * MEM)
        PROVE  /\ FlashWord(NB) = kept.base /\ FlashWord(NB * 2) = NB * Len(kept.data)
               /\ Covered(NB * Len(kept.data)) =>
                    \A n \in Nat : n < Len(kept.data) => FlashWord(NB * (4 + n)) = kept.data[n + 1]
    <2>1. NB * 2 \in Nat /\ NB * 1 = NB /\ NB * 2 + NB <= BIN_OFFSET_DATA /\ NB * 2 + (NB - 1) \in 0..(BIN_OFFSET_DATA - 1)
          /\ NB * 1 + NB = NB * 2 /\ BIN_OFFSET_DATA <= FLASH
      BY Widths, Fits
    <2>2. h >= NB * 2 + NB
      <3>1. ASSUME h < NB * 2 + NB
            PROVE  FALSE
        <4> DEFINE x == NB * 2 + (NB - 1)
        <4>1. x \in 0..(BIN_OFFSET_DATA - 1) /\ ~(x < h)
          BY <2>1, <3>1, Widths, Fits
        <4>2. flash[x] = BYTE - 1
          BY <1>0, <1>2, <4>1 DEF HeadUpTo
        <4>3. NB * 2 + NB <= FLASH
          BY <2>1, Fits, Widths
        <4>4. QED
          BY <1>0, <1>2, <2>1, <4>2, <4>3, FlashWordLarge
      <3>2. QED
        BY <3>1, <2>1, Widths, Fits
    <2>3. h \in Nat /\ h > 0
      BY <2>1, <2>2, Widths, Fits
    <2>4. FlashWord(NB * 2) = KeptHead(kept)[2 + 1]
      <3>1. 2 \in 0..3
        OBVIOUS
      <3>2. QED
        BY <1>2, <2>2, <2>3, <3>1, HeadWord
    <2>5. FlashWord(NB * 1) = KeptHead(kept)[1 + 1]
      <3>1. 1 \in 0..3 /\ NB * 1 + NB <= h
        BY <2>1, <2>2, <2>3, Widths
      <3>2. QED
        BY <1>2, <2>3, <3>1, HeadWord
    <2>6. Covered(NB * Len(kept.data)) =>
            \A n \in Nat : n < Len(kept.data) => FlashWord(NB * (4 + n)) = kept.data[n + 1]
      BY <1>2, <2>3, DataWord
    <2>7. QED
      BY <1>2, <2>1, <2>4, <2>5, <2>6, KeptFacts
  <1>3. ASSUME kept # None
        PROVE  \E h \in 0..BIN_OFFSET_DATA :
                  HeadUpTo(kept, h) /\ (h > 0 => DataUpTo(kept, NB * Len(kept.data)))
    <2>1. CASE kept.op = "store"
      BY <2>1 DEF KeptInv
    <2>2. CASE kept.op = "keep"
      <3>1. BIN_OFFSET_DATA \in 0..BIN_OFFSET_DATA
        BY Fits
      <3>2. QED
        BY <2>2, <3>1 DEF KeptInv
    <2>3. QED
      BY <1>3, <2>1, <2>2, KeptFacts
  <1>4. ASSUME kept.op = "keep"
        PROVE  /\ FlashWord(0) = BIN_SIGNATURE /\ FlashWord(NB) = kept.base
               /\ FlashWord(NB * 2) = NB * Len(kept.data)
               /\ FlashWord(NB * 3) = Complement(Sum(kept.data))
    <2>1. kept # None /\ HeadUpTo(kept, BIN_OFFSET_DATA)
      BY <1>4 DEF KeptInv, None
    <2>2. \A m \in 0..3 : NB * m + NB <= BIN_OFFSET_DATA
      <3>1. ASSUME NEW m \in 0..3
            PROVE  NB * m + NB <= BIN_OFFSET_DATA
        <4>1. m \in Nat /\ 4 \in Nat /\ m < 4
          OBVIOUS
        <4>2. QED
          BY <4>1, MultipleOrder, Fits
      <3>2. QED
        BY <3>1
    <2>3. BIN_OFFSET_DATA \in Nat
      BY Fits
    <2>4. \A m \in 0..3 : FlashWord(NB * m) = KeptHead(kept)[m + 1]
      BY <2>1, <2>2, <2>3, HeadWord
    <2>5. NB * 0 = 0 /\ NB * 1 = NB
      BY Widths
    <2>6. FlashWord(NB * 0) = KeptHead(kept)[0 + 1] /\ FlashWord(NB * 1) = KeptHead(kept)[1 + 1]
          /\ FlashWord(NB * 2) = KeptHead(kept)[2 + 1] /\ FlashWord(NB * 3) = KeptHead(kept)[3 + 1]
      BY <2>4
    <2>7. QED
      BY <2>1, <2>5, <2>6, KeptFacts
  <1>5. QED
    BY <1>1, <1>2, <1>3, <1>4
-----------------------------------------------------------------------------
(* A load at work. *)

LEMMA SourceType ==
    ASSUME FlashType, NEW ws, Source(ws), NEW m \in Nat, job = "u" => m <= Len(ws)
    PROVE  /\ \A k \in 1..m : ws[k] \in Word
           /\ job # "u" => \A k \in Nat : ws[k + 1] = FlashWord(NB * k)
  <1>1. CASE job = "u"
    <2>1. ws \in Seq(Word)
      BY <1>1, UploadFacts DEF Source
    <2>2. QED
      BY <1>1, <2>1
  <1>2. CASE job # "u"
    <2>1. ws = FlashWords
      BY <1>2 DEF Source
    <2>2. ASSUME NEW k \in Nat
          PROVE  ws[k + 1] = FlashWord(NB * k) /\ ws[k + 1] \in Word
      <3>1. k + 1 \in Nat \ {0} /\ (k + 1) - 1 = k
        OBVIOUS
      <3>2. ws[k + 1] = FlashWord(NB * k)
        BY <2>1, <3>1 DEF FlashWords
      <3>3. NB * k \in Nat
        BY MultipleOnly
      <3>4. QED
        BY <3>2, <3>3, FlashWordType
    <2>3. ASSUME NEW k \in 1..m
          PROVE  ws[k] \in Word
      <3>1. k - 1 \in Nat /\ (k - 1) + 1 = k
        OBVIOUS
      <3>2. ws[(k - 1) + 1] \in Word
        BY <2>2, <3>1
      <3>3. QED
        BY <3>1, <3>2
    <2>4. QED
      BY <1>2, <2>2, <2>3
  <1>3. QED
    BY <1>1, <1>2

\* The loop ends at the size.
LEMMA SizeReached ==
    ASSUME NEW n \in Nat, NEW l \in Nat, NB * n >= NB * l, l > 0,
           NB * n > 0 => NB * n < NB * l + NB
    PROVE  n = l /\ NB * n > 0
  <1>1. NB * (l + 1) = NB * l + NB * 1 /\ l + 1 \in Nat /\ NB * 1 = NB
    BY MultipleOrder, Widths
  <1>2. NB * l > 0 /\ NB * l \in Nat /\ NB * n \in Nat
    BY Widths, MultipleOnly
  <1>3. NB * n < NB * (l + 1)
    BY <1>1, <1>2
  <1>4. n < l + 1
    BY <1>1, <1>3, MultipleOrder
  <1>5. ~(n < l)
    BY <1>2, MultipleOrder
  <1>6. QED
    BY <1>2, <1>4, <1>5

\* What has been loaded when the loop ends.
LEMMA CopyEnds ==
    ASSUME TypeInv, ExeInv, LoadInv, KeptInv, at = "copy", i >= hdr.size
    PROVE  /\ hdr.size \in Nat /\ hdr.size > 0 /\ hdr.size % NB = 0
           /\ hdr.base_addr \in Nat /\ hdr.base_addr % NB = 0
           /\ hdr.base_addr + hdr.size <= NB * MEM
           /\ exe.base = hdr.base_addr
           /\ job = "u" /\ ChecksumFits(hdr) =>
                \E f \in FILES : DataAt(mem, hdr.base_addr, hdr.size) = Program(f)
           /\ job # "u" =>
                /\ kept # None
                /\ hdr.base_addr = kept.base /\ hdr.size = NB * Len(kept.data)
                /\ Covered(hdr.size) => DataAt(mem, hdr.base_addr, hdr.size) = kept.data
                /\ Covered(hdr.size) /\ kept.op = "keep" => ChecksumFits(hdr)
  <1>1. PICK ws : Source(ws) /\ Copying(ws)
    BY DEF LoadInv
  <1> DEFINE n == i \div NB
             b == hdr.base_addr
             d == DataAt(mem, b, hdr.size)
  <1>2. i \in Nat /\ b \in Nat /\ hdr.size \in Nat /\ FlashType /\ mem \in [0..(MEM - 1) -> Word]
        /\ hdr.checksum \in Word
    BY Widths DEF TypeInv, Word
  <1>3. n \in Nat /\ i = NB * n
    BY <1>1, <1>2, MultipleMeans DEF Copying
  <1>4. /\ job = "u" => 4 + n <= Len(ws)
        /\ hdr.signature = ws[1] /\ b = ws[2] /\ hdr.size = ws[3] /\ ws[1] = BIN_SIGNATURE
        /\ hdr.checksum = Add(ws[4], Sum(Part(ws, n)))
        /\ exe.base = b
        /\ i > 0 => b % NB = 0 /\ b + i <= NB * MEM /\ i < hdr.size + NB
        /\ \A k \in 1..n : mem[b \div NB + k - 1] = ws[4 + k]
    BY <1>1 DEF Copying
  <1> HIDE DEF n, b, d
  <1>5. ASSUME NEW l \in Nat, l > 0, hdr.size = NB * l
        PROVE  /\ n = l /\ i = hdr.size /\ hdr.size > 0 /\ hdr.size % NB = 0
               /\ b % NB = 0 /\ b + hdr.size <= NB * MEM
               /\ d \in Seq(Word) /\ Len(d) = n /\ \A k \in 1..n : d[k] = ws[4 + k]
    <2>1. n = l /\ NB * n > 0
      BY <1>3, <1>4, <1>5, SizeReached
    <2>2. i = hdr.size /\ hdr.size > 0 /\ b % NB = 0 /\ b + hdr.size <= NB * MEM
      BY <1>3, <1>4, <1>5, <2>1
    <2>3. hdr.size % NB = 0 /\ hdr.size \div NB = n
      BY <1>5, <2>1, MultipleOnly
    <2>4. d \in Seq(Word) /\ Len(d) = n /\ \A k \in 1..n : d[k] = mem[b \div NB + k - 1]
      <3>1. DataAt(mem, b, hdr.size) \in Seq(Word) /\ Len(DataAt(mem, b, hdr.size)) = hdr.size \div NB
            /\ LiesAt(DataAt(mem, b, hdr.size), mem, b)
        BY <1>2, <2>2, <2>3, DataAtMeans
      <3>2. QED
        BY <2>3, <3>1 DEF d, LiesAt
    <2>5. QED
      BY <1>4, <2>1, <2>2, <2>3, <2>4
  <1>6. CASE job = "u"
    <2>1. PICK f \in FILES : ws \in Uploads(f)
      BY <1>1, <1>6 DEF Source
    <2> DEFINE l == Len(Program(f))
    <2>2. l \in Nat /\ l > 0 /\ Program(f) \in Seq(Word)
      BY FileFacts
    <2>3. hdr.size = NB * l
      BY <1>3, <1>4, <1>6, <2>1, UploadFacts
    <2> HIDE DEF l
    <2>4. /\ n = l /\ hdr.size > 0 /\ hdr.size % NB = 0
          /\ b % NB = 0 /\ b + hdr.size <= NB * MEM
          /\ d \in Seq(Word) /\ Len(d) = n /\ \A k \in 1..n : d[k] = ws[4 + k]
      BY <1>5, <2>2, <2>3
    <2>5. ASSUME ChecksumFits(hdr)
          PROVE  d = Program(f)
      <3>1. Add(Add(ws[4], Sum(Part(ws, n))), 1) = 0
        BY <1>4, <2>5 DEF ChecksumFits
      <3>2. Part(ws, n) = Program(f)
        BY <1>3, <1>4, <1>6, <2>1, <2>4, <3>1, UploadChecks DEF l
      <3>3. \A k \in 1..n : Program(f)[k] = d[k]
        BY <2>4, <3>2 DEF Part
      <3>4. Len(Program(f)) = n
        BY <2>4 DEF l
      <3>5. QED
        BY <2>2, <2>4, <3>3, <3>4
    <2>6. QED
      BY <1>2, <1>4, <1>6, <2>4, <2>5 DEF b, d
  <1>7. CASE job # "u"
    <2>1. ~busy
      BY <1>7 DEF LoadInv
    <2>2. \A k \in Nat : ws[k + 1] = FlashWord(NB * k)
      <3>1. 0 \in Nat
        OBVIOUS
      <3>2. QED
        BY <1>1, <1>2, <1>7, <3>1, SourceType
    <2>3. NB * 0 = 0 /\ NB * 1 = NB
      BY Widths
    <2>4. ws[0 + 1] = FlashWord(NB * 0) /\ ws[1 + 1] = FlashWord(NB * 1)
          /\ ws[2 + 1] = FlashWord(NB * 2) /\ ws[3 + 1] = FlashWord(NB * 3)
      BY <2>2
    <2>5. FlashWord(0) = BIN_SIGNATURE /\ b = FlashWord(NB) /\ hdr.size = FlashWord(NB * 2)
          /\ ws[4] = FlashWord(NB * 3)
      BY <1>4, <2>3, <2>4
    <2>6. kept # None
      BY <2>1, <2>5, FlashHeader
    <2>7. ~(FlashWord(NB * 2) > NB * MEM)
      BY <1>2, <1>4, <2>5, Fits
    <2> DEFINE l == Len(kept.data)
    <2>8. b = kept.base /\ hdr.size = NB * l /\ l \in Nat /\ l > 0 /\ kept.data \in Seq(Word)
          /\ (Covered(NB * l) => \A k \in Nat : k < l => FlashWord(NB * (4 + k)) = kept.data[k + 1])
          /\ (kept.op = "keep" => FlashWord(NB * 3) = Complement(Sum(kept.data)))
      BY <2>1, <2>5, <2>6, <2>7, FlashHeader, KeptFacts
    <2> HIDE DEF l
    <2>9. /\ n = l /\ hdr.size > 0 /\ hdr.size % NB = 0
          /\ b % NB = 0 /\ b + hdr.size <= NB * MEM
          /\ d \in Seq(Word) /\ Len(d) = n /\ \A k \in 1..n : d[k] = ws[4 + k]
      BY <1>5, <2>8
    <2>10. ASSUME Covered(hdr.size)
           PROVE  d = kept.data /\ (kept.op = "keep" => ChecksumFits(hdr))
      <3>1. ASSUME NEW k \in 1..n
            PROVE  ws[4 + k] = kept.data[k]
        <4>1. k - 1 \in Nat /\ k - 1 < l /\ (k - 1) + 1 = k /\ 4 + (k - 1) \in Nat /\ (4 + (k - 1)) + 1 = 4 + k
          BY <2>8, <2>9
        <4>2. FlashWord(NB * (4 + (k - 1))) = kept.data[(k - 1) + 1]
          BY <2>8, <2>10, <4>1
        <4>3. ws[(4 + (k - 1)) + 1] = FlashWord(NB * (4 + (k - 1)))
          BY <2>2, <4>1
        <4>4. QED
          BY <4>1, <4>2, <4>3
      <3>2. d = kept.data
        <4>1. \A k \in 1..n : d[k] = kept.data[k]
          BY <2>9, <3>1
        <4>2. Len(kept.data) = n
          BY <2>9 DEF l
        <4>3. QED
          BY <2>8, <2>9, <4>1, <4>2
      <3>3. Part(ws, n) = kept.data
        <4>1. Part(ws, n) = [k \in 1..n |-> kept.data[k]]
          BY <3>1 DEF Part
        <4>2. Len(kept.data) = n /\ n \in Nat
          BY <1>3, <2>9 DEF l
        <4>3. QED
          BY <2>8, <4>1, <4>2
      <3>4. Sum(kept.data) \in Word
        BY <2>8, SumType
      <3>5. ASSUME kept.op = "keep"
            PROVE  ChecksumFits(hdr)
        <4>1. ws[4] = Complement(Sum(kept.data)) /\ Complement(Sum(kept.data)) \in Word
          BY <2>5, <2>8, <3>4, <3>5, ComplementFits
        <4>2. Add(Add(ws[4], Sum(kept.data)), 1) = 0
          BY <3>4, <4>1, ComplementFits
        <4>3. QED
          BY <1>4, <3>3, <4>2 DEF ChecksumFits
      <3>6. QED
        BY <3>2, <3>5
    <2>11. QED
      BY <1>2, <1>4, <1>7, <2>6, <2>8, <2>9, <2>10 DEF b, d, l
  <1>8. QED
    BY <1>6, <1>7

LEMMA ExeStep == ASSUME TypeInv, ExeInv, LoadInv, KeptInv, Next PROVE ExeInv'
  <1>0. exe \in [base : Word, size : Word]
    BY DEF TypeInv
  <1>1. ASSUME FlashDone
        PROVE  ExeInv'
    BY <1>1, <1>0 DEF FlashDone, busy, code, irq, book, ExeInv
  <1>2. ASSUME Reset
        PROVE  ExeInv'
    BY <1>2, <1>0 DEF Reset, Restarted, ExeInv
  <1>3. ASSUME Mti
        PROVE  ExeInv'
    BY <1>3, <1>0 DEF Mti, code, dev, book, ExeInv
  <1>4. ASSUME TimeOut
        PROVE  ExeInv'
    BY <1>4, <1>0 DEF TimeOut, LoadFlash, Load, Goto, irq, dev, ExeInv
  <1>5. ASSUME AnyKey
        PROVE  ExeInv'
    BY <1>5, <1>0 DEF AnyKey, Goto, irq, code, dev, book, ExeInv
  <1>6. ASSUME GetHeader
        PROVE  ExeInv'
    BY <1>6, <1>0 DEF GetHeader, StreamGet, Goto, irq, AfterLoad, Trap, book, ExeInv
  <1>7. ASSUME Copy
        PROVE  ExeInv'
    BY <1>7, <1>0 DEF Copy, StreamGet, Trap, irq, book, ExeInv
  <1>8. ASSUME Copied
        PROVE  ExeInv'
    <2>1. at = "copy" /\ i >= hdr.size
      BY <1>8 DEF Copied
    <2>2. /\ hdr.size > 0 /\ hdr.size \in Nat /\ hdr.size % NB = 0 /\ hdr.base_addr % NB = 0
          /\ hdr.base_addr + hdr.size <= NB * MEM /\ exe.base = hdr.base_addr
      BY <2>1, CopyEnds
    <2>3. exe.size = 0 /\ job \in {"auto", "u", "l"}
      BY <2>1 DEF ExeInv
    <2> DEFINE ok == ChecksumFits(hdr)
    <2> HIDE DEF ok
    <2>4. exe' = IF ok THEN [exe EXCEPT !.size = hdr.size] ELSE exe
      BY <1>8 DEF Copied, ok
    <2>5. at' = (IF job = "auto" /\ ok THEN "boot" ELSE IF job = "u" /\ ~ok THEN "halt" ELSE "prompt")
          /\ job' = job
      BY <1>8 DEF Copied, AfterLoad, Goto, Trap, ok
    <2>6. exe'.base = exe.base /\ exe'.size = IF ok THEN hdr.size ELSE 0
      BY <1>0, <2>3, <2>4
    <2>7. QED
      BY <2>2, <2>5, <2>6 DEF ExeInv
  <1>9. ASSUME NEW f \in FILES, CmdUpload(f)
        PROVE  ExeInv'
    BY <1>9, <1>0 DEF CmdUpload, Command, Load, Goto, irq, ExeInv
  <1>10. ASSUME CmdLoad
        PROVE  ExeInv'
    BY <1>10, <1>0 DEF CmdLoad, Command, LoadFlash, Load, Goto, irq, dev, ExeInv
  <1>11. ASSUME CmdStore
        PROVE  ExeInv'
    BY <1>11, <1>0 DEF CmdStore, Command, Store, Goto, irq, dev, ExeInv
  <1>12. ASSUME CmdBoot
        PROVE  ExeInv'
    BY <1>12, <1>0 DEF CmdBoot, Command, Goto, irq, dev, ExeInv
  <1>13. ASSUME CmdExit
        PROVE  ExeInv'
    BY <1>13, <1>0 DEF CmdExit, Command, Trap, code, dev, ExeInv
  <1>14. ASSUME CmdRestart
        PROVE  ExeInv'
    BY <1>14, <1>0 DEF CmdRestart, Command, Restarted, ExeInv
  <1>15. ASSUME NEW yes \in BOOLEAN, Confirm(yes)
        PROVE  ExeInv'
    BY <1>15, <1>0 DEF Confirm, Goto, irq, dev, book, ExeInv
  <1>16. ASSUME EraseSector
        PROVE  ExeInv'
    BY <1>16, <1>0 DEF EraseSector, irq, ExeInv
  <1>17. ASSUME Erased
        PROVE  ExeInv'
    BY <1>17, <1>0 DEF Erased, Goto, irq, dev, book, ExeInv
  <1>18. ASSUME StoreData
        PROVE  ExeInv'
    BY <1>18, <1>0 DEF StoreData, PutByte, irq, book, ExeInv
  <1>19. ASSUME DataStored
        PROVE  ExeInv'
    BY <1>19, <1>0 DEF DataStored, Goto, irq, dev, book, ExeInv
  <1>20. ASSUME StoreHeader
        PROVE  ExeInv'
    BY <1>20, <1>0 DEF StoreHeader, PutByte, irq, book, ExeInv
  <1>21. ASSUME Stored
        PROVE  ExeInv'
    BY <1>21, <1>0 DEF Stored, Goto, irq, dev, ExeInv
  <1>22. ASSUME Boot
        PROVE  ExeInv'
    BY <1>22, <1>0 DEF Boot, Goto, irq, code, dev, book, ExeInv
  <1>23. ASSUME NEW yes \in BOOLEAN, Anyway(yes)
        PROVE  ExeInv'
    BY <1>23, <1>0 DEF Anyway, Goto, irq, code, dev, ExeInv
  <1>24. ASSUME DisableIrq
        PROVE  ExeInv'
    BY <1>24, <1>0 DEF DisableIrq, MieAtBoot, code, dev, book, ExeInv
  <1>25. ASSUME LedOff
        PROVE  ExeInv'
    BY <1>25, <1>0 DEF LedOff, code, dev, book, ExeInv
  <1>26. ASSUME Jump
        PROVE  ExeInv'
    BY <1>26, <1>0 DEF Jump, Goto, irq, code, dev, book, ExeInv
  <1>27. QED
    BY <1>1, <1>2, <1>3, <1>4, <1>5, <1>6, <1>7, <1>8, <1>9, <1>10, <1>11, <1>12, <1>13, <1>14,
       <1>15, <1>16, <1>17, <1>18, <1>19, <1>20, <1>21, <1>22, <1>23, <1>24, <1>25, <1>26 DEF
       Next, Cpu, User
-----------------------------------------------------------------------------
(* Loads begin and go on. *)

\* The state of a load that nothing touched.
LEMMA CopyStays ==
    ASSUME LoadInv, at = "copy", UNCHANGED <<job, exe, hdr, i, g_flash_addr, mem, stream>>,
           job = "u" \/ flash' = flash
    PROVE  \E ws : Source(ws)' /\ Copying(ws)'
  <1>1. PICK ws : Source(ws) /\ Copying(ws)
    BY DEF LoadInv
  <1>2. Source(ws)'
    <2>1. CASE job = "u"
      BY <1>1, <2>1 DEF Source
    <2>2. CASE job # "u"
      <3>1. flash' = flash
        BY <2>2
      <3>2. FlashWords' = FlashWords
        BY <3>1 DEF FlashWords, FlashWord
      <3>3. QED
        BY <1>1, <2>2, <3>2 DEF Source
    <2>3. QED
      BY <2>1, <2>2
  <1>3. Copying(ws)'
    BY <1>1 DEF Copying
  <1>4. QED
    BY <1>2, <1>3

LEMMA CopyBegins ==
    ASSUME TypeInv, LoadInv, GetHeader, at' = "copy"
    PROVE  \E ws : Source(ws)' /\ Copying(ws)'
  <1> DEFINE t == Streamed(4)
  <1>1. StreamGet(4) /\ at = "header" /\ hdr' = Header(t) /\ i' = 0 /\ job' = job /\ mem' = mem
        /\ flash' = flash /\ exe' = [exe EXCEPT !.base = hdr'.base_addr] /\ hdr'.signature = BIN_SIGNATURE
    BY DEF GetHeader, AfterLoad, Goto, Trap
  <1>2. /\ t \in [1..4 -> Word]
        /\ job = "u" => /\ Len(stream) >= 4
                        /\ stream' = SubSeq(stream, 4 + 1, Len(stream))
                        /\ \A k \in 1..4 : t[k] = stream[k]
        /\ job # "u" => /\ g_flash_addr' = g_flash_addr + NB * 4
                        /\ \A k \in 1..4 : t[k] = FlashWord(g_flash_addr + NB * (k - 1))
    <2>1. 4 \in Nat
      OBVIOUS
    <2>2. QED
      BY <1>1, <2>1, StreamedMeans
  <1> HIDE DEF t
  <1>3. t[1] \in Word /\ t[2] \in Word /\ t[3] \in Word /\ t[4] \in Word
    BY <1>2
  <1>4. hdr' = [signature |-> t[1], base_addr |-> t[2], size |-> t[3], checksum |-> t[4]]
    BY <1>1 DEF Header
  <1>5. exe'.base = t[2]
    BY <1>1, <1>4 DEF TypeInv
  <1>6. i' \div NB = 0 /\ i' % NB = 0
    <2>1. NB * 0 = 0 /\ 0 \in Nat
      BY Widths
    <2>2. QED
      BY <1>1, <2>1, MultipleOnly
  <1>7. ASSUME NEW ws, ws[1] = t[1], ws[2] = t[2], ws[3] = t[3], ws[4] = t[4]
        PROVE  /\ hdr'.signature = ws[1] /\ hdr'.base_addr = ws[2] /\ hdr'.size = ws[3]
               /\ hdr'.signature = BIN_SIGNATURE
               /\ hdr'.checksum = Add(ws[4], Sum(Part(ws, i' \div NB)))
               /\ exe'.base = hdr'.base_addr
               /\ i' % NB = 0 /\ ~(i' > 0)
               /\ \A k \in 1..(i' \div NB) : mem'[hdr'.base_addr \div NB + k - 1] = ws[4 + k]
    <2>1. Part(ws, 0) = <<>>
      BY DEF Part
    <2>2. Add(ws[4], Sum(Part(ws, 0))) = ws[4]
      BY <1>3, <1>7, <2>1, SumNothing, AddNone
    <2>3. QED
      BY <1>1, <1>4, <1>5, <1>6, <1>7, <2>2
  <1>8. CASE job = "u"
    <2>1. PICK f \in FILES : stream \in Uploads(f)
      BY <1>1, <1>8 DEF LoadInv
    <2>2. PICK ws : ws = stream
      OBVIOUS
    <2>3. Source(ws)'
      BY <1>1, <1>8, <2>1, <2>2 DEF Source
    <2>4. Copying(ws)'
      <3>1. ws[1] = t[1] /\ ws[2] = t[2] /\ ws[3] = t[3] /\ ws[4] = t[4]
        BY <1>2, <1>8, <2>2
      <3>2. 4 + i' \div NB <= Len(ws) /\ stream' = SubSeq(ws, 5 + i' \div NB, Len(ws))
        BY <1>2, <1>6, <1>8, <2>2
      <3>3. QED
        BY <1>1, <1>7, <1>8, <3>1, <3>2 DEF Copying
    <2>5. QED
      BY <2>3, <2>4
  <1>9. CASE job # "u"
    <2>1. g_flash_addr = 0 /\ NB * 4 = BIN_OFFSET_DATA /\ BIN_OFFSET_DATA \in Nat
      BY <1>1, <1>9, Fits DEF LoadInv
    <2>2. PICK ws : ws = FlashWords
      OBVIOUS
    <2>3. Source(ws)'
      <3>1. FlashWords' = FlashWords
        BY <1>1 DEF FlashWords, FlashWord
      <3>2. QED
        BY <1>1, <1>9, <2>2, <3>1 DEF Source
    <2>4. Copying(ws)'
      <3>1. \A k \in 1..4 : ws[k] = FlashWord(NB * (k - 1))
        BY <2>2 DEF FlashWords
      <3>2. \A k \in 1..4 : 0 + NB * (k - 1) = NB * (k - 1)
        BY Widths
      <3>3. \A k \in 1..4 : t[k] = ws[k]
        BY <1>2, <1>9, <2>1, <3>1, <3>2
      <3>4. ws[1] = t[1] /\ ws[2] = t[2] /\ ws[3] = t[3] /\ ws[4] = t[4]
        BY <3>3
      <3>5. g_flash_addr' = BIN_OFFSET_DATA + i'
        BY <1>1, <1>2, <1>9, <2>1
      <3>6. QED
        BY <1>1, <1>7, <1>9, <3>4, <3>5 DEF Copying
    <2>5. QED
      BY <2>3, <2>4
  <1>10. QED
    BY <1>8, <1>9

LEMMA CopyGoesOn ==
    ASSUME TypeInv, LoadInv, Copy, at' = "copy"
    PROVE  \E ws : Source(ws)' /\ Copying(ws)'
  <1> DEFINE tmp == Streamed(1)[1]
             a == Add(hdr.base_addr, i)
             n == i \div NB
             b == hdr.base_addr
             q == a \div NB
  <1>0. at = "copy" /\ i < hdr.size /\ StreamGet(1)
        /\ UNCHANGED <<job, exe, flash>>
    BY DEF Copy
  <1>1. Mapped(a) /\ mem' = [mem EXCEPT ![q] = tmp]
        /\ hdr' = [hdr EXCEPT !.checksum = Add(@, tmp)] /\ i' = Add(i, NB)
    BY DEF Copy, Trap
  <1>2. PICK ws : Source(ws) /\ Copying(ws)
    BY <1>0 DEF LoadInv
  <1>3. i \in Nat /\ b \in Nat /\ b \in Word /\ hdr.size \in Nat /\ FlashType /\ mem \in [0..(MEM - 1) -> Word]
        /\ hdr \in [signature : Word, base_addr : Word, size : Word, checksum : Word]
    BY Widths DEF TypeInv, Word
  <1>4. n \in Nat /\ i = NB * n
    BY <1>2, <1>3, MultipleMeans DEF Copying
  <1>5. a % NB = 0 /\ q \in 0..(MEM - 1)
    BY <1>1, <1>3 DEF Mapped
  <1>19. /\ Streamed(1) \in [1..1 -> Word]
         /\ job = "u" => /\ Len(stream) >= 1
                         /\ stream' = SubSeq(stream, 1 + 1, Len(stream))
                         /\ Streamed(1)[1] = stream[1]
         /\ job # "u" => /\ g_flash_addr' = g_flash_addr + NB * 1
                         /\ Streamed(1)[1] = FlashWord(g_flash_addr + NB * (1 - 1))
    <2>1. 1 \in Nat /\ 1 \in 1..1
      OBVIOUS
    <2>2. QED
      BY <1>0, <2>1, StreamedMeans
  <1> HIDE DEF tmp
  <1>20. /\ tmp \in Word
         /\ job = "u" => Len(stream) >= 1 /\ stream' = SubSeq(stream, 2, Len(stream)) /\ tmp = stream[1]
         /\ job # "u" => g_flash_addr' = g_flash_addr + NB /\ tmp = FlashWord(g_flash_addr)
    <2>1. NB * 1 = NB /\ NB * (1 - 1) = 0 /\ g_flash_addr \in Nat
      BY Widths DEF TypeInv
    <2>2. g_flash_addr + 0 = g_flash_addr
      BY <2>1
    <2>3. QED
      BY <1>19, <2>1, <2>2 DEF tmp
  <1> HIDE DEF n, b
  \* The address.
  <1>6. i \in Word /\ b + i < WORD
    <2>1. CASE i = 0
      BY <1>3, <2>1, Widths DEF Word
    <2>2. CASE i # 0
      <3>1. b + i <= NB * MEM
        BY <1>2, <1>3, <2>2 DEF Copying, b
      <3>2. QED
        BY <1>3, <3>1, Fits, Widths DEF Word
    <2>3. QED
      BY <2>1, <2>2
  <1>7. a = b + i
    BY <1>3, <1>6, AddMeans DEF b
  <1> HIDE DEF a
  <1>8. a = NB * q /\ q \in Nat /\ q < MEM
    <2>1. a \in Nat
      BY <1>3, <1>7
    <2>2. QED
      BY <1>5, <2>1, MultipleMeans, Fits
  <1> HIDE DEF q
  <1>9. a + NB <= NB * MEM
    BY <1>8, Fits, MultipleOrder
  <1>10. n <= q
    <2>1. NB * n <= NB * q
      BY <1>3, <1>4, <1>7, <1>8
    <2>2. QED
      BY <1>4, <1>8, <2>1, MultipleOrder
  <1>11. b = NB * (q - n) /\ q - n \in Nat
    <2>1. q - n \in Nat /\ q = n + (q - n)
      BY <1>4, <1>8, <1>10
    <2>2. NB * (n + (q - n)) = NB * n + NB * (q - n) /\ NB * (q - n) \in Nat /\ NB * n \in Nat
      BY <1>4, <2>1, MultipleOrder
    <2>3. NB * q = NB * n + NB * (q - n)
      BY <2>1, <2>2
    <2>4. QED
      BY <1>3, <1>4, <1>7, <1>8, <2>1, <2>2, <2>3
  <1>12. b % NB = 0 /\ b \div NB = q - n
    BY <1>11, MultipleOnly
  \* The loop variable.
  <1>13. i' = i + NB
    <2>1. i + NB < WORD /\ NB \in Word
      BY <1>3, <1>7, <1>9, Fits, Widths DEF Word
    <2>2. QED
      BY <1>1, <1>6, <2>1, AddMeans
  <1>14. i' = NB * (n + 1) /\ i' \div NB = n + 1 /\ i' % NB = 0
    <2>1. NB * (n + 1) = NB * n + NB * 1 /\ NB * 1 = NB /\ n + 1 \in Nat
      BY <1>4, MultipleOrder, Widths
    <2>2. i' = NB * (n + 1)
      BY <1>4, <1>13, <2>1
    <2>3. QED
      BY <2>1, <2>2, MultipleOnly
  \* The word.
  <1>15. tmp = ws[4 + (n + 1)] /\ (job = "u" => 4 + (n + 1) <= Len(ws))
         /\ (job = "u" => stream' = SubSeq(ws, 5 + (n + 1), Len(ws)))
         /\ (job # "u" => g_flash_addr' = BIN_OFFSET_DATA + i')
    <2>1. CASE job = "u"
      <3>1. ws \in Seq(Word)
        BY <1>2, <2>1, UploadFacts DEF Source
      <3>2. 4 + n <= Len(ws) /\ stream = SubSeq(ws, 5 + n, Len(ws))
        BY <1>2, <2>1 DEF Copying, n
      <3>3. Len(stream) >= 1 /\ tmp = stream[1] /\ stream' = SubSeq(stream, 2, Len(stream))
        BY <1>20, <2>1
      <3>4. Len(ws) \in Nat /\ \A k \in (5 + n)..Len(ws) : ws[k] \in Word
        BY <1>4, <3>1
      <3>5. 5 + n <= Len(ws)
        <4>1. 5 + n \in Int /\ Len(ws) \in Int
          BY <1>4, <3>4
        <4>2. ASSUME ~(5 + n <= Len(ws))
              PROVE  FALSE
          <5>1. Len(ws) < 5 + n
            BY <4>1, <4>2
          <5>2. stream = <<>>
            BY <3>2, <4>1, <5>1, SubSeqEmpty
          <5>3. QED
            BY <3>3, <5>2
        <4>3. QED
          BY <4>2
      <3>6. Len(stream) = Len(ws) - (5 + n) + 1
            /\ \A k \in 1..(Len(ws) - (5 + n) + 1) : stream[k] = ws[(5 + n) + k - 1]
        <4>1. 5 + n \in Int /\ Len(ws) \in Int
          BY <1>4, <3>4
        <4>2. QED
          BY <3>2, <3>4, <3>5, <4>1, SubSeqProperties
      <3>7. tmp = ws[5 + n]
        <4>1. 1 \in 1..(Len(ws) - (5 + n) + 1) /\ (5 + n) + 1 - 1 = 5 + n
          BY <1>4, <3>4, <3>5
        <4>2. QED
          BY <3>3, <3>6, <4>1
      <3>8. stream' = SubSeq(ws, 5 + (n + 1), Len(ws))
        <4> DEFINE u == SubSeq(stream, 2, Len(stream))
                   v == SubSeq(ws, 5 + (n + 1), Len(ws))
                   l == Len(ws) - (5 + n)
        <4>1. l \in Nat
          BY <1>4, <3>4, <3>5
        <4>2. u \in Seq(Word) /\ Len(u) = l /\ \A k \in 1..l : u[k] = stream[2 + k - 1]
          <5>1. \A k \in 2..Len(stream) : stream[k] \in Word
            BY DEF TypeInv
          <5>2. 2 \in Int /\ Len(stream) \in Int
            BY DEF TypeInv
          <5>3. u \in Seq(Word) /\ Len(u) = (IF 2 <= Len(stream) THEN Len(stream) - 2 + 1 ELSE 0)
                /\ \A k \in 1..(Len(stream) - 2 + 1) : u[k] = stream[2 + k - 1]
            BY <5>1, <5>2, SubSeqProperties
          <5> HIDE DEF u
          <5>4. Len(stream) - 2 + 1 = l
            BY <1>4, <3>4, <3>6
          <5>5. QED
            BY <3>3, <4>1, <5>2, <5>3, <5>4
        <4>3. v \in Seq(Word) /\ Len(v) = l /\ \A k \in 1..l : v[k] = ws[5 + (n + 1) + k - 1]
          <5>1. \A k \in (5 + (n + 1))..Len(ws) : ws[k] \in Word
            BY <1>4, <3>4
          <5>2. 5 + (n + 1) \in Int /\ Len(ws) \in Int
            BY <1>4, <3>4
          <5>3. v \in Seq(Word) /\ Len(v) = (IF 5 + (n + 1) <= Len(ws) THEN Len(ws) - (5 + (n + 1)) + 1 ELSE 0)
                /\ \A k \in 1..(Len(ws) - (5 + (n + 1)) + 1) : v[k] = ws[5 + (n + 1) + k - 1]
            BY <5>1, <5>2, SubSeqProperties
          <5> HIDE DEF v
          <5>4. Len(ws) - (5 + (n + 1)) + 1 = l
            BY <1>4, <3>4
          <5>5. (IF 5 + (n + 1) <= Len(ws) THEN l ELSE 0) = l
            BY <1>4, <3>4, <3>5
          <5> HIDE DEF l
          <5>6. Len(v) = l /\ \A k \in 1..l : v[k] = ws[5 + (n + 1) + k - 1]
            BY <5>3, <5>4, <5>5
          <5>7. QED
            BY <5>3, <5>6
        <4>4. ASSUME NEW k \in 1..l
              PROVE  stream[2 + k - 1] = ws[5 + (n + 1) + k - 1]
          <5>1. k + 1 \in 1..(Len(ws) - (5 + n) + 1) /\ 2 + k - 1 = k + 1
                /\ (5 + n) + (k + 1) - 1 = 5 + (n + 1) + k - 1
            BY <1>4, <3>4, <3>5, <4>1
          <5>2. stream[k + 1] = ws[(5 + n) + (k + 1) - 1]
            BY <3>6, <5>1
          <5>3. QED
            BY <5>1, <5>2
        <4> HIDE DEF u, v, l
        <4>5. \A k \in 1..l : u[k] = v[k]
          BY <4>2, <4>3, <4>4
        <4>6. u = v
          BY <4>1, <4>2, <4>3, <4>5
        <4>7. QED
          BY <3>3, <4>6 DEF u, v
      <3>9. 4 + (n + 1) = 5 + n
        BY <1>4
      <3>10. QED
        BY <2>1, <3>5, <3>7, <3>8, <3>9
    <2>2. CASE job # "u"
      <3>1. g_flash_addr = BIN_OFFSET_DATA + i
        BY <1>2, <2>2 DEF Copying
      <3>2. BIN_OFFSET_DATA + i = NB * (4 + n) /\ 4 + n \in Nat
        <4>1. NB * (4 + n) = NB * 4 + NB * n
          BY <1>4, MultipleOrder
        <4>2. QED
          BY <1>4, <4>1, Fits
      <3>3. ws[(4 + n) + 1] = FlashWord(NB * (4 + n))
        <4>1. 0 \in Nat
          OBVIOUS
        <4>2. QED
          BY <1>2, <1>3, <2>2, <3>2, <4>1, SourceType
      <3>4. (4 + n) + 1 = 4 + (n + 1)
        BY <1>4
      <3>5. g_flash_addr' = BIN_OFFSET_DATA + i'
        BY <1>3, <1>13, <1>20, <2>2, <3>1, Widths, Fits
      <3>6. QED
        BY <1>20, <2>2, <3>1, <3>2, <3>3, <3>4, <3>5
    <2>3. QED
      BY <2>1, <2>2
  \* The checksum.
  <1>16. Add(hdr.checksum, tmp) = Add(ws[4], Sum(Part(ws, n + 1)))
    <2> DEFINE p == Part(ws, n + 1)
    <2>1. \A k \in 1..(4 + (n + 1)) : ws[k] \in Word
      <3>1. 4 + (n + 1) \in Nat
        BY <1>4
      <3>2. QED
        BY <1>2, <1>3, <1>15, <3>1, SourceType
    <2>2. p \in [1..(n + 1) -> Word] /\ p[n + 1] = ws[4 + (n + 1)]
      <3>1. \A k \in 1..(n + 1) : ws[4 + k] \in Word
        <4>1. \A k \in 1..(n + 1) : 4 + k \in 1..(4 + (n + 1))
          BY <1>4
        <4>2. QED
          BY <2>1, <4>1
      <3>2. n + 1 \in 1..(n + 1)
        BY <1>4
      <3>3. QED
        BY <3>1, <3>2 DEF Part
    <2>3. [k \in 1..n |-> p[k]] = Part(ws, n)
      BY <1>4 DEF Part
    <2> HIDE DEF p
    <2>4. Sum(p) = Add(p[n + 1], Sum(Part(ws, n))) /\ Part(ws, n) \in [1..n -> Word]
      BY <1>4, <2>2, <2>3, SumNext
    <2>5. Part(ws, n) \in Seq(Word)
      BY <1>4, <2>4
    <2> DEFINE s == Sum(Part(ws, n))
    <2>6. s \in Word /\ ws[4] \in Word
      BY <1>4, <2>1, <2>5, SumType
    <2>7. hdr.checksum = Add(ws[4], s)
      BY <1>2 DEF Copying, n
    <2> HIDE DEF s
    <2>8. Add(Add(ws[4], s), tmp) = Add(ws[4], Add(s, tmp)) /\ Add(s, tmp) = Add(tmp, s)
      BY <1>20, <2>6, AddGroup, AddSwap
    <2>9. QED
      BY <1>15, <2>2, <2>4, <2>7, <2>8 DEF p, s
  \* Main memory.
  <1>17. \A k \in 1..(n + 1) : mem'[b \div NB + k - 1] = ws[4 + k]
    <2>1. ASSUME NEW k \in 1..(n + 1)
          PROVE  mem'[(q - n) + k - 1] = ws[4 + k]
      <3>1. (q - n) + k - 1 \in 0..(MEM - 1) /\ ((q - n) + k - 1 = q <=> k = n + 1)
        BY <1>4, <1>8, <1>10, Fits
      <3>2. CASE k = n + 1
        BY <1>1, <1>3, <1>15, <3>1, <3>2
      <3>3. CASE k # n + 1
        <4>1. k \in 1..n
          BY <1>4, <3>3
        <4>2. mem[(q - n) + k - 1] = ws[4 + k]
          BY <1>2, <1>12, <4>1 DEF Copying, n, b
        <4>3. QED
          BY <1>1, <1>3, <3>1, <3>3, <4>2
      <3>4. QED
        BY <3>2, <3>3
    <2>2. QED
      BY <1>12, <2>1
  <1>18. Source(ws)'
    <2>1. FlashWords' = FlashWords
      BY <1>0 DEF FlashWords, FlashWord
    <2>2. QED
      BY <1>0, <1>2, <2>1 DEF Source
  <1>21. hdr'.signature = hdr.signature /\ hdr'.base_addr = b /\ hdr'.size = hdr.size
         /\ hdr'.checksum = Add(hdr.checksum, tmp)
    BY <1>1, <1>3 DEF b
  <1>22. hdr.signature = ws[1] /\ b = ws[2] /\ hdr.size = ws[3] /\ hdr.signature = BIN_SIGNATURE /\ exe.base = b
    BY <1>2 DEF Copying, b
  <1>23. b % NB = 0 /\ b + i' <= NB * MEM /\ i' < hdr.size + NB
    BY <1>0, <1>3, <1>7, <1>9, <1>12, <1>13, Widths, Fits
  <1>24. job = "u" => 4 + i' \div NB <= Len(ws) /\ stream' = SubSeq(ws, 5 + i' \div NB, Len(ws))
    BY <1>14, <1>15
  <1>25. Copying(ws)'
    BY <1>0, <1>14, <1>15, <1>16, <1>17, <1>21, <1>22, <1>23, <1>24 DEF Copying
  <1>26. QED
    BY <1>18, <1>25
-----------------------------------------------------------------------------
\* A load in progress reads an idle flash or what the host sent.
LEMMA LoadStep == ASSUME TypeInv, ExeInv, LoadInv, Next PROVE LoadInv'
  <1>1. ASSUME FlashDone
        PROVE  LoadInv'
    <2>1. at' = at /\ job' = job /\ ~busy' /\ stream' = stream /\ g_flash_addr' = g_flash_addr
          /\ UNCHANGED <<job, exe, hdr, i, g_flash_addr, mem, stream>> /\ busy
      BY <1>1 DEF FlashDone, busy, code, book
    <2>2. ASSUME at' = "copy"
          PROVE  \E ws : Source(ws)' /\ Copying(ws)'
      <3>1. at = "copy" /\ job = "u"
        BY <2>1, <2>2 DEF LoadInv
      <3>2. QED
        BY <2>1, <3>1, CopyStays
    <2>3. QED
      BY <2>1, <2>2 DEF LoadInv
  <1>2. ASSUME Reset
        PROVE  LoadInv'
    BY <1>2 DEF Reset, Restarted, LoadInv
  <1>3. ASSUME Mti
        PROVE  LoadInv'
    <2>1. at' = at /\ job' = job /\ busy' = busy /\ stream' = stream /\ g_flash_addr' = g_flash_addr
          /\ flash' = flash /\ UNCHANGED <<job, exe, hdr, i, g_flash_addr, mem, stream>>
      BY <1>3 DEF Mti, code, dev, book, busy
    <2>2. ASSUME at' = "copy"
          PROVE  \E ws : Source(ws)' /\ Copying(ws)'
      BY <2>1, <2>2, CopyStays
    <2>3. QED
      BY <2>1, <2>2 DEF LoadInv
  <1>4. ASSUME TimeOut
        PROVE  LoadInv'
    <2>1. at' # "copy" /\ (at' = "header" => ~busy' /\ job' # "u" /\ g_flash_addr' = 0)
      BY <1>4 DEF TimeOut, LoadFlash, Load, Goto, irq, dev, busy
    <2>2. QED
      BY <2>1 DEF LoadInv
  <1>5. ASSUME AnyKey
        PROVE  LoadInv'
    BY <1>5 DEF AnyKey, Goto, irq, code, dev, book, LoadInv
  <1>6. ASSUME GetHeader
        PROVE  LoadInv'
    <2>1. at = "header" /\ job' = job /\ busy' = busy /\ at' # "header"
      BY <1>6 DEF GetHeader, Goto, AfterLoad, Trap, busy
    <2>2. ASSUME at' = "copy"
          PROVE  \E ws : Source(ws)' /\ Copying(ws)'
      BY <1>6, <2>2, CopyBegins
    <2>3. QED
      BY <2>1, <2>2 DEF LoadInv
  <1>7. ASSUME Copy
        PROVE  LoadInv'
    <2>1. at = "copy" /\ job' = job /\ busy' = busy /\ at' # "header"
      BY <1>7 DEF Copy, Trap, busy
    <2>2. ASSUME at' = "copy"
          PROVE  \E ws : Source(ws)' /\ Copying(ws)'
      BY <1>7, <2>2, CopyGoesOn
    <2>3. QED
      BY <2>1, <2>2 DEF LoadInv
  <1>8. ASSUME Copied
        PROVE  LoadInv'
    BY <1>8 DEF Copied, AfterLoad, Goto, Trap, irq, dev, book, LoadInv
  <1>9. ASSUME NEW f \in FILES, CmdUpload(f)
        PROVE  LoadInv'
    <2>1. at' = "header" /\ job' = "u" /\ stream' \in Uploads(f)
      BY <1>9 DEF CmdUpload, Load, Goto
    <2>2. QED
      BY <2>1 DEF LoadInv
  <1>10. ASSUME CmdLoad
        PROVE  LoadInv'
    <2>1. at' # "copy" /\ (at' = "header" => ~busy' /\ job' # "u" /\ g_flash_addr' = 0)
      BY <1>10 DEF CmdLoad, Command, LoadFlash, Load, Goto, irq, dev, busy
    <2>2. QED
      BY <2>1 DEF LoadInv
  <1>11. ASSUME CmdStore
        PROVE  LoadInv'
    BY <1>11 DEF CmdStore, Command, Store, Goto, irq, dev, LoadInv
  <1>12. ASSUME CmdBoot
        PROVE  LoadInv'
    BY <1>12 DEF CmdBoot, Command, Goto, irq, dev, LoadInv
  <1>13. ASSUME CmdExit
        PROVE  LoadInv'
    BY <1>13 DEF CmdExit, Command, Trap, code, dev, LoadInv
  <1>14. ASSUME CmdRestart
        PROVE  LoadInv'
    BY <1>14 DEF CmdRestart, Command, Restarted, LoadInv
  <1>15. ASSUME NEW yes \in BOOLEAN, Confirm(yes)
        PROVE  LoadInv'
    BY <1>15 DEF Confirm, Goto, irq, dev, book, LoadInv
  <1>16. ASSUME EraseSector
        PROVE  LoadInv'
    BY <1>16 DEF EraseSector, irq, LoadInv
  <1>17. ASSUME Erased
        PROVE  LoadInv'
    BY <1>17 DEF Erased, Goto, irq, dev, book, LoadInv
  <1>18. ASSUME StoreData
        PROVE  LoadInv'
    BY <1>18 DEF StoreData, PutByte, irq, book, LoadInv
  <1>19. ASSUME DataStored
        PROVE  LoadInv'
    BY <1>19 DEF DataStored, Goto, irq, dev, book, LoadInv
  <1>20. ASSUME StoreHeader
        PROVE  LoadInv'
    BY <1>20 DEF StoreHeader, PutByte, irq, book, LoadInv
  <1>21. ASSUME Stored
        PROVE  LoadInv'
    BY <1>21 DEF Stored, Goto, irq, dev, LoadInv
  <1>22. ASSUME Boot
        PROVE  LoadInv'
    BY <1>22 DEF Boot, Goto, irq, code, dev, book, LoadInv
  <1>23. ASSUME NEW yes \in BOOLEAN, Anyway(yes)
        PROVE  LoadInv'
    BY <1>23 DEF Anyway, Goto, irq, code, dev, LoadInv
  <1>24. ASSUME DisableIrq
        PROVE  LoadInv'
    BY <1>24 DEF DisableIrq, MieAtBoot, code, dev, book, LoadInv
  <1>25. ASSUME LedOff
        PROVE  LoadInv'
    BY <1>25 DEF LedOff, code, dev, book, LoadInv
  <1>26. ASSUME Jump
        PROVE  LoadInv'
    BY <1>26 DEF Jump, Goto, irq, code, dev, book, LoadInv
  <1>27. QED
    BY <1>1, <1>2, <1>3, <1>4, <1>5, <1>6, <1>7, <1>8, <1>9, <1>10, <1>11, <1>12, <1>13, <1>14,
       <1>15, <1>16, <1>17, <1>18, <1>19, <1>20, <1>21, <1>22, <1>23, <1>24, <1>25, <1>26 DEF
       Next, Cpu, User
-----------------------------------------------------------------------------
LEMMA FetchStays ==
    ASSUME FetchInv, UNCHANGED <<job, exe, mem, kept>>
    PROVE  FetchInv'
  <1>1. Loaded(kept.op)' = Loaded(kept.op)
    BY DEF Loaded, MemWord, Mapped
  <1>2. QED
    BY <1>1 DEF FetchInv, Covered

\* What a load from the flash makes available is what the flash keeps.
LEMMA FetchStep == ASSUME TypeInv, ExeInv, LoadInv, KeptInv, FetchInv, Next PROVE FetchInv'
  <1>1. ASSUME FlashDone
        PROVE  FetchInv'
    <2>1. UNCHANGED <<job, exe, mem, kept>>
      BY <1>1 DEF FlashDone, busy, code, irq, book, dev
    <2>2. QED
      BY <2>1, FetchStays
  <1>2. ASSUME Reset
        PROVE  FetchInv'
    <2>1. exe'.size = 0
      BY <1>2 DEF Reset, Restarted, TypeInv
    <2>2. QED
      BY <2>1 DEF FetchInv
  <1>3. ASSUME Mti
        PROVE  FetchInv'
    <2>1. UNCHANGED <<job, exe, mem, kept>>
      BY <1>3 DEF Mti, code, dev, book
    <2>2. QED
      BY <2>1, FetchStays
  <1>4. ASSUME TimeOut
        PROVE  FetchInv'
    <2>1. exe'.size = 0
      BY <1>4 DEF TimeOut, LoadFlash, Load, Goto, irq, dev, TypeInv
    <2>2. QED
      BY <2>1 DEF FetchInv
  <1>5. ASSUME AnyKey
        PROVE  FetchInv'
    <2>1. UNCHANGED <<job, exe, mem, kept>>
      BY <1>5 DEF AnyKey, Goto, irq, code, dev, book
    <2>2. QED
      BY <2>1, FetchStays
  <1>6. ASSUME GetHeader
        PROVE  FetchInv'
    <2>1. exe'.size = 0
      BY <1>6 DEF GetHeader, StreamGet, Goto, irq, AfterLoad, Trap, book, TypeInv, ExeInv
    <2>2. QED
      BY <2>1 DEF FetchInv
  <1>7. ASSUME Copy
        PROVE  FetchInv'
    <2>1. exe'.size = 0
      BY <1>7 DEF Copy, StreamGet, Trap, irq, book, TypeInv, ExeInv
    <2>2. QED
      BY <2>1 DEF FetchInv
  <1>8. ASSUME Copied
        PROVE  FetchInv'
    <2> SUFFICES ASSUME job' \in {"auto", "l"}, exe'.size # 0
                 PROVE  /\ kept' # None
                        /\ exe'.base = kept'.base /\ exe'.size = NB * Len(kept'.data)
                        /\ Covered(exe'.size) => Loaded(kept.op)' = kept'
      BY DEF FetchInv, Covered
    <2>1. at = "copy" /\ i >= hdr.size /\ job' = job /\ mem' = mem /\ kept' = kept /\ job # "u"
          /\ exe.size = 0
      BY <1>8 DEF Copied, dev, book, ExeInv
    <2>2. ChecksumFits(hdr) /\ exe' = [exe EXCEPT !.size = hdr.size]
      BY <1>8, <2>1 DEF Copied
    <2>3. /\ exe.base = hdr.base_addr /\ kept # None
          /\ hdr.base_addr = kept.base /\ hdr.size = NB * Len(kept.data)
          /\ Covered(NB * Len(kept.data)) => DataAt(mem, hdr.base_addr, hdr.size) = kept.data
      BY <2>1, CopyEnds
    <2>4. exe'.base = hdr.base_addr /\ exe'.size = hdr.size
      BY <2>2, <2>3 DEF TypeInv
    <2>5. ASSUME Covered(exe'.size)
          PROVE  Loaded(kept.op)' = kept'
      <3>1. DataAt(mem', exe'.base, exe'.size) = kept.data
        BY <2>1, <2>3, <2>4, <2>5
      <3>2. Loaded(kept.op)' = [op |-> kept'.op, base |-> exe'.base, data |-> DataAt(mem', exe'.base, exe'.size)]
        BY DEF Loaded, DataAt, WordAt, MemWord, Mapped
      <3>3. kept = [op |-> kept.op, base |-> kept.base, data |-> kept.data]
        BY <2>3 DEF TypeInv, KeptType
      <3>4. QED
        BY <2>1, <2>3, <2>4, <3>1, <3>2, <3>3
    <2>6. QED
      BY <2>1, <2>3, <2>4, <2>5
  <1>9. ASSUME NEW f \in FILES, CmdUpload(f)
        PROVE  FetchInv'
    <2>1. job' \notin {"auto", "l"}
      BY <1>9 DEF CmdUpload, Command, Load, Goto, irq
    <2>2. QED
      BY <2>1 DEF FetchInv
  <1>10. ASSUME CmdLoad
        PROVE  FetchInv'
    <2>1. exe'.size = 0
      BY <1>10 DEF CmdLoad, Command, LoadFlash, Load, Goto, irq, dev, TypeInv
    <2>2. QED
      BY <2>1 DEF FetchInv
  <1>11. ASSUME CmdStore
        PROVE  FetchInv'
    <2>1. job' \notin {"auto", "l"}
      BY <1>11 DEF CmdStore, Command, Store, Goto, irq, dev
    <2>2. QED
      BY <2>1 DEF FetchInv
  <1>12. ASSUME CmdBoot
        PROVE  FetchInv'
    <2>1. job' \notin {"auto", "l"}
      BY <1>12 DEF CmdBoot, Command, Goto, irq, dev
    <2>2. QED
      BY <2>1 DEF FetchInv
  <1>13. ASSUME CmdExit
        PROVE  FetchInv'
    <2>1. UNCHANGED <<job, exe, mem, kept>>
      BY <1>13 DEF CmdExit, Command, Trap, code, dev, book
    <2>2. QED
      BY <2>1, FetchStays
  <1>14. ASSUME CmdRestart
        PROVE  FetchInv'
    <2>1. exe'.size = 0
      BY <1>14 DEF CmdRestart, Command, Restarted, TypeInv
    <2>2. QED
      BY <2>1 DEF FetchInv
  <1>15. ASSUME NEW yes \in BOOLEAN, Confirm(yes)
        PROVE  FetchInv'
    <2>1. UNCHANGED <<job, exe, mem, kept>>
      BY <1>15 DEF Confirm, Goto, irq, dev, book, code
    <2>2. QED
      BY <2>1, FetchStays
  <1>16. ASSUME EraseSector
        PROVE  FetchInv'
    <2>1. job' = "s"
      BY <1>16 DEF EraseSector, irq, ExeInv
    <2>2. QED
      BY <2>1 DEF FetchInv
  <1>17. ASSUME Erased
        PROVE  FetchInv'
    <2>1. UNCHANGED <<job, exe, mem, kept>>
      BY <1>17 DEF Erased, Goto, irq, dev, book, code
    <2>2. QED
      BY <2>1, FetchStays
  <1>18. ASSUME StoreData
        PROVE  FetchInv'
    <2>1. UNCHANGED <<job, exe, mem, kept>>
      BY <1>18 DEF StoreData, PutByte, irq, book, code, dev
    <2>2. QED
      BY <2>1, FetchStays
  <1>19. ASSUME DataStored
        PROVE  FetchInv'
    <2>1. UNCHANGED <<job, exe, mem, kept>>
      BY <1>19 DEF DataStored, Goto, irq, dev, book, code
    <2>2. QED
      BY <2>1, FetchStays
  <1>20. ASSUME StoreHeader
        PROVE  FetchInv'
    <2>1. UNCHANGED <<job, exe, mem, kept>>
      BY <1>20 DEF StoreHeader, PutByte, irq, book, code, dev
    <2>2. QED
      BY <2>1, FetchStays
  <1>21. ASSUME Stored
        PROVE  FetchInv'
    <2>1. job' = "s"
      BY <1>21 DEF Stored, Goto, irq, dev, ExeInv
    <2>2. QED
      BY <2>1 DEF FetchInv
  <1>22. ASSUME Boot
        PROVE  FetchInv'
    <2>1. UNCHANGED <<job, exe, mem, kept>>
      BY <1>22 DEF Boot, Goto, irq, code, dev, book
    <2>2. QED
      BY <2>1, FetchStays
  <1>23. ASSUME NEW yes \in BOOLEAN, Anyway(yes)
        PROVE  FetchInv'
    <2>1. UNCHANGED <<job, exe, mem, kept>>
      BY <1>23 DEF Anyway, Goto, irq, code, dev, book
    <2>2. QED
      BY <2>1, FetchStays
  <1>24. ASSUME DisableIrq
        PROVE  FetchInv'
    <2>1. UNCHANGED <<job, exe, mem, kept>>
      BY <1>24 DEF DisableIrq, MieAtBoot, code, dev, book
    <2>2. QED
      BY <2>1, FetchStays
  <1>25. ASSUME LedOff
        PROVE  FetchInv'
    <2>1. UNCHANGED <<job, exe, mem, kept>>
      BY <1>25 DEF LedOff, code, dev, book
    <2>2. QED
      BY <2>1, FetchStays
  <1>26. ASSUME Jump
        PROVE  FetchInv'
    <2>1. UNCHANGED <<job, exe, mem, kept>>
      BY <1>26 DEF Jump, Goto, irq, code, dev, book
    <2>2. QED
      BY <2>1, FetchStays
  <1>27. QED
    BY <1>1, <1>2, <1>3, <1>4, <1>5, <1>6, <1>7, <1>8, <1>9, <1>10, <1>11, <1>12, <1>13, <1>14,
       <1>15, <1>16, <1>17, <1>18, <1>19, <1>20, <1>21, <1>22, <1>23, <1>24, <1>25, <1>26 DEF
       Next, Cpu, User
-----------------------------------------------------------------------------
(* What a store does to the flash. *)

\* The sectors a store erases.
LEMMA SectorsMeans ==
    ASSUME NEW size \in Nat
    PROVE  /\ Sectors(size) \in Nat /\ Sectors(size) > 0
           /\ SECTOR * Sectors(size) \in Nat
           /\ SECTOR * Sectors(size) > size /\ SECTOR * Sectors(size) >= SECTOR
           /\ SECTOR * Sectors(size) <= size + SECTOR
           /\ Covered(size) => BIN_OFFSET_DATA + size <= SECTOR * Sectors(size)
  <1> DEFINE q == size \div SECTOR
             r == size % SECTOR
  <1>1. q \in Nat /\ r \in 0..(SECTOR - 1) /\ size = SECTOR * q + r
    BY Fits, DivModMeans
  <1>2. Sectors(size) = q + 1
    BY DEF Sectors
  <1>3. Covered(size) <=> BIN_OFFSET_DATA + r <= SECTOR
    BY DEF Covered
  <1> HIDE DEF q, r
  <1>4. SECTOR * (q + 1) = SECTOR * q + SECTOR /\ SECTOR * q \in Nat
    BY <1>1, Fits
  <1>5. QED
    BY <1>1, <1>2, <1>3, <1>4, Fits

\* A sector's addresses.
LEMMA SameSector ==
    ASSUME NEW g \in Nat, g % SECTOR = 0, NEW x \in Nat, g <= x, x < g + SECTOR
    PROVE  x \div SECTOR = g \div SECTOR
  <1> DEFINE q == g \div SECTOR
  <1>1. q \in Nat /\ g = SECTOR * q + 0
    <2>1. g = SECTOR * q + (g % SECTOR) /\ q \in Nat
      BY Fits, DivModMeans
    <2> HIDE DEF q
    <2>2. QED
      BY <2>1
  <1> HIDE DEF q
  <1>2. x - g \in Nat /\ x - g < SECTOR /\ x = SECTOR * q + (x - g)
    <2>1. SECTOR * q \in Nat
      BY <1>1, Fits
    <2>2. QED
      BY <1>1, <2>1, Fits
  <1>3. x \div SECTOR = q
    <2>1. PICK r \in Nat : r = x - g
      BY <1>2
    <2>2. x = SECTOR * q + r /\ r < SECTOR
      BY <1>2, <2>1
    <2>3. QED
      BY <1>1, <2>2, Fits, DivModUnique
  <1>4. QED
    BY <1>3 DEF q

\* Erasing one more sector.
LEMMA ErasedMore ==
    ASSUME TypeInv, ExeInv, StoreInv, EraseSector
    PROVE  /\ g_flash_addr \in Nat /\ g_flash_addr' = g_flash_addr + SECTOR
           /\ left \in Nat /\ left' \in Nat
           /\ SECTOR <= g_flash_addr'
           /\ g_flash_addr' % SECTOR = 0
           /\ g_flash_addr' + SECTOR * left' = SECTOR * Sectors(exe.size)
           /\ Blank(0, g_flash_addr)'
  <1>1. at = "erase" /\ ~busy /\ left > 0 /\ left' = left - 1 /\ g_flash_addr' = g_flash_addr + SECTOR
    BY DEF EraseSector
  <1>2. g_flash_addr \in Nat /\ left \in Nat /\ exe.size \in Nat /\ exe.base \in Nat /\ FlashType
    BY Widths DEF TypeInv, Word
  <1>3. /\ g_flash_addr % SECTOR = 0
        /\ g_flash_addr + SECTOR * left = SECTOR * Sectors(exe.size)
        /\ Blank(0, g_flash_addr)
    BY <1>1 DEF StoreInv
  <1>4. exe.size <= NB * MEM
    BY <1>1, <1>2, Fits DEF ExeInv
  <1> DEFINE g == g_flash_addr
             t == SECTOR * Sectors(exe.size)
  <1>5. t \in Nat /\ t <= exe.size + SECTOR
    BY <1>2, SectorsMeans
  <1> HIDE DEF t
  <1>6. SECTOR * left = SECTOR * (left - 1) + SECTOR /\ SECTOR * (left - 1) \in Nat
    <2>1. PICK l \in Nat : left = l + 1
      <3>1. left - 1 \in Nat /\ left = (left - 1) + 1
        BY <1>1, <1>2
      <3>2. QED
        BY <3>1
    <2>2. SECTOR * (l + 1) = SECTOR * l + SECTOR /\ SECTOR * l \in Nat /\ l + 1 - 1 = l
      BY Fits
    <2>3. QED
      BY <2>1, <2>2
  <1>7. g' + SECTOR * left' = t /\ g < FLASH /\ SECTOR <= g'
    BY <1>1, <1>2, <1>3, <1>4, <1>5, <1>6, Fits DEF t
  <1>8. g' % SECTOR = 0
    <2> DEFINE q == g \div SECTOR
    <2>1. g = SECTOR * q + (g % SECTOR) /\ q \in Nat
      BY <1>2, Fits, DivModMeans
    <2> HIDE DEF q
    <2>2. SECTOR * (q + 1) = SECTOR * q + SECTOR /\ SECTOR * q \in Nat
      BY <2>1, Fits
    <2>3. g' = SECTOR * (q + 1) + 0 /\ q + 1 \in Nat /\ 0 \in Nat /\ g' \in Nat
      BY <1>1, <1>2, <1>3, <2>1, <2>2, Fits
    <2>4. QED
      BY <2>3, Fits, DivModUnique
  <1>9. Settled' = [x \in 0..(FLASH - 1) |-> IF x \div SECTOR = g \div SECTOR THEN BYTE - 1 ELSE Settled[x]]
    BY <1>2, <1>7, SettledErased
  <1>10. ASSUME NEW x \in 0..(g' - 1)
         PROVE  Settled'[x] = BYTE - 1
    <2>1. x \in 0..(FLASH - 1)
      <3>1. SECTOR * left' \in Nat
        BY <1>1, <1>6
      <3>2. QED
        BY <1>1, <1>2, <1>4, <1>5, <1>7, <3>1, Fits
    <2>2. Settled'[x] = IF x \div SECTOR = g \div SECTOR THEN BYTE - 1 ELSE Settled[x]
      BY <1>9, <2>1
    <2>3. CASE x < g
      <3>1. x \in 0..(g - 1)
        BY <1>2, <2>1, <2>3
      <3>2. Settled[x] = BYTE - 1
        BY <1>3, <3>1 DEF Blank
      <3>3. QED
        BY <2>2, <3>2
    <2>4. CASE ~(x < g)
      <3>1. x \in Nat /\ g <= x /\ x < g + SECTOR
        BY <1>1, <1>2, <2>1, <2>4, Fits
      <3>2. x \div SECTOR = g \div SECTOR
        BY <1>2, <1>3, <3>1, SameSector
      <3>3. QED
        BY <2>2, <3>2
    <2>5. QED
      BY <2>3, <2>4
  <1>11. Blank(0, g)'
    BY <1>10 DEF Blank
  <1>12. QED
    BY <1>1, <1>2, <1>7, <1>8, <1>11 DEF t

\* Programming one more byte of the data.
LEMMA DataMore ==
    ASSUME TypeInv, ExeInv, StoreInv, StoreData
    PROVE  /\ i \in Nat /\ i' = i + 1 /\ i' <= exe.size
           /\ DataUpTo(kept, i)'
           /\ Blank(0, BIN_OFFSET_DATA)'
           /\ Blank(BIN_OFFSET_DATA + i, SECTOR * Sectors(exe.size))'
  <1> DEFINE b == ByteOf(MemWord(hdr.base_addr + i - (i % NB)), i % NB)
             t == SECTOR * Sectors(exe.size)
             p == BIN_OFFSET_DATA + i
  <1>1. /\ at = "data" /\ ~busy /\ i - (i % NB) < hdr.size /\ PutByte(b)
        /\ i' = i + 1 /\ kept' = kept /\ exe' = exe
    BY DEF StoreData, PutByte, book
  <1>2. /\ kept = Loaded("store") /\ g_flash_addr = p
        /\ DataUpTo(kept, i) /\ Blank(0, BIN_OFFSET_DATA) /\ Blank(p, t)
    BY <1>1 DEF StoreInv
  <1>3. i \in Nat /\ exe.size \in Nat /\ exe.base \in Nat /\ FlashType /\ WorkType
    BY Widths DEF TypeInv, Word
  <1>4. /\ i < exe.size /\ NB * Len(kept.data) = exe.size
        /\ b = Bytes(kept.data)[i + 1] /\ b \in ByteVal
    BY <1>1, StoreWord
  <1>5. exe.size <= NB * MEM
    BY <1>3, <1>4, Fits DEF ExeInv
  <1>6. t \in Nat /\ t <= exe.size + SECTOR /\ (Covered(exe.size) => BIN_OFFSET_DATA + exe.size <= t)
    BY <1>3, SectorsMeans
  <1> HIDE DEF t, b
  <1>7. p \in Nat /\ p < FLASH /\ p >= BIN_OFFSET_DATA
    BY <1>3, <1>4, <1>5, Fits
  <1> DEFINE s == Settled
  <1>8. s \in [0..(FLASH - 1) -> ByteVal]
    BY <1>3, SettledType
  <1>9. Settled' = [s EXCEPT ![p] = Programmed(@, b)]
    <2>1. g_flash_addr \in Nat /\ g_flash_addr < FLASH
      BY <1>2, <1>7
    <2>2. Settled' = [Settled EXCEPT ![g_flash_addr] = Programmed(@, b)]
      BY <1>1, <1>3, <2>1, SettledProgrammed
    <2>3. QED
      BY <1>2, <2>2
  <1>16. \A a, c : Blank(a, c) <=> \A x \in a..(c - 1) : s[x] = BYTE - 1
    BY DEF Blank
  <1>17. \A n : DataUpTo(kept, n) <=>
                (Covered(NB * Len(kept.data)) => \A x \in 0..(n - 1) : s[BIN_OFFSET_DATA + x] = Bytes(kept.data)[x + 1])
    BY DEF DataUpTo
  <1> HIDE DEF s, p
  <1>10. \A x \in 0..(FLASH - 1) : x # p => Settled'[x] = s[x]
    BY <1>8, <1>9
  <1>11. Settled'[p] = Programmed(s[p], b)
    <2>1. p \in 0..(FLASH - 1)
      BY <1>7, Fits
    <2>2. QED
      BY <1>8, <1>9, <2>1
  <1>12. ASSUME NEW x \in 0..(BIN_OFFSET_DATA - 1)
         PROVE  Settled'[x] = BYTE - 1
    <2>1. x \in 0..(FLASH - 1) /\ x # p
      BY <1>7, Fits
    <2>2. QED
      BY <1>2, <1>10, <1>16, <2>1
  <1>13. ASSUME NEW x \in (p + 1)..(t - 1)
         PROVE  Settled'[x] = BYTE - 1
    <2>1. x \in 0..(FLASH - 1) /\ x # p /\ x \in p..(t - 1)
      BY <1>3, <1>5, <1>6, <1>7, Fits
    <2>2. QED
      BY <1>2, <1>10, <1>16, <2>1
  <1>14. ASSUME Covered(exe.size), NEW x \in 0..i
         PROVE  Settled'[BIN_OFFSET_DATA + x] = Bytes(kept.data)[x + 1]
    <2>1. CASE x = i
      <3>1. p \in p..(t - 1)
        <4>1. BIN_OFFSET_DATA + exe.size <= t /\ BIN_OFFSET_DATA \in Nat
          BY <1>6, <1>14, Fits
        <4>2. p < t
          BY <1>3, <1>4, <1>6, <4>1 DEF p
        <4>3. QED
          BY <1>6, <1>7, <4>2
      <3>2. s[p] = BYTE - 1
        BY <1>2, <1>16, <3>1
      <3>3. Settled'[p] = b
        BY <1>4, <1>11, <3>2, ProgrammedErased
      <3>4. QED
        BY <1>4, <2>1, <3>3 DEF p
    <2>2. CASE x # i
      <3>1. x \in 0..(i - 1)
        BY <1>3, <2>2
      <3>2. s[BIN_OFFSET_DATA + x] = Bytes(kept.data)[x + 1]
        BY <1>2, <1>4, <1>14, <1>17, <3>1
      <3>3. BIN_OFFSET_DATA + x \in 0..(FLASH - 1) /\ BIN_OFFSET_DATA + x # p
        BY <1>3, <1>7, <3>1, Fits DEF p
      <3>4. QED
        BY <1>10, <3>2, <3>3
    <2>3. QED
      BY <2>1, <2>2
  <1>15. i' <= exe.size /\ i' - 1 = i /\ BIN_OFFSET_DATA + i' = p + 1
    BY <1>1, <1>3, <1>4, Fits DEF p
  <1>18. Blank(0, BIN_OFFSET_DATA)'
    BY <1>12 DEF Blank
  <1>19. Blank(BIN_OFFSET_DATA + i, SECTOR * Sectors(exe.size))'
    BY <1>1, <1>13, <1>15 DEF Blank, t
  <1>20. DataUpTo(kept, i)'
    BY <1>1, <1>4, <1>14, <1>15 DEF DataUpTo, Covered
  <1>21. QED
    BY <1>1, <1>3, <1>15, <1>18, <1>19, <1>20

\* Programming one more byte of the header.
LEMMA HeadMore ==
    ASSUME TypeInv, ExeInv, StoreInv, StoreHeader
    PROVE  /\ i' = i + 1 /\ i' \in 0..BIN_OFFSET_DATA
           /\ HeadUpTo(kept, i)'
           /\ DataUpTo(kept, NB * Len(kept.data))'
  <1> DEFINE b == Bytes(HeaderWords(hdr))[i + 1]
             s == Settled
             n == NB * Len(kept.data)
  <1>1. /\ at = "header_out" /\ ~busy /\ i < BIN_OFFSET_DATA /\ PutByte(b)
        /\ i' = i + 1 /\ kept' = kept
    BY DEF StoreHeader, PutByte, book
  <1>2. /\ kept = Loaded("store") /\ g_flash_addr = i /\ exe.size # 0
        /\ HeadUpTo(kept, i) /\ DataUpTo(kept, n)
    BY <1>1 DEF StoreInv, ExeInv
  <1>3. i \in Nat /\ exe.size \in Nat /\ exe.base \in Nat /\ FlashType /\ WorkType
    BY Widths DEF TypeInv, Word
  <1>4. b = HeadOf(kept)[i + 1] /\ b \in ByteVal
    BY <1>1, HeaderByte
  <1>5. exe.size <= NB * MEM /\ n = exe.size
    <2>1. n = exe.size
      BY <1>2, LoadedMeans
    <2>2. QED
      BY <1>2, <1>3, <2>1, Fits DEF ExeInv
  <1> HIDE DEF b, n
  <1>6. s \in [0..(FLASH - 1) -> ByteVal]
    BY <1>3, SettledType
  <1>7. i < FLASH
    BY <1>1, <1>3, Fits
  <1>8. Settled' = [s EXCEPT ![i] = Programmed(@, b)]
    <2>1. g_flash_addr \in Nat /\ g_flash_addr < FLASH
      BY <1>2, <1>3, <1>7
    <2>2. Settled' = [Settled EXCEPT ![g_flash_addr] = Programmed(@, b)]
      BY <1>1, <1>3, <2>1, SettledProgrammed
    <2>3. QED
      BY <1>2, <2>2
  <1>9. \A x \in 0..(BIN_OFFSET_DATA - 1) : s[x] = IF x < i THEN HeadOf(kept)[x + 1] ELSE BYTE - 1
    BY <1>2 DEF HeadUpTo
  <1>10. Covered(n) => \A x \in 0..(n - 1) : s[BIN_OFFSET_DATA + x] = Bytes(kept.data)[x + 1]
    BY <1>2 DEF DataUpTo, n
  <1> HIDE DEF s
  <1>11. \A x \in 0..(FLASH - 1) : x # i => Settled'[x] = s[x]
    BY <1>6, <1>8
  <1>12. Settled'[i] = b
    <2>1. i \in 0..(FLASH - 1) /\ i \in 0..(BIN_OFFSET_DATA - 1) /\ ~(i < i)
      BY <1>1, <1>3, <1>7, Fits
    <2>2. s[i] = BYTE - 1
      BY <1>9, <2>1
    <2>3. Settled'[i] = Programmed(s[i], b)
      BY <1>6, <1>8, <2>1
    <2>4. QED
      BY <1>4, <2>2, <2>3, ProgrammedErased
  <1>13. ASSUME NEW x \in 0..(BIN_OFFSET_DATA - 1)
         PROVE  Settled'[x] = IF x < i + 1 THEN HeadOf(kept)[x + 1] ELSE BYTE - 1
    <2>1. CASE x = i
      BY <1>3, <1>4, <1>12, <2>1
    <2>2. CASE x # i
      <3>1. x \in 0..(FLASH - 1) /\ (x < i + 1 <=> x < i)
        BY <1>3, <2>2, Fits
      <3>2. QED
        BY <1>9, <1>11, <2>2, <3>1
    <2>3. QED
      BY <2>1, <2>2
  <1>14. ASSUME Covered(n), NEW x \in 0..(n - 1)
         PROVE  Settled'[BIN_OFFSET_DATA + x] = Bytes(kept.data)[x + 1]
    <2>1. BIN_OFFSET_DATA + x \in 0..(FLASH - 1) /\ BIN_OFFSET_DATA + x # i
      BY <1>1, <1>3, <1>5, Fits
    <2>2. QED
      BY <1>10, <1>11, <1>14, <2>1
  <1>15. HeadUpTo(kept, i)'
    <2>1. HeadOf(kept)' = HeadOf(kept)
      BY <1>1 DEF HeadOf, KeptHead
    <2>2. QED
      BY <1>1, <1>13, <2>1 DEF HeadUpTo
  <1>16. DataUpTo(kept, NB * Len(kept.data))'
    BY <1>1, <1>14 DEF DataUpTo, Covered, n
  <1>17. QED
    BY <1>1, <1>3, <1>15, <1>16, Fits
-----------------------------------------------------------------------------
LEMMA KeptStays ==
    ASSUME KeptInv, Settled' = Settled, kept' = kept
    PROVE  KeptInv'
  BY DEF KeptInv, HeadUpTo, DataUpTo, HeadOf, KeptHead, Covered

\* A store that begins: nothing of the new program's header is there.
LEMMA KeptBegins ==
    ASSUME TypeInv, ExeInv, StoreInv, EraseSector
    PROVE  KeptInv'
  <1>1. at = "erase" /\ exe.size # 0 /\ kept' = Loaded("store")
    BY DEF EraseSector, ExeInv
  <1>2. kept'.op = "store" /\ kept'.base = exe.base /\ kept'.data # <<>>
        /\ NB * Len(kept'.data) = exe.size /\ kept' # None
    <2>1. LET k == Loaded("store")
          IN  /\ k = [op |-> "store", base |-> exe.base, data |-> k.data]
              /\ k.data # <<>> /\ NB * Len(k.data) = exe.size
      BY <1>1, LoadedMeans
    <2>2. kept' = [op |-> "store", base |-> exe.base, data |-> kept'.data]
          /\ kept'.data # <<>> /\ NB * Len(kept'.data) = exe.size
      BY <1>1, <2>1
    <2>3. QED
      BY <2>2 DEF None
  <1>3. kept'.base % NB = 0 /\ kept'.base + NB * Len(kept'.data) <= NB * MEM
    BY <1>1, <1>2 DEF ExeInv
  <1>4. HeadUpTo(kept, 0)'
    <2>1. g_flash_addr' \in Nat /\ SECTOR <= g_flash_addr' /\ Blank(0, g_flash_addr)'
      <3>1. g_flash_addr \in Nat /\ g_flash_addr' = g_flash_addr + SECTOR
            /\ SECTOR <= g_flash_addr' /\ Blank(0, g_flash_addr)'
        BY ErasedMore
      <3>2. SECTOR \in Nat
        BY Fits
      <3>3. QED
        BY <3>1, <3>2
    <2>2. ASSUME NEW x \in 0..(BIN_OFFSET_DATA - 1)
          PROVE  Settled'[x] = BYTE - 1 /\ ~(x < 0)
      <3>1. BIN_OFFSET_DATA \in Nat /\ SECTOR \in Nat /\ BIN_OFFSET_DATA <= SECTOR
        BY Fits
      <3>2. x \in 0..(g_flash_addr' - 1) /\ ~(x < 0)
        <4>1. PICK g : g = g_flash_addr'
          OBVIOUS
        <4>2. g \in Nat /\ SECTOR <= g
          BY <2>1, <4>1
        <4>3. x \in 0..(g - 1) /\ ~(x < 0)
          BY <3>1, <4>2
        <4>4. QED
          BY <4>1, <4>3
      <3>3. QED
        BY <2>1, <3>2 DEF Blank
    <2>3. QED
      BY <2>2 DEF HeadUpTo
  <1>5. \E h \in 0..BIN_OFFSET_DATA : HeadUpTo(kept, h)' /\ (h > 0 => DataUpTo(kept, NB * Len(kept.data))')
    <2>1. 0 \in 0..BIN_OFFSET_DATA /\ ~(0 > 0)
      BY Fits
    <2>2. QED
      BY <1>4, <2>1
  <1>6. QED
    BY <1>2, <1>3, <1>5 DEF KeptInv

\* What the flash holds at any moment of a store.
LEMMA KeptStep == ASSUME TypeInv, ExeInv, StoreInv, KeptInv, Next PROVE KeptInv'
  <1>1. ASSUME FlashDone
        PROVE  KeptInv'
    <2>1. kept' = kept
      BY <1>1 DEF FlashDone, book
    <2>2. QED
      BY <1>1, <2>1, SettledDone, KeptStays
  <1>2. ASSUME Reset
        PROVE  KeptInv'
    <2>1. kept' = kept /\ UNCHANGED <<flash, work>>
      BY <1>2 DEF Reset, Restarted, code, book, dev
    <2>2. QED
      BY <2>1, SettledStays, KeptStays
  <1>3. ASSUME Mti
        PROVE  KeptInv'
    <2>1. kept' = kept /\ UNCHANGED <<flash, work>>
      BY <1>3 DEF Mti, code, dev, book
    <2>2. QED
      BY <2>1, SettledStays, KeptStays
  <1>4. ASSUME TimeOut
        PROVE  KeptInv'
    <2>1. kept' = kept /\ UNCHANGED <<flash, work>>
      BY <1>4 DEF TimeOut, LoadFlash, Load, Goto, irq, dev, code, book
    <2>2. QED
      BY <2>1, SettledStays, KeptStays
  <1>5. ASSUME AnyKey
        PROVE  KeptInv'
    <2>1. kept' = kept /\ UNCHANGED <<flash, work>>
      BY <1>5 DEF AnyKey, Goto, irq, code, dev, book
    <2>2. QED
      BY <2>1, SettledStays, KeptStays
  <1>6. ASSUME GetHeader
        PROVE  KeptInv'
    <2>1. kept' = kept /\ UNCHANGED <<flash, work>>
      BY <1>6 DEF GetHeader, StreamGet, Goto, irq, AfterLoad, Trap, book, code, dev
    <2>2. QED
      BY <2>1, SettledStays, KeptStays
  <1>7. ASSUME Copy
        PROVE  KeptInv'
    <2>1. kept' = kept /\ UNCHANGED <<flash, work>>
      BY <1>7 DEF Copy, StreamGet, Trap, irq, book, code, dev
    <2>2. QED
      BY <2>1, SettledStays, KeptStays
  <1>8. ASSUME Copied
        PROVE  KeptInv'
    <2>1. kept' = kept /\ UNCHANGED <<flash, work>>
      BY <1>8 DEF Copied, AfterLoad, Goto, Trap, irq, dev, book, code
    <2>2. QED
      BY <2>1, SettledStays, KeptStays
  <1>9. ASSUME NEW f \in FILES, CmdUpload(f)
        PROVE  KeptInv'
    <2>1. kept' = kept /\ UNCHANGED <<flash, work>>
      BY <1>9 DEF CmdUpload, Command, Load, Goto, irq, code, book, dev
    <2>2. QED
      BY <2>1, SettledStays, KeptStays
  <1>10. ASSUME CmdLoad
        PROVE  KeptInv'
    <2>1. kept' = kept /\ UNCHANGED <<flash, work>>
      BY <1>10 DEF CmdLoad, Command, LoadFlash, Load, Goto, irq, dev, code, book
    <2>2. QED
      BY <2>1, SettledStays, KeptStays
  <1>11. ASSUME CmdStore
        PROVE  KeptInv'
    <2>1. kept' = kept /\ UNCHANGED <<flash, work>>
      BY <1>11 DEF CmdStore, Command, Store, Goto, irq, dev, code, book
    <2>2. QED
      BY <2>1, SettledStays, KeptStays
  <1>12. ASSUME CmdBoot
        PROVE  KeptInv'
    <2>1. kept' = kept /\ UNCHANGED <<flash, work>>
      BY <1>12 DEF CmdBoot, Command, Goto, irq, dev, code, book
    <2>2. QED
      BY <2>1, SettledStays, KeptStays
  <1>13. ASSUME CmdExit
        PROVE  KeptInv'
    <2>1. kept' = kept /\ UNCHANGED <<flash, work>>
      BY <1>13 DEF CmdExit, Command, Trap, code, dev, book
    <2>2. QED
      BY <2>1, SettledStays, KeptStays
  <1>14. ASSUME CmdRestart
        PROVE  KeptInv'
    <2>1. kept' = kept /\ UNCHANGED <<flash, work>>
      BY <1>14 DEF CmdRestart, Command, Restarted, code, book, dev
    <2>2. QED
      BY <2>1, SettledStays, KeptStays
  <1>15. ASSUME NEW yes \in BOOLEAN, Confirm(yes)
        PROVE  KeptInv'
    <2>1. kept' = kept /\ UNCHANGED <<flash, work>>
      BY <1>15 DEF Confirm, Goto, irq, dev, book, code
    <2>2. QED
      BY <2>1, SettledStays, KeptStays
  <1>16. ASSUME EraseSector
        PROVE  KeptInv'
    BY <1>16, KeptBegins
  <1>17. ASSUME Erased
        PROVE  KeptInv'
    <2>1. kept' = kept /\ UNCHANGED <<flash, work>>
      BY <1>17 DEF Erased, Goto, irq, dev, book, code
    <2>2. QED
      BY <2>1, SettledStays, KeptStays
  <1>18. ASSUME StoreData
        PROVE  KeptInv'
    <2>1. kept' = kept /\ kept = Loaded("store") /\ kept.op = "store"
      BY <1>18 DEF StoreData, PutByte, book, StoreInv, Loaded
    <2>2. Blank(0, BIN_OFFSET_DATA)'
      BY <1>18, DataMore
    <2>3. ASSUME NEW x \in 0..(BIN_OFFSET_DATA - 1)
          PROVE  Settled'[x] = BYTE - 1 /\ ~(x < 0)
      BY <2>2, Fits DEF Blank
    <2>4. HeadUpTo(kept, 0)'
      BY <2>3 DEF HeadUpTo
    <2>5. 0 \in 0..BIN_OFFSET_DATA /\ ~(0 > 0)
      BY Fits
    <2>6. QED
      BY <2>1, <2>4, <2>5 DEF KeptInv
  <1>19. ASSUME DataStored
        PROVE  KeptInv'
    <2>1. kept' = kept /\ UNCHANGED <<flash, work>>
      BY <1>19 DEF DataStored, Goto, irq, dev, book, code
    <2>2. QED
      BY <2>1, SettledStays, KeptStays
  <1>20. ASSUME StoreHeader
        PROVE  KeptInv'
    <2>1. kept' = kept /\ kept = Loaded("store") /\ kept.op = "store"
      BY <1>20 DEF StoreHeader, PutByte, book, StoreInv, Loaded
    <2>2. i' \in 0..BIN_OFFSET_DATA /\ HeadUpTo(kept, i)' /\ DataUpTo(kept, NB * Len(kept.data))'
      BY <1>20, HeadMore
    <2>3. QED
      BY <2>1, <2>2 DEF KeptInv
  <1>21. ASSUME Stored
        PROVE  KeptInv'
    <2>1. /\ at = "header_out" /\ i = BIN_OFFSET_DATA /\ exe.size # 0
          /\ kept' = Loaded("keep") /\ UNCHANGED <<flash, work>>
      BY <1>21 DEF Stored, dev, ExeInv
    <2>2. /\ kept = Loaded("store") /\ HeadUpTo(kept, BIN_OFFSET_DATA)
          /\ DataUpTo(kept, NB * Len(kept.data))
      BY <2>1 DEF StoreInv
    <2>3. kept'.base = kept.base /\ kept'.data = kept.data /\ kept'.op = "keep" /\ kept # None /\ kept' # None
      BY <2>1, <2>2 DEF Loaded, None
    <2>4. Settled' = Settled
      BY <2>1, SettledStays
    <2>5. HeadOf(kept)' = HeadOf(kept)
      BY <2>3 DEF HeadOf, KeptHead
    <2>6. HeadUpTo(kept, BIN_OFFSET_DATA)'
      BY <2>2, <2>4, <2>5 DEF HeadUpTo
    <2>7. DataUpTo(kept, NB * Len(kept.data))'
      BY <2>2, <2>3, <2>4 DEF DataUpTo, Covered
    <2>8. /\ kept'.data # <<>> /\ kept'.base % NB = 0
          /\ kept'.base + NB * Len(kept'.data) <= NB * MEM
      BY <2>3 DEF KeptInv
    <2>9. QED
      BY <2>3, <2>6, <2>7, <2>8 DEF KeptInv
  <1>22. ASSUME Boot
        PROVE  KeptInv'
    <2>1. kept' = kept /\ UNCHANGED <<flash, work>>
      BY <1>22 DEF Boot, Goto, irq, code, dev, book
    <2>2. QED
      BY <2>1, SettledStays, KeptStays
  <1>23. ASSUME NEW yes \in BOOLEAN, Anyway(yes)
        PROVE  KeptInv'
    <2>1. kept' = kept /\ UNCHANGED <<flash, work>>
      BY <1>23 DEF Anyway, Goto, irq, code, dev, book
    <2>2. QED
      BY <2>1, SettledStays, KeptStays
  <1>24. ASSUME DisableIrq
        PROVE  KeptInv'
    <2>1. kept' = kept /\ UNCHANGED <<flash, work>>
      BY <1>24 DEF DisableIrq, MieAtBoot, code, dev, book
    <2>2. QED
      BY <2>1, SettledStays, KeptStays
  <1>25. ASSUME LedOff
        PROVE  KeptInv'
    <2>1. kept' = kept /\ UNCHANGED <<flash, work>>
      BY <1>25 DEF LedOff, code, dev, book
    <2>2. QED
      BY <2>1, SettledStays, KeptStays
  <1>26. ASSUME Jump
        PROVE  KeptInv'
    <2>1. kept' = kept /\ UNCHANGED <<flash, work>>
      BY <1>26 DEF Jump, Goto, irq, code, dev, book
    <2>2. QED
      BY <2>1, SettledStays, KeptStays
  <1>27. QED
    BY <1>1, <1>2, <1>3, <1>4, <1>5, <1>6, <1>7, <1>8, <1>9, <1>10, <1>11, <1>12, <1>13, <1>14,
       <1>15, <1>16, <1>17, <1>18, <1>19, <1>20, <1>21, <1>22, <1>23, <1>24, <1>25, <1>26 DEF
       Next, Cpu, User
-----------------------------------------------------------------------------
LEMMA StoreStays ==
    ASSUME StoreInv, UNCHANGED <<at, exe, hdr, i, left, g_flash_addr, mem, kept>>, Settled' = Settled
    PROVE  StoreInv'
  <1>1. Loaded("store")' = Loaded("store")
    BY DEF Loaded, MemWord, Mapped
  <1>2. \A a, b : Blank(a, b) => Blank(a, b)'
    BY DEF Blank
  <1>3. /\ Blank(0, g_flash_addr) => Blank(0, g_flash_addr)'
        /\ Blank(0, BIN_OFFSET_DATA) => Blank(0, BIN_OFFSET_DATA)'
        /\ Blank(BIN_OFFSET_DATA + i, SECTOR * Sectors(exe.size)) =>
             Blank(BIN_OFFSET_DATA + i, SECTOR * Sectors(exe.size))'
    BY DEF Blank, Sectors
  <1>4. /\ DataUpTo(kept, i) => DataUpTo(kept, i)'
        /\ DataUpTo(kept, NB * Len(kept.data)) => DataUpTo(kept, NB * Len(kept.data))'
    BY DEF DataUpTo, Covered
  <1>5. HeadUpTo(kept, i) => HeadUpTo(kept, i)'
    BY DEF HeadUpTo, HeadOf, KeptHead
  <1>6. QED
    BY <1>1, <1>3, <1>4, <1>5 DEF StoreInv, Sectors

\* The first n words of data.
LEMMA FirstWords ==
    ASSUME NEW d \in Seq(Word), NEW n \in Nat, n <= Len(d)
    PROVE  /\ SubSeq(d, 1, n) = [k \in 1..n |-> d[k]]
           /\ [k \in 1..n |-> d[k]] \in [1..n -> Word]
  <1>1. \A k \in 1..n : d[k] \in Word
    OBVIOUS
  <1> DEFINE u == SubSeq(d, 1, n)
  <1>2. u \in Seq(Word) /\ Len(u) = n /\ \A k \in 1..n : u[k] = d[k]
    BY <1>1, SubSeqProperties
  <1> HIDE DEF u
  <1>3. u \in [1..n -> Word]
    <2>1. u \in [1..Len(u) -> Word]
      BY <1>2
    <2>2. QED
      BY <1>2, <2>1
  <1>4. u = [k \in 1..n |-> d[k]]
    BY <1>2, <1>3
  <1>5. QED
    BY <1>1, <1>4 DEF u

\* The checksum of the words that are begun, one byte further.
LEMMA ChecksumMore ==
    ASSUME TypeInv, ExeInv, StoreInv, StoreData
    PROVE  hdr'.checksum = Sum(SubSeq(kept.data, 1, (i + 1 + NB - 1) \div NB))
  <1> DEFINE n == i \div NB
             r == i % NB
             tmp == MemWord(hdr.base_addr + i - (i % NB))
             d == kept.data
  <1>1. at = "data" /\ i - (i % NB) < hdr.size
        /\ hdr' = [hdr EXCEPT !.checksum = IF r = 0 THEN Add(@, tmp) ELSE @]
    BY DEF StoreData
  <1>2. hdr.checksum = Sum(SubSeq(d, 1, (i + NB - 1) \div NB)) /\ kept = Loaded("store") /\ exe.size # 0
    BY <1>1 DEF StoreInv, ExeInv
  <1>3. /\ n \in Nat /\ r \in 0..(NB - 1) /\ i = NB * n + r
        /\ n < Len(d) /\ tmp = d[n + 1] /\ tmp \in Word
    BY <1>1, StoreWord
  <1>4. d \in Seq(Word)
    BY <1>2, LoadedMeans
  <1>5. i \in Nat /\ hdr.checksum \in Word
    BY DEF TypeInv
  <1>6. hdr'.checksum = IF r = 0 THEN Add(hdr.checksum, tmp) ELSE hdr.checksum
    BY <1>1 DEF TypeInv
  <1> HIDE DEF n, r, tmp, d
  <1>7. NB \in Nat /\ NB > 0
    BY Widths
  <1>8. (i + 1 + NB - 1) \div NB = n + 1
    <2>1. i + 1 + NB - 1 = NB * (n + 1) + r /\ n + 1 \in Nat
      <3>1. NB * (n + 1) = NB * n + NB /\ NB * n \in Nat
        BY <1>3, <1>7
      <3>2. QED
        BY <1>3, <1>7, <3>1
    <2>2. QED
      BY <1>3, <2>1, Multiple
  <1>9. CASE r = 0
    <2>1. (i + NB - 1) \div NB = n
      <3>1. i + NB - 1 = NB * n + (NB - 1) /\ NB - 1 \in 0..(NB - 1)
        BY <1>3, <1>7, <1>9, MultipleOnly
      <3>2. QED
        BY <1>3, <3>1, Multiple
    <2> DEFINE f == [k \in 1..(n + 1) |-> d[k]]
    <2>2. /\ SubSeq(d, 1, n) = [k \in 1..n |-> d[k]]
          /\ SubSeq(d, 1, n + 1) = f /\ f \in [1..(n + 1) -> Word]
          /\ [k \in 1..n |-> d[k]] \in [1..n -> Word]
      BY <1>3, <1>4, FirstWords
    <2>3. f[n + 1] = d[n + 1] /\ [k \in 1..n |-> f[k]] = [k \in 1..n |-> d[k]]
      BY <1>3
    <2> HIDE DEF f
    <2>4. Sum(f) = Add(f[n + 1], Sum([k \in 1..n |-> f[k]]))
      BY <1>3, <2>2, SumNext
    <2>5. Sum(f) = Add(tmp, hdr.checksum)
      BY <1>2, <1>3, <2>1, <2>2, <2>3, <2>4
    <2>6. Add(tmp, hdr.checksum) = Add(hdr.checksum, tmp)
      BY <1>3, <1>5, AddSwap
    <2>7. QED
      BY <1>6, <1>8, <1>9, <2>2, <2>5, <2>6 DEF d
  <1>10. CASE r # 0
    <2>1. (i + NB - 1) \div NB = n + 1
      <3>1. i + NB - 1 = NB * (n + 1) + (r - 1) /\ n + 1 \in Nat /\ r - 1 \in 0..(NB - 1)
        <4>1. NB * (n + 1) = NB * n + NB /\ NB * n \in Nat
          BY <1>3, <1>7
        <4>2. QED
          BY <1>3, <1>7, <1>10, <4>1
      <3>2. QED
        BY <3>1, Multiple
    <2>2. QED
      BY <1>2, <1>6, <1>8, <1>10, <2>1 DEF d
  <1>11. QED
    BY <1>9, <1>10

\* The header and the data of a store.
LEMMA StoreStep == ASSUME TypeInv, ExeInv, StoreInv, Next PROVE StoreInv'
  <1>1. ASSUME FlashDone
        PROVE  StoreInv'
    <2>1. UNCHANGED <<at, exe, hdr, i, left, g_flash_addr, mem, kept>>
      BY <1>1 DEF FlashDone, code, book
    <2>2. QED
      BY <1>1, <2>1, SettledDone, StoreStays
  <1>2. ASSUME Reset
        PROVE  StoreInv'
    <2>1. at' \notin {"confirm", "erase", "data", "header_out"}
      BY <1>2 DEF Reset, Restarted, StoreInv
    <2>2. QED
      BY <2>1 DEF StoreInv
  <1>3. ASSUME Mti
        PROVE  StoreInv'
    <2>1. UNCHANGED <<at, exe, hdr, i, left, g_flash_addr, mem, kept>> /\ UNCHANGED <<flash, work>>
      BY <1>3 DEF Mti, code, dev, book
    <2>2. QED
      BY <2>1, SettledStays, StoreStays
  <1>4. ASSUME TimeOut
        PROVE  StoreInv'
    <2>1. at' \notin {"confirm", "erase", "data", "header_out"}
      BY <1>4 DEF TimeOut, LoadFlash, Load, Goto, irq, dev, StoreInv
    <2>2. QED
      BY <2>1 DEF StoreInv
  <1>5. ASSUME AnyKey
        PROVE  StoreInv'
    <2>1. at' \notin {"confirm", "erase", "data", "header_out"}
      BY <1>5 DEF AnyKey, Goto, irq, code, dev, book, StoreInv
    <2>2. QED
      BY <2>1 DEF StoreInv
  <1>6. ASSUME GetHeader
        PROVE  StoreInv'
    <2>1. at' \notin {"confirm", "erase", "data", "header_out"}
      BY <1>6 DEF GetHeader, StreamGet, Goto, irq, AfterLoad, Trap, book, StoreInv
    <2>2. QED
      BY <2>1 DEF StoreInv
  <1>7. ASSUME Copy
        PROVE  StoreInv'
    <2>1. at' \notin {"confirm", "erase", "data", "header_out"}
      BY <1>7 DEF Copy, StreamGet, Trap, irq, book, StoreInv
    <2>2. QED
      BY <2>1 DEF StoreInv
  <1>8. ASSUME Copied
        PROVE  StoreInv'
    <2>1. at' \notin {"confirm", "erase", "data", "header_out"}
      BY <1>8 DEF Copied, AfterLoad, Goto, Trap, irq, dev, book, StoreInv
    <2>2. QED
      BY <2>1 DEF StoreInv
  <1>9. ASSUME NEW f \in FILES, CmdUpload(f)
        PROVE  StoreInv'
    <2>1. at' \notin {"confirm", "erase", "data", "header_out"}
      BY <1>9 DEF CmdUpload, Command, Load, Goto, irq, StoreInv
    <2>2. QED
      BY <2>1 DEF StoreInv
  <1>10. ASSUME CmdLoad
        PROVE  StoreInv'
    <2>1. at' \notin {"confirm", "erase", "data", "header_out"}
      BY <1>10 DEF CmdLoad, Command, LoadFlash, Load, Goto, irq, dev, StoreInv
    <2>2. QED
      BY <2>1 DEF StoreInv
  <1>11. ASSUME CmdStore
        PROVE  StoreInv'
    <2>1. at' \notin {"erase", "data", "header_out"} /\ (at' = "confirm" => g_flash_addr' = 0)
      BY <1>11 DEF CmdStore, Command, Store, Goto
    <2>2. QED
      BY <2>1 DEF StoreInv
  <1>12. ASSUME CmdBoot
        PROVE  StoreInv'
    <2>1. at' \notin {"confirm", "erase", "data", "header_out"}
      BY <1>12 DEF CmdBoot, Command, Goto, irq, dev, StoreInv
    <2>2. QED
      BY <2>1 DEF StoreInv
  <1>13. ASSUME CmdExit
        PROVE  StoreInv'
    <2>1. at' \notin {"confirm", "erase", "data", "header_out"}
      BY <1>13 DEF CmdExit, Command, Trap, code, dev, StoreInv
    <2>2. QED
      BY <2>1 DEF StoreInv
  <1>14. ASSUME CmdRestart
        PROVE  StoreInv'
    <2>1. at' \notin {"confirm", "erase", "data", "header_out"}
      BY <1>14 DEF CmdRestart, Command, Restarted, StoreInv
    <2>2. QED
      BY <2>1 DEF StoreInv
  <1>15. ASSUME NEW yes \in BOOLEAN, Confirm(yes)
        PROVE  StoreInv'
    <2>1. CASE ~yes
      <3>1. at' = "prompt"
        BY <1>15, <2>1 DEF Confirm, Goto
      <3>2. QED
        BY <3>1 DEF StoreInv
    <2>2. CASE yes
      <3>1. at' = "erase" /\ left' = Sectors(exe.size) /\ g_flash_addr' = 0 /\ exe' = exe
            /\ hdr' = Header(<<BIN_SIGNATURE, exe.base, exe.size, 0>>)
        BY <1>15, <2>2 DEF Confirm, Goto
      <3>2. hdr'.signature = BIN_SIGNATURE /\ hdr'.base_addr = exe'.base /\ hdr'.size = exe'.size
            /\ hdr'.checksum = 0
        BY <3>1 DEF Header
      <3>3. g_flash_addr' % SECTOR = 0
        <4>1. 0 = SECTOR * 0 + 0
          BY Fits
        <4>2. QED
          BY <3>1, <4>1, Fits, DivModUnique
      <3>4. g_flash_addr' + SECTOR * left' = SECTOR * Sectors(exe'.size)
        <4>1. exe.size \in Nat
          BY Widths DEF TypeInv, Word
        <4>2. SECTOR * Sectors(exe.size) \in Nat
          BY <4>1, SectorsMeans
        <4>3. QED
          BY <3>1, <4>2
      <3>5. Blank(0, g_flash_addr)'
        BY <3>1 DEF Blank
      <3>6. QED
        BY <3>1, <3>2, <3>3, <3>4, <3>5 DEF StoreInv, Sectors
    <2>3. QED
      BY <2>1, <2>2
  <1>16. ASSUME EraseSector
        PROVE  StoreInv'
    <2>1. /\ at = "erase" /\ at' = at /\ UNCHANGED <<exe, hdr, mem>>
          /\ kept' = Loaded("store")
      BY <1>16 DEF EraseSector
    <2>2. kept' = Loaded("store")'
      BY <2>1 DEF Loaded, MemWord, Mapped
    <2>3. /\ g_flash_addr' % SECTOR = 0
          /\ g_flash_addr' + SECTOR * left' = SECTOR * Sectors(exe.size)
          /\ Blank(0, g_flash_addr)'
      BY <1>16, ErasedMore
    <2>4. hdr.signature = BIN_SIGNATURE /\ hdr.base_addr = exe.base /\ hdr.size = exe.size
          /\ hdr.checksum = 0
      BY <2>1 DEF StoreInv
    <2>5. QED
      BY <2>1, <2>2, <2>3, <2>4 DEF StoreInv, Sectors
  <1>17. ASSUME Erased
        PROVE  StoreInv'
    <2>1. /\ at = "erase" /\ left = 0 /\ g_flash_addr' = BIN_OFFSET_DATA /\ i' = 0 /\ at' = "data"
          /\ UNCHANGED <<exe, hdr, mem, kept>> /\ UNCHANGED <<flash, work>> /\ exe.size # 0
      BY <1>17 DEF Erased, Goto, dev, book, ExeInv
    <2>2. /\ hdr.signature = BIN_SIGNATURE /\ hdr.base_addr = exe.base /\ hdr.size = exe.size
          /\ hdr.checksum = 0
          /\ g_flash_addr + SECTOR * left = SECTOR * Sectors(exe.size)
          /\ g_flash_addr # 0 => kept = Loaded("store")
          /\ Blank(0, g_flash_addr)
      BY <2>1 DEF StoreInv
    <2>3. exe.size \in Nat /\ g_flash_addr \in Nat /\ i' \in Nat /\ i' <= exe.size
      BY <2>1, Widths DEF TypeInv, Word
    <2>4. g_flash_addr = SECTOR * Sectors(exe.size)
      <3>1. SECTOR * left = 0
        BY <2>1, Fits
      <3>2. QED
        BY <2>2, <2>3, <3>1
    <2>5. g_flash_addr > 0 /\ g_flash_addr >= BIN_OFFSET_DATA
      <3>1. SECTOR * Sectors(exe.size) >= SECTOR /\ SECTOR > 0 /\ BIN_OFFSET_DATA <= SECTOR
            /\ SECTOR \in Nat /\ BIN_OFFSET_DATA \in Nat
        BY <2>3, SectorsMeans, Fits
      <3>2. QED
        BY <2>3, <2>4, <3>1
    <2>6. kept' = Loaded("store")'
      BY <2>1, <2>2, <2>3, <2>5 DEF Loaded, MemWord, Mapped
    <2>7. Settled' = Settled
      BY <2>1, SettledStays
    <2>8. hdr'.checksum = Sum(SubSeq(kept'.data, 1, (i' + NB - 1) \div NB))
      <3>1. (0 + NB - 1) \div NB = 0
        <4>1. 0 + NB - 1 = NB * 0 + (NB - 1) /\ NB - 1 \in 0..(NB - 1)
          BY Widths
        <4>2. QED
          BY <4>1, Multiple
      <3>2. SubSeq(kept'.data, 1, 0) = <<>>
        <4>1. PICK d : d = kept'.data
          OBVIOUS
        <4>2. SubSeq(d, 1, 0) = <<>>
          BY SubSeqEmpty
        <4>3. QED
          BY <4>1, <4>2
      <3>3. QED
        BY <2>1, <2>2, <3>1, <3>2, SumNothing
    <2>9. DataUpTo(kept, i)'
      BY <2>1 DEF DataUpTo
    <2>10. Blank(0, BIN_OFFSET_DATA)'
      <3>1. \A x \in 0..(BIN_OFFSET_DATA - 1) : x \in 0..(g_flash_addr - 1)
        BY <2>3, <2>5, Fits
      <3>2. QED
        BY <2>2, <2>7, <3>1 DEF Blank
    <2>11. Blank(BIN_OFFSET_DATA + i, SECTOR * Sectors(exe.size))'
      <3>1. \A x \in BIN_OFFSET_DATA..(g_flash_addr - 1) : x \in 0..(g_flash_addr - 1)
        BY <2>3, <2>5, Fits
      <3>2. \A x \in BIN_OFFSET_DATA..(g_flash_addr - 1) : Settled'[x] = BYTE - 1
        BY <2>2, <2>7, <3>1 DEF Blank
      <3>3. BIN_OFFSET_DATA + i' = BIN_OFFSET_DATA
        BY <2>1, Fits
      <3>4. QED
        BY <2>1, <2>4, <3>2, <3>3 DEF Blank, Sectors
    <2>12. g_flash_addr' = BIN_OFFSET_DATA + i'
      BY <2>1, Fits
    <2>13. QED
      BY <2>1, <2>2, <2>3, <2>6, <2>8, <2>9, <2>10, <2>11, <2>12 DEF StoreInv
  <1>18. ASSUME StoreData
        PROVE  StoreInv'
    <2>1. /\ at = "data" /\ at' = "data" /\ g_flash_addr' = g_flash_addr + 1
          /\ UNCHANGED <<exe, mem, kept>>
          /\ \E c : hdr' = [hdr EXCEPT !.checksum = c]
      BY <1>18 DEF StoreData, PutByte, book
    <2>2. /\ hdr.signature = BIN_SIGNATURE /\ hdr.base_addr = exe.base /\ hdr.size = exe.size
          /\ kept = Loaded("store") /\ g_flash_addr = BIN_OFFSET_DATA + i
      BY <2>1 DEF StoreInv
    <2>3. i \in Nat /\ i' = i + 1 /\ i' <= exe.size /\ DataUpTo(kept, i)' /\ Blank(0, BIN_OFFSET_DATA)'
          /\ Blank(BIN_OFFSET_DATA + i, SECTOR * Sectors(exe.size))'
      BY <1>18, DataMore
    <2>4. hdr'.signature = BIN_SIGNATURE /\ hdr'.base_addr = exe.base /\ hdr'.size = exe.size
      BY <2>1, <2>2 DEF TypeInv
    <2>5. kept' = Loaded("store")'
      BY <2>1, <2>2 DEF Loaded, MemWord, Mapped
    <2>6. hdr'.checksum = Sum(SubSeq(kept'.data, 1, (i' + NB - 1) \div NB))
      <3>1. hdr'.checksum = Sum(SubSeq(kept.data, 1, (i + 1 + NB - 1) \div NB))
        BY <1>18, ChecksumMore
      <3>2. QED
        BY <2>1, <2>3, <3>1
    <2>7. g_flash_addr' = BIN_OFFSET_DATA + i'
      BY <2>1, <2>2, <2>3, Fits
    <2>8. QED
      BY <2>1, <2>3, <2>4, <2>5, <2>6, <2>7 DEF StoreInv
  <1>19. ASSUME DataStored
        PROVE  StoreInv'
    <2>1. /\ at = "data" /\ i - (i % NB) >= hdr.size /\ at' = "header_out" /\ i' = 0 /\ g_flash_addr' = 0
          /\ hdr' = [hdr EXCEPT !.checksum = Complement(@)]
          /\ UNCHANGED <<exe, mem, kept>> /\ UNCHANGED <<flash, work>> /\ exe.size # 0
      BY <1>19 DEF DataStored, Goto, dev, book, ExeInv
    <2>2. /\ hdr.signature = BIN_SIGNATURE /\ hdr.base_addr = exe.base /\ hdr.size = exe.size
          /\ kept = Loaded("store") /\ i <= exe.size
          /\ hdr.checksum = Sum(SubSeq(kept.data, 1, (i + NB - 1) \div NB))
          /\ DataUpTo(kept, i) /\ Blank(0, BIN_OFFSET_DATA)
      BY <2>1 DEF StoreInv
    <2>3. i \in Nat /\ exe.size \in Nat
      BY Widths DEF TypeInv, Word
    <2>4. kept.data \in Seq(Word) /\ NB * Len(kept.data) = exe.size
      BY <2>1, <2>2, LoadedMeans
    <2> DEFINE l == Len(kept.data)
    <2>5. l \in Nat
      BY <2>4
    <2> HIDE DEF l
    <2>6. i = NB * l
      <3>1. (i % NB) \in 0..(NB - 1)
        BY <2>3, Widths, DivModMeans
      <3>2. QED
        BY <2>1, <2>2, <2>3, <2>4, <3>1 DEF l
    <2>7. (i + NB - 1) \div NB = l
      <3>1. i + NB - 1 = NB * l + (NB - 1) /\ NB - 1 \in 0..(NB - 1)
        BY <2>5, <2>6, MultipleOnly, Widths
      <3>2. QED
        BY <2>5, <3>1, Multiple
    <2>8. hdr.checksum = Sum(kept.data)
      <3>1. SubSeq(kept.data, 1, l) = [k \in 1..l |-> kept.data[k]]
        BY <2>4, <2>5, FirstWords DEF l
      <3>2. kept.data = [k \in 1..l |-> kept.data[k]]
        BY <2>4 DEF l
      <3>3. QED
        BY <2>2, <2>7, <3>1, <3>2
    <2>9. hdr'.signature = BIN_SIGNATURE /\ hdr'.base_addr = exe.base /\ hdr'.size = exe.size
          /\ hdr'.checksum = Complement(Sum(kept.data))
      BY <2>1, <2>2, <2>8 DEF TypeInv
    <2>10. kept' = Loaded("store")'
      BY <2>1, <2>2 DEF Loaded, MemWord, Mapped
    <2>11. Settled' = Settled
      BY <2>1, SettledStays
    <2>12. HeadUpTo(kept, i)'
      <3>1. \A x \in 0..(BIN_OFFSET_DATA - 1) : Settled'[x] = BYTE - 1 /\ ~(x < 0)
        BY <2>2, <2>11, Fits DEF Blank
      <3>2. QED
        BY <2>1, <3>1 DEF HeadUpTo
    <2>13. DataUpTo(kept, NB * Len(kept.data))'
      BY <2>1, <2>2, <2>6, <2>11 DEF DataUpTo, Covered, l
    <2>14. i' <= BIN_OFFSET_DATA /\ g_flash_addr' = i'
      BY <2>1, Fits
    <2>15. QED
      BY <2>1, <2>9, <2>10, <2>12, <2>13, <2>14 DEF StoreInv
  <1>20. ASSUME StoreHeader
        PROVE  StoreInv'
    <2>1. /\ at = "header_out" /\ at' = "header_out" /\ g_flash_addr' = g_flash_addr + 1
          /\ UNCHANGED <<exe, mem, kept, hdr>>
      BY <1>20 DEF StoreHeader, PutByte, book
    <2>2. /\ hdr.signature = BIN_SIGNATURE /\ hdr.base_addr = exe.base /\ hdr.size = exe.size
          /\ kept = Loaded("store") /\ g_flash_addr = i
          /\ hdr.checksum = Complement(Sum(kept.data))
      BY <2>1 DEF StoreInv
    <2>3. /\ i' = i + 1 /\ i' \in 0..BIN_OFFSET_DATA
          /\ HeadUpTo(kept, i)' /\ DataUpTo(kept, NB * Len(kept.data))'
      BY <1>20, HeadMore
    <2>4. kept' = Loaded("store")'
      BY <2>1, <2>2 DEF Loaded, MemWord, Mapped
    <2>5. i' <= BIN_OFFSET_DATA /\ g_flash_addr' = i'
      BY <2>1, <2>2, <2>3, Fits
    <2>6. QED
      BY <2>1, <2>2, <2>3, <2>4, <2>5 DEF StoreInv
  <1>21. ASSUME Stored
        PROVE  StoreInv'
    <2>1. at' \notin {"confirm", "erase", "data", "header_out"}
      BY <1>21 DEF Stored, Goto, irq, dev, StoreInv
    <2>2. QED
      BY <2>1 DEF StoreInv
  <1>22. ASSUME Boot
        PROVE  StoreInv'
    <2>1. at' \notin {"confirm", "erase", "data", "header_out"}
      BY <1>22 DEF Boot, Goto, irq, code, dev, book, StoreInv
    <2>2. QED
      BY <2>1 DEF StoreInv
  <1>23. ASSUME NEW yes \in BOOLEAN, Anyway(yes)
        PROVE  StoreInv'
    <2>1. at' \notin {"confirm", "erase", "data", "header_out"}
      BY <1>23 DEF Anyway, Goto, irq, code, dev, StoreInv
    <2>2. QED
      BY <2>1 DEF StoreInv
  <1>24. ASSUME DisableIrq
        PROVE  StoreInv'
    <2>1. at' \notin {"confirm", "erase", "data", "header_out"}
      BY <1>24 DEF DisableIrq, MieAtBoot, code, dev, book, StoreInv
    <2>2. QED
      BY <2>1 DEF StoreInv
  <1>25. ASSUME LedOff
        PROVE  StoreInv'
    <2>1. at' \notin {"confirm", "erase", "data", "header_out"}
      BY <1>25 DEF LedOff, code, dev, book, StoreInv
    <2>2. QED
      BY <2>1 DEF StoreInv
  <1>26. ASSUME Jump
        PROVE  StoreInv'
    <2>1. at' \notin {"confirm", "erase", "data", "header_out"}
      BY <1>26 DEF Jump, Goto, irq, code, dev, book, StoreInv
    <2>2. QED
      BY <2>1 DEF StoreInv
  <1>27. QED
    BY <1>1, <1>2, <1>3, <1>4, <1>5, <1>6, <1>7, <1>8, <1>9, <1>10, <1>11, <1>12, <1>13, <1>14,
       <1>15, <1>16, <1>17, <1>18, <1>19, <1>20, <1>21, <1>22, <1>23, <1>24, <1>25, <1>26 DEF
       Next, Cpu, User
-----------------------------------------------------------------------------
\* An image is its header and its data, byte for byte.
LEMMA ImageBytes ==
    ASSUME NEW f \in FILES, NEW k, k = [op |-> "keep", base |-> f.base, data |-> Program(f)]
    PROVE  LET w == Image(f.bytes, f.base)
               l == Len(Program(f))
           IN  /\ Bytes(w) \in [1..(NB * (4 + l)) -> ByteVal] /\ Len(Bytes(w)) = NB * (4 + l)
               /\ \A x \in 0..(BIN_OFFSET_DATA - 1) : Bytes(w)[x + 1] = HeadOf(k)[x + 1]
               /\ \A x \in 0..(NB * l - 1) : Bytes(w)[BIN_OFFSET_DATA + x + 1] = Bytes(k.data)[x + 1]
  <1> DEFINE w == Image(f.bytes, f.base)
             p == Program(f)
             l == Len(p)
             h == KeptHead(k)
  <1>1. p \in Seq(Word) /\ l \in Nat /\ f.base \in Word /\ NB * l \in Word
    BY FileFacts
  <1>2. /\ w \in Seq(Word) /\ Len(w) = 4 + l
        /\ w[1] = BIN_SIGNATURE /\ w[2] = f.base /\ w[3] = NB * l /\ w[4] = Complement(Sum(p))
        /\ \A m \in 1..l : w[4 + m] = p[m]
    BY ImageFacts
  <1>3. h = <<BIN_SIGNATURE, f.base, NB * l, Complement(Sum(p))>>
    BY DEF KeptHead
  <1>4. k.data = p
    OBVIOUS
  <1> HIDE DEF w, p, l, h
  <1>5. h \in Seq(Word) /\ Len(h) = 4 /\ h[1] = w[1] /\ h[2] = w[2] /\ h[3] = w[3] /\ h[4] = w[4]
    <2>1. Complement(Sum(p)) \in Word
      BY <1>1, SumType, ComplementFits
    <2>2. h \in Seq(Word) /\ Len(h) = 4
      BY <1>1, <1>3, <2>1, WordConstants
    <2>3. h[1] = BIN_SIGNATURE /\ h[2] = f.base /\ h[3] = NB * l /\ h[4] = Complement(Sum(p))
      BY <1>3
    <2>4. QED
      BY <1>2, <2>2, <2>3
  <1>6. /\ Bytes(w) \in [1..(NB * (4 + l)) -> ByteVal]
        /\ \A n \in Nat, r \in 0..(NB - 1) : n < 4 + l => Bytes(w)[NB * n + r + 1] = ByteOf(w[n + 1], r)
    BY <1>2, BytesMeans
  <1>7. Len(Bytes(w)) = NB * (4 + l)
    <2>1. NB * (4 + l) \in Nat
      BY <1>1, MultipleOnly
    <2>2. QED
      BY <1>6, <2>1
  <1>8. ASSUME NEW x \in 0..(BIN_OFFSET_DATA - 1)
        PROVE  Bytes(w)[x + 1] = Bytes(h)[x + 1]
    <2>1. PICK n \in Nat : \E r \in 0..(NB - 1) : x = NB * n + r
      <3>1. x \in Nat
        BY Fits
      <3>2. QED
        BY <3>1, MultipleMeans
    <2>2. PICK r \in 0..(NB - 1) : x = NB * n + r
      BY <2>1
    <2>3. n < 4
      <3>1. NB * n \in Nat /\ NB * n < NB * 4 /\ 4 \in Nat
        BY <2>2, Fits, MultipleOnly
      <3>2. QED
        BY <3>1, MultipleOrder
    <2>4. Bytes(w)[NB * n + r + 1] = ByteOf(w[n + 1], r)
      BY <1>1, <1>6, <2>3
    <2>5. Bytes(h)[NB * n + r + 1] = ByteOf(h[n + 1], r)
      BY <1>5, <2>3, BytesMeans
    <2>6. h[n + 1] = w[n + 1]
      <3>1. n = 0 \/ n = 1 \/ n = 2 \/ n = 3
        BY <2>3
      <3>2. QED
        BY <1>5, <3>1
    <2>7. QED
      BY <2>2, <2>4, <2>5, <2>6
  <1>9. ASSUME NEW x \in 0..(NB * l - 1)
        PROVE  Bytes(w)[BIN_OFFSET_DATA + x + 1] = Bytes(p)[x + 1]
    <2>0. NB * l \in Nat
      BY <1>1, MultipleOnly
    <2>1. PICK n \in Nat : \E r \in 0..(NB - 1) : x = NB * n + r
      BY <2>0, MultipleMeans
    <2>2. PICK r \in 0..(NB - 1) : x = NB * n + r
      BY <2>1
    <2>3. n < l
      <3>1. NB * n \in Nat /\ NB * n < NB * l
        BY <2>0, <2>2, MultipleOnly
      <3>2. QED
        BY <1>1, <3>1, MultipleOrder
    <2>4. BIN_OFFSET_DATA + x + 1 = NB * (4 + n) + r + 1 /\ 4 + n \in Nat /\ 4 + n < 4 + l
      <3>1. NB * (4 + n) = NB * 4 + NB * n /\ NB * n \in Nat
        BY MultipleOrder
      <3>2. QED
        BY <1>1, <2>2, <2>3, <3>1, Fits
    <2>5. Bytes(w)[NB * (4 + n) + r + 1] = ByteOf(w[(4 + n) + 1], r)
      BY <1>6, <2>4
    <2>6. Bytes(p)[NB * n + r + 1] = ByteOf(p[n + 1], r)
      BY <1>1, <2>3, BytesMeans DEF l
    <2>7. w[(4 + n) + 1] = p[n + 1]
      <3>1. n + 1 \in 1..l /\ (4 + n) + 1 = 4 + (n + 1)
        BY <1>1, <2>3
      <3>2. QED
        BY <1>2, <3>1
    <2>8. QED
      BY <2>2, <2>4, <2>5, <2>6, <2>7
  <1>10. QED
    BY <1>4, <1>6, <1>7, <1>8, <1>9 DEF w, p, l, h, HeadOf

\* An image that was written to the flash before.
LEMMA HoldsImage ==
    ASSUME NEW f \in FILES, work = None, flash = Holds(0, Image(f.bytes, f.base)),
           kept = [op |-> "keep", base |-> f.base, data |-> Program(f)]
    PROVE  /\ FlashType
           /\ HeadUpTo(kept, BIN_OFFSET_DATA)
           /\ DataUpTo(kept, NB * Len(kept.data))
  <1> DEFINE w == Image(f.bytes, f.base)
             l == Len(Program(f))
             b == Bytes(w)
  <1>1. /\ b \in [1..(NB * (4 + l)) -> ByteVal] /\ Len(b) = NB * (4 + l)
        /\ \A x \in 0..(BIN_OFFSET_DATA - 1) : b[x + 1] = HeadOf(kept)[x + 1]
        /\ \A x \in 0..(NB * l - 1) : b[BIN_OFFSET_DATA + x + 1] = Bytes(kept.data)[x + 1]
    BY ImageBytes
  <1>2. l \in Nat /\ NB * l \in Nat /\ NB * l <= NB * MEM
    <2>1. l \in Nat /\ f.base \in Nat /\ f.base + NB * l <= NB * MEM
      BY FileFacts, Widths DEF Word
    <2>2. NB * l \in Nat
      BY <2>1, MultipleOnly
    <2>3. QED
      BY <2>1, <2>2, Fits
  <1>3. NB * (4 + l) = BIN_OFFSET_DATA + NB * l
    BY <1>2, MultipleOrder, Fits
  <1>4. flash = [x \in 0..(FLASH - 1) |-> IF x \in 0..(0 + Len(b) - 1) THEN b[x - 0 + 1] ELSE BYTE - 1]
    BY DEF Holds
  <1>5. kept.data = Program(f)
    OBVIOUS
  <1> HIDE DEF w, l, b
  <1>6. ASSUME NEW x \in 0..(FLASH - 1)
        PROVE  /\ flash[x] = IF x < NB * (4 + l) THEN b[x + 1] ELSE BYTE - 1
               /\ flash[x] \in ByteVal
    <2>1. flash[x] = IF x \in 0..(0 + Len(b) - 1) THEN b[x - 0 + 1] ELSE BYTE - 1
      BY <1>4
    <2>2. x - 0 + 1 = x + 1 /\ (x \in 0..(0 + Len(b) - 1) <=> x < NB * (4 + l))
      BY <1>1, <1>2, <1>3, Fits
    <2>3. x < NB * (4 + l) => b[x + 1] \in ByteVal
      <3>1. x < NB * (4 + l) => x + 1 \in 1..(NB * (4 + l))
        BY <1>2, <1>3, Fits
      <3>2. QED
        BY <1>1, <3>1
    <2>4. QED
      BY <2>1, <2>2, <2>3, WordConstants
  <1>7. FlashType
    BY <1>4, <1>6 DEF FlashType
  <1>8. Settled = flash
    BY DEF Settled, None
  <1>9. HeadUpTo(kept, BIN_OFFSET_DATA)
    <2>1. ASSUME NEW x \in 0..(BIN_OFFSET_DATA - 1)
          PROVE  x \in 0..(FLASH - 1) /\ x < NB * (4 + l) /\ x < BIN_OFFSET_DATA
      BY <1>2, <1>3, Fits
    <2>2. QED
      BY <1>1, <1>6, <1>8, <2>1 DEF HeadUpTo
  <1>10. DataUpTo(kept, NB * Len(kept.data))
    <2>1. ASSUME NEW x \in 0..(NB * l - 1)
          PROVE  BIN_OFFSET_DATA + x \in 0..(FLASH - 1) /\ BIN_OFFSET_DATA + x < NB * (4 + l)
      BY <1>2, <1>3, Fits
    <2>2. \A x \in 0..(NB * l - 1) : Settled[BIN_OFFSET_DATA + x] = Bytes(kept.data)[x + 1]
      BY <1>1, <1>6, <1>8, <2>1
    <2>3. QED
      BY <1>5, <2>2 DEF DataUpTo, l
  <1>11. QED
    BY <1>7, <1>9, <1>10

LEMMA InitInv == Init => IInv
  <1> SUFFICES ASSUME Init PROVE IInv
    OBVIOUS
  <1>1. /\ at = "auto" /\ job = "auto" /\ exe = [base |-> 0, size |-> 0]
        /\ i = 0 /\ left = 0 /\ g_flash_addr = 0
        /\ work = None /\ stream = <<>> /\ led = 1 /\ mie = TRUE /\ forced = FALSE
    BY DEF Init
  <1>2. hdr \in [signature : Word, base_addr : Word, size : Word, checksum : Word]
    BY WordConstants DEF Init, Header
  <1>3. mem \in [0..(MEM - 1) -> Word]
    BY WordConstants DEF Init
  <1>4. FlashType /\ KeptType /\ KeptInv
    <2>1. CASE kept = None /\ flash \in {[x \in 0..(FLASH - 1) |-> b] : b \in {0, BYTE - 1}}
      <3>1. PICK b \in {0, BYTE - 1} : flash = [x \in 0..(FLASH - 1) |-> b]
        BY <2>1
      <3>2. FlashType
        BY <3>1, WordConstants DEF FlashType
      <3>3. Settled = flash
        BY <1>1 DEF Settled, None
      <3>4. QED
        BY <2>1, <3>1, <3>2, <3>3 DEF KeptType, KeptInv, None
    <2>2. CASE \E f \in FILES : /\ kept = [op |-> "keep", base |-> f.base, data |-> Words(Padded(f.bytes))]
                                /\ flash = Holds(0, Image(f.bytes, f.base))
      <3>1. PICK f \in FILES : /\ kept = [op |-> "keep", base |-> f.base, data |-> Program(f)]
                               /\ flash = Holds(0, Image(f.bytes, f.base))
        BY <2>2 DEF Program
      <3>2. /\ FlashType
            /\ HeadUpTo(kept, BIN_OFFSET_DATA) /\ DataUpTo(kept, NB * Len(kept.data))
        BY <1>1, <3>1, HoldsImage
      <3>3. /\ Program(f) \in Seq(Word) /\ Len(Program(f)) > 0
            /\ f.base \in Word /\ f.base % NB = 0
            /\ f.base + NB * Len(Program(f)) <= NB * MEM
        BY FileFacts
      <3>4. kept.op = "keep" /\ kept.base = f.base /\ kept.data = Program(f) /\ kept # None
        BY <3>1 DEF None
      <3>5. kept.data # <<>>
        BY <3>3, <3>4
      <3>6. KeptType
        BY <3>1, <3>3 DEF KeptType
      <3>7. QED
        BY <3>2, <3>3, <3>4, <3>5, <3>6 DEF KeptInv
    <2>3. QED
      BY <2>1, <2>2 DEF Init
  <1>5. TypeInv
    <2>1. exe \in [base : Word, size : Word] /\ stream \in Seq(Word)
      BY <1>1, WordConstants
    <2>2. i \in Nat /\ left \in Nat /\ g_flash_addr \in Nat /\ forced \in BOOLEAN
      BY <1>1
    <2>3. WorkType
      BY <1>1 DEF WorkType
    <2>4. QED
      BY <1>1, <1>2, <1>3, <1>4, <2>1, <2>2, <2>3 DEF TypeInv
  <1>6. IrqInv /\ ExeInv /\ LoadInv /\ StoreInv /\ FetchInv
    BY <1>1 DEF IrqInv, ExeInv, LoadInv, StoreInv, FetchInv
  <1>7. QED
    BY <1>4, <1>5, <1>6 DEF IInv

LEMMA StepInv == IInv /\ [Next]_vars => IInv'
  <1> SUFFICES ASSUME IInv, [Next]_vars PROVE IInv'
    OBVIOUS
  <1> USE DEF IInv
  <1>1. CASE Next
    <2>1. TypeInv'
      BY <1>1, TypeStep
    <2>2. IrqInv'
      BY <1>1, IrqStep
    <2>3. ExeInv'
      BY <1>1, ExeStep
    <2>4. LoadInv'
      BY <1>1, LoadStep
    <2>5. KeptInv'
      BY <1>1, KeptStep
    <2>6. StoreInv'
      BY <1>1, StoreStep
    <2>7. FetchInv'
      BY <1>1, FetchStep
    <2>8. QED
      BY <2>1, <2>2, <2>3, <2>4, <2>5, <2>6, <2>7
  <1>2. CASE UNCHANGED vars
    <2>1. /\ UNCHANGED <<at, job, exe, hdr, i, left, g_flash_addr>>
          /\ UNCHANGED <<mem, flash, work, stream, led, mie, kept, forced>>
      BY <1>2 DEF vars, code, dev, irq, book
    <2>2. Settled' = Settled
      BY <2>1, SettledStays
    <2>3. TypeInv' /\ IrqInv' /\ ExeInv'
      BY <2>1 DEF TypeInv, FlashType, WorkType, KeptType, IrqInv, ExeInv
    <2>4. LoadInv'
      <3>1. ASSUME at = "copy"
            PROVE  \E ws : Source(ws)' /\ Copying(ws)'
        BY <2>1, <3>1, CopyStays
      <3>2. QED
        BY <2>1, <3>1 DEF LoadInv, busy
    <2>5. KeptInv'
      BY <2>1, <2>2, KeptStays
    <2>6. StoreInv'
      BY <2>1, <2>2, StoreStays
    <2>7. FetchInv'
      BY <2>1, FetchStays
    <2>8. QED
      BY <2>3, <2>4, <2>5, <2>6, <2>7
  <1>3. QED
    BY <1>1, <1>2
-----------------------------------------------------------------------------
(* What follows from it. *)

\* An erase or a program begins inside the flash.
LEMMA TypesFollow == IInv => TypeOK
  <1> SUFFICES ASSUME IInv PROVE TypeOK
    OBVIOUS
  <1>1. TypeInv /\ IrqInv /\ ExeInv /\ StoreInv
    BY DEF IInv
  <1>2. exe.size \in Nat /\ exe.base \in Nat /\ g_flash_addr \in Nat /\ left \in Nat /\ i \in Nat
    BY <1>1, Widths DEF TypeInv, Word
  <1>3. ASSUME at \in {"erase", "data", "header_out"}
        PROVE  g_flash_addr <= FLASH
    <2>1. exe.size # 0 /\ exe.size <= NB * MEM
      BY <1>1, <1>2, <1>3, Fits DEF ExeInv
    <2>2. CASE at = "erase"
      <3> DEFINE t == SECTOR * Sectors(exe.size)
                 l == SECTOR * left
      <3>1. g_flash_addr + l = t
        BY <1>1, <2>2 DEF StoreInv
      <3>2. t \in Nat /\ t <= exe.size + SECTOR
        BY <1>2, SectorsMeans
      <3>3. l \in Nat
        BY <1>2, Fits
      <3> HIDE DEF t, l
      <3>4. QED
        BY <1>2, <2>1, <3>1, <3>2, <3>3, Fits
    <2>3. CASE at = "data"
      <3>1. g_flash_addr = BIN_OFFSET_DATA + i /\ i <= exe.size
        BY <1>1, <2>3 DEF StoreInv
      <3>2. QED
        BY <1>2, <2>1, <3>1, Fits
    <2>4. CASE at = "header_out"
      <3>1. g_flash_addr = i /\ i <= BIN_OFFSET_DATA
        BY <1>1, <2>4 DEF StoreInv
      <3>2. QED
        BY <1>2, <2>1, <3>1, Fits
    <2>5. QED
      BY <1>3, <2>2, <2>3, <2>4
  <1>4. mem \in [0..(MEM - 1) -> 0..(WORD - 1)] /\ flash \in [0..(FLASH - 1) -> 0..(BYTE - 1)]
    BY <1>1 DEF TypeInv, FlashType, Word, ByteVal
  <1>5. /\ led \in {0, 1} /\ mie \in BOOLEAN
        /\ at \in {"auto", "prompt", "header", "copy", "confirm", "erase", "data", "header_out",
                   "boot", "anyway", "quiet", "dark", "jump", "app", "halt"}
    BY <1>1 DEF TypeInv, IrqInv
  <1>6. exe.size # 0 => exe.base % NB = 0 /\ exe.base + exe.size <= NB * MEM
    BY <1>1 DEF ExeInv
  <1>7. QED
    BY <1>2, <1>3, <1>4, <1>5, <1>6 DEF TypeOK

\* Whole programs stay whole.
LEMMA IntactStays ==
    ASSUME IntactInv, UNCHANGED kept, UNCHANGED <<exe, mem>> \/ exe'.size = 0
    PROVE  IntactInv'
  <1>1. CASE exe'.size = 0
    BY <1>1 DEF IntactInv
  <1>2. CASE UNCHANGED <<exe, mem>>
    <2>1. Loaded("keep")' = Loaded("keep")
      BY <1>2 DEF Loaded, MemWord, Mapped
    <2>2. QED
      BY <1>2, <2>1 DEF IntactInv
  <1>3. QED
    BY <1>1, <1>2

\* A load that succeeds is of a whole program.
LEMMA IntactLoaded ==
    ASSUME AllCovered, IInv, IntactInv, Copied
    PROVE  IntactInv'
  <1>0. TypeInv /\ ExeInv /\ LoadInv /\ KeptInv
    BY DEF IInv
  <1>1. /\ at = "copy" /\ i >= hdr.size /\ mem' = mem /\ kept' = kept /\ exe.size = 0
        /\ exe' = IF ChecksumFits(hdr) THEN [exe EXCEPT !.size = hdr.size] ELSE exe
    BY <1>0 DEF Copied, dev, book, ExeInv
  <1>2. CASE ~ChecksumFits(hdr)
    BY <1>1, <1>2, IntactStays
  <1>3. CASE ChecksumFits(hdr)
    <2>1. /\ exe.base = hdr.base_addr
          /\ job = "u" => \E f \in FILES : DataAt(mem, hdr.base_addr, hdr.size) = Program(f)
          /\ job # "u" => /\ kept # None /\ hdr.size = NB * Len(kept.data)
                          /\ Covered(hdr.size) => DataAt(mem, hdr.base_addr, hdr.size) = kept.data
      BY <1>0, <1>1, <1>3, CopyEnds
    <2>2. exe'.base = hdr.base_addr /\ exe'.size = hdr.size
      BY <1>0, <1>1, <1>3, <2>1 DEF TypeInv
    <2>3. Loaded("keep")' = [op |-> "keep", base |-> exe'.base, data |-> DataAt(mem', exe'.base, exe'.size)]
      BY DEF Loaded, DataAt, WordAt, MemWord, Mapped
    <2>4. Loaded("keep")'.data = DataAt(mem, hdr.base_addr, hdr.size)
      BY <1>1, <2>2, <2>3
    <2>5. IsProgram(DataAt(mem, hdr.base_addr, hdr.size))
      <3>1. CASE job = "u"
        BY <2>1, <3>1 DEF IsProgram
      <3>2. CASE job # "u"
        <4>1. IsProgram(kept.data) /\ hdr.size = NB * Len(kept.data)
          BY <2>1, <3>2 DEF IntactInv
        <4>2. Covered(hdr.size)
          BY <4>1 DEF IsProgram, AllCovered
        <4>3. QED
          BY <2>1, <3>2, <4>1, <4>2
      <3>3. QED
        BY <3>1, <3>2
    <2>6. IsProgram(Loaded("keep").data)'
      BY <2>4, <2>5 DEF IsProgram
    <2>7. QED
      BY <1>1, <2>6 DEF IntactInv, IsProgram
  <1>4. QED
    BY <1>2, <1>3

LEMMA IntactStep == ASSUME AllCovered, IInv, IntactInv, Next PROVE IntactInv'
  <1>0. TypeInv /\ ExeInv
    BY DEF IInv
  <1>1. ASSUME FlashDone
        PROVE  IntactInv'
    <2>1. kept' = kept /\ UNCHANGED <<exe, mem>>
      BY <1>1 DEF FlashDone, busy, code, irq, book, dev
    <2>2. QED
      BY <2>1, IntactStays
  <1>2. ASSUME Reset
        PROVE  IntactInv'
    <2>1. kept' = kept /\ exe'.size = 0
      BY <1>0, <1>2 DEF Reset, Restarted, code, book, TypeInv, ExeInv
    <2>2. QED
      BY <2>1, IntactStays
  <1>3. ASSUME Mti
        PROVE  IntactInv'
    <2>1. kept' = kept /\ UNCHANGED <<exe, mem>>
      BY <1>3 DEF Mti, code, dev, book
    <2>2. QED
      BY <2>1, IntactStays
  <1>4. ASSUME TimeOut
        PROVE  IntactInv'
    <2>1. kept' = kept /\ exe'.size = 0
      BY <1>0, <1>4 DEF TimeOut, LoadFlash, Load, Goto, irq, dev, code, book, TypeInv, ExeInv
    <2>2. QED
      BY <2>1, IntactStays
  <1>5. ASSUME AnyKey
        PROVE  IntactInv'
    <2>1. kept' = kept /\ UNCHANGED <<exe, mem>>
      BY <1>5 DEF AnyKey, Goto, irq, code, dev, book
    <2>2. QED
      BY <2>1, IntactStays
  <1>6. ASSUME GetHeader
        PROVE  IntactInv'
    <2>1. kept' = kept /\ exe'.size = 0
      BY <1>0, <1>6 DEF GetHeader, StreamGet, Goto, irq, AfterLoad, Trap, book, code, TypeInv,
         ExeInv
    <2>2. QED
      BY <2>1, IntactStays
  <1>7. ASSUME Copy
        PROVE  IntactInv'
    <2>1. kept' = kept /\ exe'.size = 0
      BY <1>0, <1>7 DEF Copy, StreamGet, Trap, irq, book, code, TypeInv, ExeInv
    <2>2. QED
      BY <2>1, IntactStays
  <1>8. ASSUME Copied
        PROVE  IntactInv'
    BY <1>8, IntactLoaded
  <1>9. ASSUME NEW f \in FILES, CmdUpload(f)
        PROVE  IntactInv'
    <2>1. kept' = kept /\ exe'.size = 0
      BY <1>0, <1>9 DEF CmdUpload, Command, Load, Goto, irq, code, book, TypeInv, ExeInv
    <2>2. QED
      BY <2>1, IntactStays
  <1>10. ASSUME CmdLoad
        PROVE  IntactInv'
    <2>1. kept' = kept /\ exe'.size = 0
      BY <1>0, <1>10 DEF CmdLoad, Command, LoadFlash, Load, Goto, irq, dev, code, book, TypeInv,
         ExeInv
    <2>2. QED
      BY <2>1, IntactStays
  <1>11. ASSUME CmdStore
        PROVE  IntactInv'
    <2>1. kept' = kept /\ UNCHANGED <<exe, mem>>
      BY <1>11 DEF CmdStore, Command, Store, Goto, irq, dev, code, book
    <2>2. QED
      BY <2>1, IntactStays
  <1>12. ASSUME CmdBoot
        PROVE  IntactInv'
    <2>1. kept' = kept /\ UNCHANGED <<exe, mem>>
      BY <1>12 DEF CmdBoot, Command, Goto, irq, dev, code, book
    <2>2. QED
      BY <2>1, IntactStays
  <1>13. ASSUME CmdExit
        PROVE  IntactInv'
    <2>1. kept' = kept /\ UNCHANGED <<exe, mem>>
      BY <1>13 DEF CmdExit, Command, Trap, code, dev, book
    <2>2. QED
      BY <2>1, IntactStays
  <1>14. ASSUME CmdRestart
        PROVE  IntactInv'
    <2>1. kept' = kept /\ exe'.size = 0
      BY <1>0, <1>14 DEF CmdRestart, Command, Restarted, code, book, TypeInv, ExeInv
    <2>2. QED
      BY <2>1, IntactStays
  <1>15. ASSUME NEW yes \in BOOLEAN, Confirm(yes)
        PROVE  IntactInv'
    <2>1. kept' = kept /\ UNCHANGED <<exe, mem>>
      BY <1>15 DEF Confirm, Goto, irq, dev, book, code
    <2>2. QED
      BY <2>1, IntactStays
  <1>16. ASSUME EraseSector
        PROVE  IntactInv'
    <2>1. kept' = Loaded("store") /\ UNCHANGED <<exe, mem>> /\ exe.size # 0
      BY <1>0, <1>16 DEF EraseSector, ExeInv, dev
    <2>2. kept'.data = Loaded("keep").data
      BY <2>1 DEF Loaded
    <2>3. Loaded("keep")' = Loaded("keep")
      BY <2>1 DEF Loaded, MemWord, Mapped
    <2>4. QED
      BY <2>1, <2>2, <2>3 DEF IntactInv, IsProgram
  <1>17. ASSUME Erased
        PROVE  IntactInv'
    <2>1. kept' = kept /\ UNCHANGED <<exe, mem>>
      BY <1>17 DEF Erased, Goto, irq, dev, book, code
    <2>2. QED
      BY <2>1, IntactStays
  <1>18. ASSUME StoreData
        PROVE  IntactInv'
    <2>1. kept' = kept /\ UNCHANGED <<exe, mem>>
      BY <1>18 DEF StoreData, PutByte, irq, book, code, dev
    <2>2. QED
      BY <2>1, IntactStays
  <1>19. ASSUME DataStored
        PROVE  IntactInv'
    <2>1. kept' = kept /\ UNCHANGED <<exe, mem>>
      BY <1>19 DEF DataStored, Goto, irq, dev, book, code
    <2>2. QED
      BY <2>1, IntactStays
  <1>20. ASSUME StoreHeader
        PROVE  IntactInv'
    <2>1. kept' = kept /\ UNCHANGED <<exe, mem>>
      BY <1>20 DEF StoreHeader, PutByte, irq, book, code, dev
    <2>2. QED
      BY <2>1, IntactStays
  <1>21. ASSUME Stored
        PROVE  IntactInv'
    <2>1. kept' = Loaded("keep") /\ UNCHANGED <<exe, mem>> /\ exe.size # 0
      BY <1>0, <1>21 DEF Stored, ExeInv, dev
    <2>2. kept'.data = Loaded("keep").data
      BY <2>1 DEF Loaded
    <2>3. Loaded("keep")' = Loaded("keep")
      BY <2>1 DEF Loaded, MemWord, Mapped
    <2>4. QED
      BY <2>1, <2>2, <2>3 DEF IntactInv, IsProgram
  <1>22. ASSUME Boot
        PROVE  IntactInv'
    <2>1. kept' = kept /\ UNCHANGED <<exe, mem>>
      BY <1>22 DEF Boot, Goto, irq, code, dev, book
    <2>2. QED
      BY <2>1, IntactStays
  <1>23. ASSUME NEW yes \in BOOLEAN, Anyway(yes)
        PROVE  IntactInv'
    <2>1. kept' = kept /\ UNCHANGED <<exe, mem>>
      BY <1>23 DEF Anyway, Goto, irq, code, dev, book
    <2>2. QED
      BY <2>1, IntactStays
  <1>24. ASSUME DisableIrq
        PROVE  IntactInv'
    <2>1. kept' = kept /\ UNCHANGED <<exe, mem>>
      BY <1>24 DEF DisableIrq, MieAtBoot, code, dev, book
    <2>2. QED
      BY <2>1, IntactStays
  <1>25. ASSUME LedOff
        PROVE  IntactInv'
    <2>1. kept' = kept /\ UNCHANGED <<exe, mem>>
      BY <1>25 DEF LedOff, code, dev, book
    <2>2. QED
      BY <2>1, IntactStays
  <1>26. ASSUME Jump
        PROVE  IntactInv'
    <2>1. kept' = kept /\ UNCHANGED <<exe, mem>>
      BY <1>26 DEF Jump, Goto, irq, code, dev, book
    <2>2. QED
      BY <2>1, IntactStays
  <1>27. QED
    BY <1>1, <1>2, <1>3, <1>4, <1>5, <1>6, <1>7, <1>8, <1>9, <1>10, <1>11, <1>12, <1>13, <1>14,
       <1>15, <1>16, <1>17, <1>18, <1>19, <1>20, <1>21, <1>22, <1>23, <1>24, <1>25, <1>26 DEF
       Next, Cpu, User

LEMMA IntactInit == Init => IntactInv
  <1> SUFFICES ASSUME Init PROVE IntactInv
    OBVIOUS
  <1>1. exe.size = 0
    BY DEF Init
  <1>2. ASSUME kept # None
        PROVE  IsProgram(kept.data)
    <2>1. PICK f \in FILES : kept = [op |-> "keep", base |-> f.base, data |-> Words(Padded(f.bytes))]
      BY <1>2 DEF Init
    <2>2. QED
      BY <2>1 DEF IsProgram, Program
  <1>3. QED
    BY <1>1, <1>2 DEF IntactInv

-----------------------------------------------------------------------------
\* A load of a program that is kept does not end before its checksum does.
LEMMA LoadGoesOn ==
    ASSUME IInv, Next, job \in {"auto", "l"}, kept.op = "keep", Covered(NB * Len(kept.data))
    PROVE  /\ at = "header" => at' \in {"header", "copy", "auto"}
           /\ at = "copy" => at' \in {"copy", "auto"} \/ exe'.size # 0
  <1>0. TypeInv /\ ExeInv /\ LoadInv /\ KeptInv
    BY DEF IInv
  <1>1. ASSUME at \in {"header", "copy"}
        PROVE  FlashDone \/ Mti \/ Reset \/ GetHeader \/ Copy \/ Copied
    BY <1>1 DEF Next, Cpu, User, TimeOut, EraseSector, Erased, StoreData, DataStored, StoreHeader,
       Stored,
                Boot, DisableIrq, LedOff, Jump, AnyKey, CmdLoad, CmdStore, CmdBoot, CmdExit, CmdRestart,
                CmdUpload, Confirm, Anyway, Command
  <1>2. ASSUME FlashDone \/ Mti \/ Reset
        PROVE  at' \in {at, "auto"}
    BY <1>2 DEF FlashDone, Mti, Reset, Restarted
  <1>3. ASSUME at \in {"header", "copy"}
        PROVE  /\ ~busy /\ FlashWord(0) = BIN_SIGNATURE /\ FlashWord(NB) = kept.base
               /\ FlashWord(NB * 2) = NB * Len(kept.data)
    <2>1. ~busy
      BY <1>0, <1>3 DEF LoadInv
    <2>2. QED
      BY <1>0, <2>1, FlashHeader
  <1>4. ASSUME GetHeader
        PROVE  at' = "copy"
    <2>1. at = "header" /\ StreamGet(4) /\ hdr' = Header(Streamed(4)) /\ job # "u"
          /\ (hdr'.signature = BIN_SIGNATURE => at' = "copy")
      BY <1>4 DEF GetHeader, Goto
    <2>2. g_flash_addr = 0
      BY <1>0, <2>1 DEF LoadInv
    <2>3. \A k \in 1..4 : Streamed(4)[k] = FlashWord(g_flash_addr + NB * (k - 1))
      <3>1. 4 \in Nat
        OBVIOUS
      <3>2. QED
        BY <1>0, <2>1, <3>1, StreamedMeans
    <2>4. Streamed(4)[1] = FlashWord(0)
      <3>1. 1 \in 1..4 /\ 0 + NB * (1 - 1) = 0
        BY Widths
      <3>2. QED
        BY <2>2, <2>3, <3>1
    <2>5. hdr'.signature = BIN_SIGNATURE
      BY <1>3, <2>1, <2>4 DEF Header
    <2>6. QED
      BY <2>1, <2>5
  <1>5. ASSUME Copy
        PROVE  at' = "copy"
    <2> DEFINE b == hdr.base_addr
               a == Add(b, i)
               l == Len(kept.data)
               n == i \div NB
    <2>1. at = "copy" /\ i < hdr.size /\ job # "u" /\ (Mapped(a) => at' = at)
      BY <1>5 DEF Copy
    <2>2. PICK ws : Source(ws) /\ Copying(ws)
      BY <1>0, <2>1 DEF LoadInv
    <2>3. b = ws[2] /\ hdr.size = ws[3] /\ i % NB = 0
      BY <2>2 DEF Copying
    <2>4. ws[2] = FlashWord(NB) /\ ws[3] = FlashWord(NB * 2)
      <3>1. ws = FlashWords
        BY <2>1, <2>2 DEF Source
      <3>2. NB * (2 - 1) = NB /\ NB * (3 - 1) = NB * 2
        BY Widths
      <3>3. QED
        BY <3>1, <3>2 DEF FlashWords
    <2>5. b = kept.base /\ hdr.size = NB * l
      BY <1>3, <2>1, <2>3, <2>4
    <2>6. kept # None
      BY DEF None
    <2>7. /\ kept.base \in Nat /\ kept.base % NB = 0 /\ l \in Nat
          /\ kept.base + NB * l <= NB * MEM /\ kept.base \in Word
      BY <1>0, <2>6, KeptFacts
    <2>8. i \in Nat
      BY <1>0 DEF TypeInv
    <2>9. n \in Nat /\ i = NB * n
      BY <2>3, <2>8, MultipleMeans
    <2> HIDE DEF b, l, n
    <2>10. NB * l \in Nat /\ b + i < NB * MEM /\ i \in Word /\ b \in Word
      <3>1. NB * l \in Nat
        BY <2>7, MultipleOnly
      <3>2. b \in Word /\ b \in Nat /\ i < NB * l /\ b + NB * l <= NB * MEM
        BY <2>1, <2>5, <2>7
      <3>3. NB * MEM \in Nat /\ NB * MEM < WORD /\ WORD \in Nat
        BY Fits, Widths
      <3>4. b + i < NB * MEM /\ i < WORD
        BY <2>8, <3>1, <3>2, <3>3
      <3>5. QED
        BY <2>8, <3>1, <3>2, <3>3, <3>4 DEF Word
    <2>11. a = b + i
      <3>1. b + i < WORD
        <4>1. NB * MEM \in Nat /\ NB * MEM < WORD /\ WORD \in Nat /\ b \in Nat
          BY <2>5, <2>7, Fits, Widths
        <4>2. QED
          BY <2>8, <2>10, <4>1
      <3>2. QED
        BY <2>10, <3>1, AddMeans
    <2> HIDE DEF a
    <2>12. PICK m \in Nat : b = NB * m
      BY <2>5, <2>7, MultipleMeans
    <2>13. a = NB * (m + n) /\ m + n \in Nat
      BY <2>9, <2>11, <2>12, MultipleOrder
    <2>14. a % NB = 0 /\ a \div NB = m + n
      BY <2>13, MultipleOnly
    <2>15. m + n \in 0..(MEM - 1)
      <3>1. NB * (m + n) < NB * MEM
        BY <2>10, <2>11, <2>13
      <3>2. m + n < MEM
        BY <2>13, <3>1, Fits, MultipleOrder
      <3>3. QED
        BY <2>13, <3>2, Fits
    <2>16. Mapped(a)
      BY <1>0, <2>14, <2>15 DEF Mapped, TypeInv
    <2>17. QED
      BY <2>1, <2>16 DEF a, b
  <1>6. ASSUME Copied
        PROVE  exe'.size # 0
    <2>1. at = "copy" /\ i >= hdr.size /\ job # "u"
          /\ (ChecksumFits(hdr) => exe' = [exe EXCEPT !.size = hdr.size])
      BY <1>6 DEF Copied
    <2>2. hdr.size > 0 /\ hdr.size \in Nat /\ ChecksumFits(hdr)
      BY <1>0, <2>1, CopyEnds
    <2>3. exe'.size = hdr.size
      BY <1>0, <2>1, <2>2 DEF TypeInv
    <2>4. QED
      BY <2>2, <2>3
  <1>7. ASSUME at = "header"
        PROVE  at' \in {"header", "copy", "auto"}
    BY <1>1, <1>2, <1>4, <1>7 DEF Copy, Copied
  <1>8. ASSUME at = "copy"
        PROVE  at' \in {"copy", "auto"} \/ exe'.size # 0
    BY <1>1, <1>2, <1>5, <1>6, <1>8 DEF GetHeader
  <1>9. QED
    BY <1>7, <1>8

-----------------------------------------------------------------------------
(* The theorems. *)

\* The invariant behind the others: what every moment of a load, a store, a reset
\* and a hand-over leaves in the flash, in main memory and in the variables.
THEOREM BootInvariant == Spec => []IInv
  BY InitInv, StepInv, PTL DEF Spec

\* The loops of the loader stay in main memory and no erase or program begins behind
\* the end of the flash.
THEOREM BootTypes == Spec => []TypeOK
  BY BootInvariant, TypesFollow, PTL

\* The program that takes over finds the timer interrupt off and the LED dark, a
\* bootloader that gave up leaves the LED on.
THEOREM BootHandOver == Spec => []HandOver
  <1>1. IInv => HandOver
    BY DEF IInv, IrqInv, HandOver
  <1>2. QED
    BY <1>1, BootInvariant, PTL

\* What a load from the flash makes available has the address and the size of the
\* program last stored, and is that program if a store of its size erases all it
\* writes: for every program, whatever was in the flash and whenever a reset came.
THEOREM LoadsWhatWasStored ==
    Spec => [](FromFlash /\ exe.size # 0 =>
                 /\ exe.base = kept.base /\ exe.size = NB * Len(kept.data)
                 /\ Covered(exe.size) => Loaded(kept.op) = kept)
  <1> DEFINE P == FromFlash /\ exe.size # 0 =>
                    /\ exe.base = kept.base /\ exe.size = NB * Len(kept.data)
                    /\ Covered(exe.size) => Loaded(kept.op) = kept
  <1>1. IInv => P
    BY DEF IInv, FetchInv, FromFlash
  <1>2. QED
    BY <1>1, BootInvariant, PTL

\* A store that has reported success can be loaded.
THEOREM StoredLoads == Spec => KeptLoads
  <1> DEFINE A == LoadEnds /\ kept.op = "keep" /\ Covered(NB * Len(kept.data)) => exe'.size # 0
  <1>1. IInv /\ [Next]_vars => [A]_vars
    <2> SUFFICES ASSUME IInv, Next, LoadEnds, kept.op = "keep", Covered(NB * Len(kept.data))
                 PROVE  exe'.size # 0
      OBVIOUS
    <2>1. /\ job \in {"auto", "l"} /\ at \in {"header", "copy"}
          /\ at' \notin {"header", "copy", "auto"}
      BY DEF LoadEnds
    <2>2. QED
      BY <2>1, LoadGoesOn
  <1>2. QED
    BY <1>1, BootInvariant, PTL DEF Spec, KeptLoads

\* If every program leaves room for the header in the last sector it takes, only
\* whole programs are kept and available.
THEOREM ProgramsStayWhole == AllCovered => (Spec => []IntactInv)
  <1> SUFFICES ASSUME AllCovered PROVE Spec => []IntactInv
    OBVIOUS
  <1>1. IInv /\ IntactInv /\ [Next]_vars => IntactInv'
    <2> SUFFICES ASSUME IInv, IntactInv, [Next]_vars PROVE IntactInv'
      OBVIOUS
    <2>1. CASE Next
      BY <2>1, IntactStep
    <2>2. CASE UNCHANGED vars
      <3>1. UNCHANGED kept /\ UNCHANGED <<exe, mem>>
        BY <2>2 DEF vars, code, dev, book
      <3>2. QED
        BY <3>1, IntactStays
    <2>3. QED
      BY <2>1, <2>2
  <1>2. QED
    BY <1>1, BootInvariant, IntactInit, PTL DEF Spec

\* Then what is available, or started unless the user insists, is a program that
\* image_gen was given, word for word.
THEOREM BootsIntact == AllCovered => (Spec => []StartsIntact)
  <1> SUFFICES ASSUME AllCovered PROVE Spec => []StartsIntact
    OBVIOUS
  <1>1. IInv /\ IntactInv => StartsIntact
    <2> SUFFICES ASSUME IInv, IntactInv, exe.size # 0 \/ (at = "app" /\ ~forced)
                 PROVE  exe.size # 0 /\ \E f \in FILES : Loaded("keep").data = Words(Padded(f.bytes))
      BY DEF StartsIntact
    <2>1. exe.size # 0
      BY DEF IInv, ExeInv
    <2>2. QED
      BY <2>1 DEF IntactInv, IsProgram, Program
  <1>2. QED
    BY <1>1, BootInvariant, ProgramsStayWhole, PTL

\* Then a load from the flash that succeeds is of the program last stored, word for
\* word and to the same address.
THEOREM StoreLoadRoundTrip == AllCovered => (Spec => []RoundTrip)
  <1> SUFFICES ASSUME AllCovered PROVE Spec => []RoundTrip
    OBVIOUS
  <1>1. IInv /\ IntactInv => RoundTrip
    <2> SUFFICES ASSUME IInv, IntactInv, FromFlash, exe.size # 0
                 PROVE  Loaded(kept.op) = kept
      BY DEF RoundTrip
    <2>1. kept # None /\ exe.size = NB * Len(kept.data) /\ (Covered(exe.size) => Loaded(kept.op) = kept)
      BY DEF IInv, FetchInv, FromFlash
    <2>2. Covered(exe.size)
      BY <2>1 DEF IntactInv, IsProgram, AllCovered
    <2>3. QED
      BY <2>1, <2>2
  <1>2. QED
    BY <1>1, BootInvariant, ProgramsStayWhole, PTL
=============================================================================
