--------------------------- MODULE NeoShell_proofs ----------------------------
(* Theorems about NeoShell, for every set of keys and of accepted lines, every *)
(* size of line and FIFOs, and any number of keys.                             *)
EXTENDS NeoShell, SequenceInduction

-----------------------------------------------------------------------------
(* The terminal: what FoldLeft does with one more character.                 *)

LEMMA MaxIsLast ==
    ASSUME NEW n \in Nat, NEW z \in SUBSET (1..n), n \in z
    PROVE  Max(z) = n
  <1>1. \A y \in z : n >= y
    OBVIOUS
  <1>2. Max(z) \in z /\ Max(z) >= n
    BY <1>1 DEF Max
  <1> DEFINE m == Max(z)
  <1>3. m \in 1..n /\ m >= n
    BY <1>2
  <1> HIDE DEF m
  <1>4. m = n
    BY <1>3
  <1>5. QED
    BY <1>4 DEF m

Folds(h, s, D) ==
    \A z \in SUBSET D : h[z] = IF z = {} THEN Blank ELSE Display(h[z \ {Max(z)}], s[Max(z)])

LEMMA FoldExists ==
    ASSUME NEW s, NEW n \in Nat
    PROVE  \E h : Folds(h, s, 1..n)
  <1> DEFINE T == {k \in Nat : \E h : Folds(h, s, 1..k)}
  <1>1. 0 \in T
    <2> DEFINE h == [z \in {{}} |-> Blank]
    <2>1. \A z \in SUBSET (1..0) : z = {} /\ h[z] = Blank
      OBVIOUS
    <2> HIDE DEF h
    <2>2. Folds(h, s, 1..0)
      BY <2>1 DEF Folds
    <2>3. QED
      BY <2>2
  <1>2. ASSUME NEW k \in Nat, k \in T
        PROVE  k + 1 \in T
    <2>1. PICK h : Folds(h, s, 1..k)
      BY <1>2
    <2> DEFINE g == [z \in SUBSET (1..(k + 1)) |->
                       IF k + 1 \in z THEN Display(h[z \ {k + 1}], s[k + 1]) ELSE h[z]]
    <2>2. \A z \in SUBSET (1..(k + 1)) :
            g[z] = IF k + 1 \in z THEN Display(h[z \ {k + 1}], s[k + 1]) ELSE h[z]
      OBVIOUS
    <2>3. ASSUME NEW z \in SUBSET (1..(k + 1))
          PROVE  g[z] = IF z = {} THEN Blank ELSE Display(g[z \ {Max(z)}], s[Max(z)])
      <3> HIDE DEF g
      <3>1. CASE k + 1 \in z
        <4>1. Max(z) = k + 1
          BY <3>1, MaxIsLast
        <4>2. z \ {k + 1} \in SUBSET (1..(k + 1)) /\ k + 1 \notin z \ {k + 1} /\ z # {}
          BY <3>1
        <4>3. g[z \ {k + 1}] = h[z \ {k + 1}]
          BY <2>2, <4>2
        <4>4. g[z] = Display(h[z \ {k + 1}], s[k + 1])
          BY <2>2, <3>1
        <4>5. QED
          BY <4>1, <4>2, <4>3, <4>4
      <3>2. CASE k + 1 \notin z
        <4>1. z \in SUBSET (1..k)
          BY <3>2
        <4>2. g[z] = h[z]
          BY <2>2, <3>2
        <4>3. z \ {Max(z)} \in SUBSET (1..(k + 1)) /\ k + 1 \notin z \ {Max(z)}
          BY <3>2
        <4>4. g[z \ {Max(z)}] = h[z \ {Max(z)}]
          BY <2>2, <4>3
        <4>5. h[z] = IF z = {} THEN Blank ELSE Display(h[z \ {Max(z)}], s[Max(z)])
          BY <2>1, <4>1 DEF Folds
        <4>6. QED
          BY <4>2, <4>4, <4>5
      <3>3. QED
        BY <3>1, <3>2
    <2> HIDE DEF g
    <2>4. Folds(g, s, 1..(k + 1))
      BY <2>3 DEF Folds
    <2>5. QED
      BY <2>4
  <1>3. n \in T
    <2> HIDE DEF T
    <2>1. Nat \subseteq T
      BY <1>1, <1>2, SetInduction
    <2>2. QED
      BY <2>1
  <1>4. QED
    BY <1>3

\* The display after each character of s.
Frames(f, s) == f[0] = Blank /\ \A k \in 1..Len(s) : f[k] = Display(f[k - 1], s[k])

LEMMA TerminalFrames ==
    ASSUME NEW s \in Seq(Char)
    PROVE  \E f : Frames(f, s) /\ Terminal(s) = f[Len(s)]
  <1> DEFINE n == Len(s)
             Rec(h) == h = [z \in SUBSET DOMAIN s |->
                              IF z = {} THEN Blank ELSE Display(h[z \ {Max(z)}], s[Max(z)])]
             F == CHOOSE h : Rec(h)
  <1>0. n \in Nat /\ DOMAIN s = 1..n
    OBVIOUS
  <1>1. PICK h : Folds(h, s, 1..n)
    BY <1>0, FoldExists
  <1> DEFINE g == [z \in SUBSET (1..n) |-> h[z]]
  <1>2. Rec(g)
    <2>1. \A z \in SUBSET (1..n) : g[z] = h[z] /\ g[z \ {Max(z)}] = h[z \ {Max(z)}]
      OBVIOUS
    <2>2. g = [z \in SUBSET (1..n) |-> IF z = {} THEN Blank ELSE Display(h[z \ {Max(z)}], s[Max(z)])]
      BY <1>1 DEF Folds
    <2>3. QED
      BY <1>0, <2>1, <2>2
  <1>3. Rec(F)
    BY <1>2
  <1>4. Terminal(s) = F[DOMAIN s]
    BY DEF Terminal, FoldLeft, MapThenFoldSet
  <1>5. Folds(F, s, 1..n)
    <2> HIDE DEF F
    <2>1. QED
      BY <1>0, <1>3 DEF Folds
  <1> HIDE DEF F
  <1> DEFINE f == [k \in 0..n |-> F[1..k]]
  <1>6. f[0] = Blank
    <2>1. 1..0 = {} /\ {} \in SUBSET (1..n)
      OBVIOUS
    <2>2. F[{}] = Blank
      BY <1>5, <2>1 DEF Folds
    <2>3. f[0] = F[1..0]
      BY <1>0
    <2>4. QED
      BY <2>1, <2>2, <2>3
  <1>7. ASSUME NEW k \in 1..n
        PROVE  f[k] = Display(f[k - 1], s[k])
    <2>1. k \in Nat /\ 1..k \in SUBSET (1..n) /\ k \in 1..k /\ 1..k # {}
      <3> HIDE DEF n
      <3>1. k \in Nat /\ 1 <= k /\ k <= n
        BY <1>0
      <3>2. k \in 1..k
        BY <3>1
      <3>3. 1..k \subseteq 1..n
        BY <1>0, <3>1
      <3>4. QED
        BY <3>1, <3>2, <3>3
    <2> DEFINE z == 1..k
    <2>2. Max(1..k) = k
      <3>1. k \in Nat /\ z \in SUBSET (1..k) /\ k \in z
        BY <2>1
      <3> HIDE DEF z
      <3>2. Max(z) = k
        BY <3>1, MaxIsLast
      <3>3. QED
        BY <3>2 DEF z
    <2>3. (1..k) \ {k} = 1..(k - 1)
      BY <1>0
    <2>4. F[1..k] = Display(F[1..(k - 1)], s[k])
      BY <1>5, <2>1, <2>2, <2>3 DEF Folds
    <2>5. f[k] = F[1..k] /\ f[k - 1] = F[1..(k - 1)]
      BY <1>0
    <2>6. QED
      BY <2>4, <2>5
  <1>8. f[n] = F[1..n]
    BY <1>0
  <1> HIDE DEF f
  <1>9. QED
    BY <1>0, <1>4, <1>6, <1>7, <1>8 DEF Frames

LEMMA TerminalEmpty == Terminal(<<>>) = Blank
  <1>1. <<>> \in Seq(Char) /\ Len(<<>>) = 0
    OBVIOUS
  <1>2. PICK f : Frames(f, <<>>) /\ Terminal(<<>>) = f[Len(<<>>)]
    BY <1>1, TerminalFrames
  <1>3. QED
    BY <1>1, <1>2 DEF Frames

LEMMA TerminalAppend ==
    ASSUME NEW s \in Seq(Char), NEW c \in Char
    PROVE  Terminal(Append(s, c)) = Display(Terminal(s), c)
  <1> DEFINE n == Len(s)
             t == Append(s, c)
  <1>0. n \in Nat /\ t \in Seq(Char) /\ Len(t) = n + 1 /\ t[n + 1] = c /\ \A i \in 1..n : t[i] = s[i]
    BY AppendProperties
  <1>1. PICK f : Frames(f, s) /\ Terminal(s) = f[n]
    BY TerminalFrames
  <1> HIDE DEF t
  <1>2. PICK g : Frames(g, t) /\ Terminal(t) = g[Len(t)]
    BY <1>0, TerminalFrames
  <1> HIDE DEF n
  <1> DEFINE T == {k \in Nat : k <= n => f[k] = g[k]}
  <1>3. 0 \in T
    BY <1>1, <1>2 DEF Frames
  <1>4. ASSUME NEW k \in Nat, k \in T
        PROVE  k + 1 \in T
    <2>1. ASSUME k + 1 <= n
          PROVE  f[k + 1] = g[k + 1]
      <3>1. f[k] = g[k]
        BY <1>0, <1>4, <2>1
      <3>2. PICK i \in 1..n : i = k + 1
        BY <1>0, <2>1
      <3>3. i - 1 = k /\ i \in 1..Len(t)
        BY <1>0, <3>2
      <3>4. f[i] = Display(f[i - 1], s[i])
        BY <1>1 DEF Frames, n
      <3>5. g[i] = Display(g[i - 1], t[i])
        BY <1>2, <3>3 DEF Frames
      <3>6. QED
        BY <1>0, <3>1, <3>2, <3>3, <3>4, <3>5
    <2>2. QED
      BY <2>1
  <1>5. n \in T
    <2> HIDE DEF T
    <2>1. Nat \subseteq T
      BY <1>3, <1>4, SetInduction
    <2>2. QED
      BY <1>0, <2>1
  <1>6. f[n] = g[n]
    BY <1>0, <1>5
  <1>7. g[n + 1] = Display(g[n], t[n + 1])
    <2>1. PICK i \in 1..Len(t) : i = n + 1
      BY <1>0
    <2>2. i - 1 = n
      BY <1>0, <2>1
    <2>3. g[i] = Display(g[i - 1], t[i])
      BY <1>2 DEF Frames
    <2>4. QED
      BY <2>1, <2>2, <2>3
  <1>8. QED
    BY <1>0, <1>1, <1>2, <1>6, <1>7 DEF t

-----------------------------------------------------------------------------
(* What a character does to the terminal.                                    *)

Term == [rows : Seq(Seq(Char)) \ {<<>>}, col : Nat]
Plain == Char \ {BS, LF, CR}
Line(t) == [rows |-> Append(t.rows, <<>>), col |-> 0]

LEMMA CharFacts == {NUL, BS, LF, CR, DEL, 32, 62, 66, 69, 82, 83} \subseteq Char
  BY DEF Char, NUL, BS, LF, CR, DEL

LEMMA BlanksMeans ==
    ASSUME NEW n \in Int
    PROVE  /\ Blanks(n) \in Seq(Char)
           /\ Len(Blanks(n)) = IF n > 0 THEN n ELSE 0
           /\ \A k \in 1..Len(Blanks(n)) : Blanks(n)[k] = 32
  <1>1. CASE n > 0
    <2>1. n \in Nat /\ Blanks(n) = [k \in 1..n |-> 32] /\ 32 \in Char
      BY <1>1, CharFacts DEF Blanks
    <2>2. Blanks(n) \in Seq(Char) /\ Len(Blanks(n)) = n
      BY <2>1
    <2>3. QED
      BY <1>1, <2>1, <2>2
  <1>2. CASE ~(n > 0)
    <2>1. 1..n = {}
      BY <1>2
    <2>2. Blanks(n) = <<>>
      BY <2>1 DEF Blanks
    <2>3. QED
      BY <1>2, <2>2
  <1>3. QED
    BY <1>1, <1>2

LEMMA WrittenMeans ==
    ASSUME NEW row \in Seq(Char), NEW col \in Nat, NEW c \in Char
    PROVE  /\ Written(row, col, c) \in Seq(Char)
           /\ Len(Written(row, col, c)) = IF Len(row) > col THEN Len(row) ELSE col + 1
           /\ \A k \in Nat \ {0} : Shows(Written(row, col, c), k) = IF k = col + 1 THEN c ELSE Shows(row, k)
  <1> DEFINE b == Blanks(col + 1 - Len(row))
             r == row \o b
             w == [r EXCEPT ![col + 1] = c]
  <1>1. Len(row) \in Nat /\ col + 1 - Len(row) \in Int
    OBVIOUS
  <1>2. /\ b \in Seq(Char)
        /\ Len(b) = IF col + 1 - Len(row) > 0 THEN col + 1 - Len(row) ELSE 0
        /\ \A k \in 1..Len(b) : b[k] = 32
    BY <1>1, BlanksMeans
  <1> HIDE DEF b
  <1>3. /\ r \in Seq(Char) /\ Len(r) = Len(row) + Len(b)
        /\ \A k \in 1..(Len(row) + Len(b)) : r[k] = IF k <= Len(row) THEN row[k] ELSE b[k - Len(row)]
    BY <1>2, ConcatProperties
  <1> HIDE DEF r
  <1>4. Len(r) = IF Len(row) > col THEN Len(row) ELSE col + 1
    BY <1>1, <1>2, <1>3
  <1>5. w \in Seq(Char) /\ Len(w) = Len(r) /\ \A k \in 1..Len(r) : w[k] = IF k = col + 1 THEN c ELSE r[k]
    <2>1. col + 1 \in 1..Len(r)
      BY <1>1, <1>4
    <2>2. w \in Seq(Char) /\ Len(w) = Len(r)
      BY <1>3, <2>1, ExceptSeq
    <2>3. DOMAIN r = 1..Len(r)
      BY <1>3
    <2>4. QED
      BY <2>2, <2>3
  <1>6. Written(row, col, c) = w
    BY DEF Written, w, r, b
  <1> HIDE DEF w
  <1>7. ASSUME NEW k \in Nat \ {0}
        PROVE  Shows(w, k) = IF k = col + 1 THEN c ELSE Shows(row, k)
    <2>1. CASE k <= Len(r)
      <3>1. k \in 1..Len(r) /\ k \in 1..(Len(row) + Len(b))
        BY <1>3, <2>1
      <3>2. Shows(w, k) = IF k = col + 1 THEN c ELSE r[k]
        BY <1>5, <2>1, <3>1 DEF Shows
      <3>3. r[k] = IF k <= Len(row) THEN row[k] ELSE b[k - Len(row)]
        BY <1>3, <3>1
      <3>4. ~(k <= Len(row)) => k - Len(row) \in 1..Len(b)
        BY <1>1, <1>2, <1>3, <3>1
      <3>5. r[k] = Shows(row, k)
        BY <1>2, <3>3, <3>4 DEF Shows
      <3>6. QED
        BY <3>2, <3>5
    <2>2. CASE ~(k <= Len(r))
      <3>1. ~(k <= Len(row)) /\ k # col + 1 /\ ~(k <= Len(w))
        BY <1>1, <1>4, <1>5, <2>2
      <3>2. QED
        BY <3>1 DEF Shows
    <2>3. QED
      BY <2>1, <2>2
  <1>8. QED
    BY <1>4, <1>5, <1>6, <1>7

\* Only the last row changes, and the terminal stays one.
LEMMA DisplayMeans ==
    ASSUME NEW t \in Term, NEW c \in Char
    PROVE  /\ Display(t, c) \in Term
           /\ c \in Plain => Display(t, c) = [rows |-> [t.rows EXCEPT ![Len(t.rows)] = Written(@, t.col, c)],
                                              col  |-> t.col + 1]
           /\ c = BS => Display(t, c) = [t EXCEPT !.col = IF @ = 0 THEN 0 ELSE @ - 1]
           /\ c = CR => Display(t, c) = [t EXCEPT !.col = 0]
           /\ c = LF => Display(t, c) = [t EXCEPT !.rows = Append(@, <<>>)]
  <1> DEFINE n == Len(t.rows)
  <1>0. /\ t.rows \in Seq(Seq(Char)) /\ t.rows # <<>> /\ t.col \in Nat
        /\ n \in Nat \ {0} /\ n \in 1..n /\ t.rows[n] \in Seq(Char)
    BY DEF Term
  <1>1. /\ c \in Plain => Display(t, c) = [rows |-> [t.rows EXCEPT ![n] = Written(@, t.col, c)],
                                           col  |-> t.col + 1]
        /\ c = BS => Display(t, c) = [t EXCEPT !.col = IF @ = 0 THEN 0 ELSE @ - 1]
        /\ c = CR => Display(t, c) = [t EXCEPT !.col = 0]
        /\ c = LF => Display(t, c) = [t EXCEPT !.rows = Append(@, <<>>)]
    BY DEF Display, Plain, BS, CR, LF
  <1>2. CASE c \in Plain
    <2> DEFINE w == Written(t.rows[n], t.col, c)
               r == [t.rows EXCEPT ![n] = w]
    <2>1. w \in Seq(Char)
      BY <1>0, WrittenMeans
    <2> HIDE DEF w
    <2>2. r \in Seq(Seq(Char)) /\ Len(r) = n
      BY <1>0, <2>1
    <2>3. r # <<>>
      BY <1>0, <2>2
    <2>4. Display(t, c) = [rows |-> r, col |-> t.col + 1]
      BY <1>1, <1>2 DEF w
    <2> HIDE DEF r
    <2>5. Display(t, c) \in Term
      BY <1>0, <2>2, <2>3, <2>4 DEF Term
    <2>6. QED
      BY <1>1, <2>5
  <1>3. CASE c = BS
    <2>1. Display(t, c) \in Term
      BY <1>0, <1>1, <1>3 DEF Term
    <2>2. QED
      BY <1>1, <2>1
  <1>4. CASE c = CR
    <2>1. Display(t, c) \in Term
      BY <1>0, <1>1, <1>4 DEF Term
    <2>2. QED
      BY <1>1, <2>1
  <1>5. CASE c = LF
    <2> DEFINE r == Append(t.rows, <<>>)
    <2>1. <<>> \in Seq(Char)
      OBVIOUS
    <2>2. r \in Seq(Seq(Char)) /\ r # <<>>
      BY <1>0, <2>1, AppendProperties, SMTT(30)
    <2>3. Display(t, c) = [t EXCEPT !.rows = r]
      BY <1>1, <1>5
    <2> HIDE DEF r
    <2>4. Display(t, c) \in Term
      BY <1>0, <2>2, <2>3 DEF Term
    <2>5. QED
      BY <1>1, <2>4
  <1>6. QED
    BY <1>2, <1>3, <1>4, <1>5 DEF Plain

LEMMA TerminalType ==
    ASSUME NEW s \in Seq(Char)
    PROVE  Terminal(s) \in Term
  <1> DEFINE n == Len(s)
  <1>0. n \in Nat
    OBVIOUS
  <1>1. PICK f : Frames(f, s) /\ Terminal(s) = f[n]
    BY TerminalFrames
  <1> DEFINE T == {k \in Nat : k <= n => f[k] \in Term}
  <1>2. Blank \in Term
    <2>1. <<<<>>>> \in Seq(Seq(Char)) /\ <<<<>>>> # <<>>
      OBVIOUS
    <2>2. QED
      BY <2>1 DEF Blank, Term
  <1>3. 0 \in T
    BY <1>1, <1>2 DEF Frames
  <1>4. ASSUME NEW k \in Nat, k \in T
        PROVE  k + 1 \in T
    <2>1. ASSUME k + 1 <= n
          PROVE  f[k + 1] \in Term
      <3>1. PICK i \in 1..n : i = k + 1
        BY <1>0, <2>1
      <3>2. i - 1 = k /\ s[i] \in Char
        BY <3>1
      <3>3. f[k] \in Term
        BY <1>0, <1>4, <2>1
      <3>4. f[i] = Display(f[i - 1], s[i])
        BY <1>1 DEF Frames
      <3>5. QED
        BY <3>1, <3>2, <3>3, <3>4, DisplayMeans
    <2>2. QED
      BY <2>1
  <1>5. n \in T
    <2> HIDE DEF T
    <2>1. Nat \subseteq T
      BY <1>3, <1>4, SetInduction
    <2>2. QED
      BY <1>0, <2>1
  <1>6. QED
    BY <1>0, <1>1, <1>5

LEMMA SameEverywhere ==
    ASSUME NEW r \in Seq(Char), NEW q \in Seq(Char)
    PROVE  SameRow(r, q) <=> \A k \in Nat \ {0} : Shows(r, k) = Shows(q, k)
  <1>0. Len(r) \in Nat /\ Len(q) \in Nat
    OBVIOUS
  <1>1. ASSUME SameRow(r, q), NEW k \in Nat \ {0}
        PROVE  Shows(r, k) = Shows(q, k)
    <2>1. CASE k <= Len(r) + Len(q)
      <3>1. k \in 1..(Len(r) + Len(q))
        BY <1>0, <2>1
      <3>2. QED
        BY <1>1, <3>1 DEF SameRow
    <2>2. CASE ~(k <= Len(r) + Len(q))
      <3>1. ~(k <= Len(r)) /\ ~(k <= Len(q))
        BY <1>0, <2>2
      <3>2. QED
        BY <3>1 DEF Shows
    <2>3. QED
      BY <2>1, <2>2
  <1>2. ASSUME \A k \in Nat \ {0} : Shows(r, k) = Shows(q, k)
        PROVE  SameRow(r, q)
    <2>1. \A k \in 1..(Len(r) + Len(q)) : k \in Nat \ {0}
      BY <1>0
    <2>2. QED
      BY <1>2, <2>1 DEF SameRow
  <1>3. QED
    BY <1>1, <1>2

\* The last visible character of a row is the last one both show.
LEMMA TrimmedSame ==
    ASSUME NEW r \in Seq(Char), NEW q \in Seq(Char), SameRow(r, q)
    PROVE  Trimmed(r) = Trimmed(q)
  <1> DEFINE I(row) == {k \in 1..Len(row) : row[k] # 32}
  <1>0. Len(r) \in Nat /\ Len(q) \in Nat
    OBVIOUS
  <1>1. \A k \in Nat \ {0} : Shows(r, k) = Shows(q, k)
    BY SameEverywhere
  <1>2. ASSUME NEW row \in Seq(Char), NEW k \in Nat \ {0}
        PROVE  k \in I(row) <=> Shows(row, k) # 32
    BY DEF Shows
  <1>3. I(r) = I(q)
    <2>1. I(r) \subseteq Nat \ {0} /\ I(q) \subseteq Nat \ {0}
      OBVIOUS
    <2> HIDE DEF I
    <2>2. \A k \in Nat \ {0} : k \in I(r) <=> k \in I(q)
      BY <1>1, <1>2
    <2>3. QED
      BY <2>1, <2>2
  <1> DEFINE Top(row) == IF I(row) # {} THEN Max(I(row)) ELSE 0
  <1>4. \A row : Trimmed(row) = SubSeq(row, 1, Top(row))
    BY DEF Trimmed, SelectLastInSeq
  <1> DEFINE m == Top(r)
  <1>5. Top(r) = m /\ Top(q) = m
    <2> HIDE DEF I
    <2>1. QED
      BY <1>3
  <1>6. ASSUME NEW row \in Seq(Char), Top(row) = m
        PROVE  m \in 0..Len(row)
    <2>1. CASE I(row) = {}
      <3>1. m = 0 /\ Len(row) \in Nat
        BY <1>6, <2>1
      <3>2. QED
        BY <3>1
    <2>2. CASE I(row) # {}
      <3>1. PICK x \in I(row) : \A y \in I(row) : x >= y
        <4> DEFINE J == {Len(row) - k : k \in I(row)}
        <4>1. Len(row) \in Nat /\ I(row) \subseteq 1..Len(row)
          OBVIOUS
        <4> HIDE DEF I
        <4>2. J \subseteq Nat /\ J # {}
          BY <2>2, <4>1
        <4>3. PICK n \in J : \A k \in J : n <= k
          BY <4>2, LeastNat
        <4>4. PICK x \in I(row) : n = Len(row) - x
          BY <4>3
        <4>5. \A y \in I(row) : x >= y
          <5> TAKE y \in I(row)
          <5>1. Len(row) - y \in J /\ x \in Nat /\ y \in Nat
            BY <4>1
          <5>2. Len(row) - x <= Len(row) - y
            BY <4>3, <4>4, <5>1
          <5>3. QED
            BY <4>1, <5>1, <5>2
        <4>6. QED
          BY <4>5
      <3>2. Max(I(row)) \in I(row)
        BY <3>1 DEF Max
      <3>3. m = Max(I(row)) /\ I(row) \subseteq 0..Len(row)
        BY <1>6, <2>2
      <3> HIDE DEF I
      <3>4. QED
        BY <3>2, <3>3
    <2>3. QED
      BY <2>1, <2>2
  <1>7. m \in Nat /\ m <= Len(r) /\ m <= Len(q)
    <2> HIDE DEF m, Top
    <2>1. m \in 0..Len(r) /\ m \in 0..Len(q)
      BY <1>5, <1>6
    <2>2. QED
      BY <1>0, <2>1
  <1> HIDE DEF m, Top, I
  <1>8. Agree(r, q, m)
    <2>1. ASSUME NEW k \in 1..m
          PROVE  r[k] = q[k]
      <3>1. k \in Nat \ {0} /\ k <= Len(r) /\ k <= Len(q)
        BY <1>0, <1>7
      <3>2. QED
        BY <1>1, <3>1 DEF Shows
    <2>2. QED
      BY <2>1 DEF Agree
  <1>9. SubSeq(r, 1, m) = SubSeq(q, 1, m)
    BY <1>7, <1>8, SliceAgree
  <1>10. QED
    BY <1>4, <1>5, <1>9

-----------------------------------------------------------------------------
(* Two terminals that match go on matching.                                  *)

LEMMA MatchedRows ==
    ASSUME NEW v \in Term, NEW u \in Term, NEW n \in Nat, Matches(v, u, n)
    PROVE  /\ Len(v.rows) \in Nat /\ Len(u.rows) \in Nat \ {0} /\ Len(v.rows) = n + Len(u.rows)
           /\ v.col = u.col /\ v.col \in Nat
           /\ \A k \in 1..Len(u.rows) : /\ v.rows[n + k] \in Seq(Char) /\ u.rows[k] \in Seq(Char)
                                        /\ SameRow(v.rows[n + k], u.rows[k])
  <1>1. /\ v.rows \in Seq(Seq(Char)) /\ u.rows \in Seq(Seq(Char)) /\ u.rows # <<>>
        /\ Len(v.rows) \in Nat /\ Len(u.rows) \in Nat \ {0} /\ v.col \in Nat
    BY DEF Term
  <1>2. Len(v.rows) = n + Len(u.rows) /\ v.col = u.col
    BY DEF Matches
  <1>3. \A k \in 1..Len(u.rows) : n + k \in 1..Len(v.rows)
    BY <1>1, <1>2
  <1>4. \A k \in 1..Len(u.rows) : v.rows[n + k] \in Seq(Char) /\ u.rows[k] \in Seq(Char)
    BY <1>1, <1>3, SMTT(30)
  <1>5. QED
    BY <1>1, <1>2, <1>4 DEF Matches

LEMMA MatchPlain ==
    ASSUME NEW v \in Term, NEW u \in Term, NEW n \in Nat, NEW c \in Plain, Matches(v, u, n)
    PROVE  Matches(Display(v, c), Display(u, c), n)
  <1> DEFINE a == Len(v.rows)
             b == Len(u.rows)
             wv == Written(v.rows[a], v.col, c)
             wu == Written(u.rows[b], u.col, c)
             rv == [v.rows EXCEPT ![a] = wv]
             ru == [u.rows EXCEPT ![b] = wu]
  <1>0. c \in Char
    BY DEF Plain
  <1>1. /\ a \in Nat /\ b \in Nat \ {0} /\ a = n + b /\ v.col = u.col /\ v.col \in Nat
        /\ \A k \in 1..b : /\ v.rows[n + k] \in Seq(Char) /\ u.rows[k] \in Seq(Char)
                           /\ SameRow(v.rows[n + k], u.rows[k])
    BY MatchedRows
  <1>2. v.rows \in Seq(Seq(Char)) /\ u.rows \in Seq(Seq(Char))
    BY DEF Term
  <1>3. /\ Display(v, c) = [rows |-> rv, col |-> v.col + 1]
        /\ Display(u, c) = [rows |-> ru, col |-> u.col + 1]
    BY <1>0, DisplayMeans
  <1>4. SameRow(wv, wu)
    <2>1. b \in 1..b /\ n + b = a
      BY <1>1
    <2>2. /\ v.rows[a] \in Seq(Char) /\ u.rows[b] \in Seq(Char)
          /\ SameRow(v.rows[a], u.rows[b])
      BY <1>1, <2>1
    <2>3. \A k \in Nat \ {0} : Shows(v.rows[a], k) = Shows(u.rows[b], k)
      BY <2>2, SameEverywhere
    <2>4. /\ wv \in Seq(Char)
          /\ \A k \in Nat \ {0} : Shows(wv, k) = IF k = v.col + 1 THEN c ELSE Shows(v.rows[a], k)
      BY <1>0, <1>1, <2>2, WrittenMeans, ZenonT(60)
    <2>5. /\ wu \in Seq(Char)
          /\ \A k \in Nat \ {0} : Shows(wu, k) = IF k = u.col + 1 THEN c ELSE Shows(u.rows[b], k)
      <3>1. u.col \in Nat
        BY <1>1
      <3>2. QED
        BY <1>0, <2>2, <3>1, WrittenMeans, ZenonT(60)
    <2> HIDE DEF wv, wu
    <2>6. \A k \in Nat \ {0} : Shows(wv, k) = Shows(wu, k)
      BY <1>1, <2>3, <2>4, <2>5
    <2>7. QED
      BY <2>4, <2>5, <2>6, SameEverywhere
  <1>5. wv \in Seq(Char) /\ wu \in Seq(Char) /\ a \in 1..a /\ b \in 1..b
    <2>1. b \in 1..b /\ n + b = a /\ u.col \in Nat /\ a \in 1..a
      BY <1>1
    <2>2. v.rows[a] \in Seq(Char) /\ u.rows[b] \in Seq(Char)
      BY <1>1, <2>1
    <2>3. QED
      BY <1>0, <1>1, <2>1, <2>2, WrittenMeans
  <1> HIDE DEF wv, wu
  <1>6. Len(rv) = a /\ \A k \in 1..a : rv[k] = IF k = a THEN wv ELSE v.rows[k]
    BY <1>2, <1>5, ExceptSeq
  <1>7. Len(ru) = b /\ \A k \in 1..b : ru[k] = IF k = b THEN wu ELSE u.rows[k]
    BY <1>2, <1>5, ExceptSeq
  <1> HIDE DEF rv, ru, a, b
  <1>8. ASSUME NEW k \in 1..b
        PROVE  SameRow(rv[n + k], ru[k])
    <2>1. n + k \in 1..a /\ (n + k = a <=> k = b)
      BY <1>1
    <2>2. QED
      BY <1>1, <1>4, <1>6, <1>7, <2>1
  <1>9. Len(rv) = n + Len(ru) /\ v.col + 1 = u.col + 1 /\ \A k \in 1..Len(ru) : SameRow(rv[n + k], ru[k])
    BY <1>1, <1>6, <1>7, <1>8
  <1>10. QED
    BY <1>3, <1>9 DEF Matches

LEMMA MatchLine ==
    ASSUME NEW v \in Term, NEW u \in Term, NEW n \in Nat, Matches(v, u, n)
    PROVE  Matches(Line(v), Line(u), n)
  <1> DEFINE a == Len(v.rows)
             b == Len(u.rows)
             rv == Append(v.rows, <<>>)
             ru == Append(u.rows, <<>>)
  <1>1. /\ a \in Nat /\ b \in Nat \ {0} /\ a = n + b
        /\ \A k \in 1..b : SameRow(v.rows[n + k], u.rows[k])
    BY MatchedRows
  <1>2. v.rows \in Seq(Seq(Char)) /\ u.rows \in Seq(Seq(Char)) /\ <<>> \in Seq(Char)
    BY DEF Term
  <1>3. /\ Len(rv) = a + 1 /\ Len(ru) = b + 1 /\ rv[a + 1] = <<>> /\ ru[b + 1] = <<>>
        /\ \A k \in 1..a : rv[k] = v.rows[k]
        /\ \A k \in 1..b : ru[k] = u.rows[k]
    BY <1>2, AppendProperties
  <1>4. Line(v) = [rows |-> rv, col |-> 0] /\ Line(u) = [rows |-> ru, col |-> 0]
    BY DEF Line
  <1>5. SameRow(<<>>, <<>>)
    BY DEF SameRow
  <1> HIDE DEF rv, ru, a, b
  <1>6. ASSUME NEW k \in 1..(b + 1)
        PROVE  SameRow(rv[n + k], ru[k])
    <2>1. CASE k = b + 1
      <3>1. n + k = a + 1
        BY <1>1, <2>1
      <3>2. QED
        BY <1>3, <1>5, <2>1, <3>1
    <2>2. CASE k # b + 1
      <3>1. k \in 1..b /\ n + k \in 1..a
        BY <1>1, <2>2
      <3>2. QED
        BY <1>1, <1>3, <3>1
    <2>3. QED
      BY <2>1, <2>2
  <1>7. Len(rv) = n + Len(ru)
    BY <1>1, <1>3
  <1>8. QED
    BY <1>3, <1>4, <1>6, <1>7 DEF Matches

\* Back, blank, back: as if the last character had not been there.
LEMMA MatchErase ==
    ASSUME NEW v \in Term, NEW u \in Term, NEW n \in Nat, NEW c \in Plain,
           Matches(v, Display(u, c), n), Len(Last(u.rows)) <= u.col
    PROVE  Matches(Display(Display(Display(v, BS), 32), BS), u, n)
  <1> DEFINE a == Len(v.rows)
             b == Len(u.rows)
             d == Display(u, c)
             wu == Written(u.rows[b], u.col, c)
             ru == [u.rows EXCEPT ![b] = wu]
             w == Written(v.rows[a], u.col, 32)
             rv == [v.rows EXCEPT ![a] = w]
  <1>0. c \in Char /\ BS \in Char /\ 32 \in Char /\ 32 \in Plain
    BY CharFacts DEF Plain, BS, LF, CR
  <1>1. /\ u.rows \in Seq(Seq(Char)) /\ u.rows # <<>> /\ b \in Nat \ {0} /\ u.col \in Nat
        /\ v.rows \in Seq(Seq(Char)) /\ a \in Nat
    BY DEF Term
  <1>2. b \in 1..b /\ u.rows[b] \in Seq(Char) /\ Len(u.rows[b]) <= u.col
    BY <1>1 DEF Last
  <1>3. d \in Term /\ d = [rows |-> ru, col |-> u.col + 1]
    BY <1>0, DisplayMeans
  <1>4. wu \in Seq(Char) /\ \A k \in Nat \ {0} : Shows(wu, k) = IF k = u.col + 1 THEN c ELSE Shows(u.rows[b], k)
    BY <1>0, <1>1, <1>2, WrittenMeans, ZenonT(60)
  <1> HIDE DEF wu
  <1>5. Len(ru) = b /\ \A k \in 1..b : ru[k] = IF k = b THEN wu ELSE u.rows[k]
    BY <1>1, <1>2, <1>4, ExceptSeq
  <1>6. /\ Len(v.rows) = n + Len(d.rows) /\ v.col = d.col
        /\ \A k \in 1..Len(d.rows) : /\ v.rows[n + k] \in Seq(Char) /\ d.rows[k] \in Seq(Char)
                                     /\ SameRow(v.rows[n + k], d.rows[k])
    <2> HIDE DEF d
    <2>1. Matches(v, d, n)
      BY DEF d
    <2>2. d \in Term
      BY <1>3
    <2>3. QED
      BY <2>1, <2>2, MatchedRows, ZenonT(60)
  <1>7. a = n + b /\ v.col = u.col + 1
    BY <1>3, <1>5, <1>6
  <1>8. \A k \in 1..b : v.rows[n + k] \in Seq(Char) /\ SameRow(v.rows[n + k], ru[k])
    BY <1>3, <1>5, <1>6
  <1>9. a \in 1..a /\ v.rows[a] \in Seq(Char) /\ SameRow(v.rows[a], wu)
    <2>1. n + b = a /\ ru[b] = wu
      BY <1>2, <1>5, <1>7
    <2>2. v.rows[n + b] \in Seq(Char) /\ SameRow(v.rows[n + b], ru[b])
      BY <1>2, <1>8
    <2>3. a \in 1..a
      BY <1>1, <1>7
    <2>4. QED
      BY <2>1, <2>2, <2>3
  <1>10. w \in Seq(Char) /\ \A k \in Nat \ {0} : Shows(w, k) = IF k = u.col + 1 THEN 32 ELSE Shows(v.rows[a], k)
    BY <1>0, <1>1, <1>9, WrittenMeans, ZenonT(60)
  <1> DEFINE v1 == [v EXCEPT !.col = u.col]
             v2 == [rows |-> rv, col |-> u.col + 1]
             v3 == [rows |-> rv, col |-> u.col]
  <1>11. Display(v, BS) = v1 /\ v1 \in Term /\ v1.rows = v.rows /\ v1.col = u.col
    <2>1. Display(v, BS) = [v EXCEPT !.col = IF @ = 0 THEN 0 ELSE @ - 1] /\ Display(v, BS) \in Term
      BY <1>0, DisplayMeans
    <2>2. v.col # 0 /\ v.col - 1 = u.col
      BY <1>1, <1>7
    <2>3. v = [rows |-> v.rows, col |-> v.col]
      BY DEF Term
    <2>4. QED
      BY <2>1, <2>2, <2>3
  <1> HIDE DEF v1
  <1>12. Display(v1, 32) = v2 /\ v2 \in Term
    <2>1. Display(v1, 32) \in Term
          /\ Display(v1, 32) = [rows |-> [v1.rows EXCEPT ![Len(v1.rows)] = Written(@, v1.col, 32)],
                                col  |-> v1.col + 1]
      BY <1>0, <1>11, DisplayMeans
    <2>2. QED
      BY <1>11, <2>1
  <1> HIDE DEF v2
  <1>13. Display(v2, BS) = v3
    <2>1. Display(v2, BS) = [v2 EXCEPT !.col = IF @ = 0 THEN 0 ELSE @ - 1]
      BY <1>0, <1>12, DisplayMeans
    <2>2. v2.col = u.col + 1 /\ v2.rows = rv
      BY DEF v2
    <2>3. u.col + 1 # 0 /\ (u.col + 1) - 1 = u.col
      BY <1>1
    <2>4. QED
      BY <2>1, <2>2, <2>3 DEF v2
  <1> HIDE DEF w
  <1>14. Len(rv) = a /\ \A k \in 1..a : rv[k] = IF k = a THEN w ELSE v.rows[k]
    BY <1>1, <1>9, <1>10, ExceptSeq, SMTT(30)
  <1>15. SameRow(w, u.rows[b])
    <2>1. \A k \in Nat \ {0} : Shows(v.rows[a], k) = Shows(wu, k)
      BY <1>4, <1>9, SameEverywhere
    <2>2. Shows(u.rows[b], u.col + 1) = 32
      <3>1. ~(u.col + 1 <= Len(u.rows[b]))
        BY <1>1, <1>2
      <3>2. QED
        BY <3>1 DEF Shows
    <2>3. \A k \in Nat \ {0} : Shows(w, k) = Shows(u.rows[b], k)
      BY <1>4, <1>10, <2>1, <2>2
    <2>4. QED
      BY <1>2, <1>10, <2>3, SameEverywhere
  <1> HIDE DEF rv, ru, a, b
  <1>16. ASSUME NEW k \in 1..b
         PROVE  SameRow(rv[n + k], u.rows[k])
    <2>1. n + k \in 1..a /\ (n + k = a <=> k = b)
      BY <1>1, <1>7
    <2>2. QED
      BY <1>5, <1>8, <1>14, <1>15, <2>1
  <1>17. Matches(v3, u, n)
    <2>1. Len(rv) = n + Len(u.rows) /\ \A k \in 1..Len(u.rows) : SameRow(rv[n + k], u.rows[k])
      BY <1>7, <1>14, <1>16 DEF b
    <2>2. QED
      BY <2>1 DEF Matches, v3
  <1>18. QED
    BY <1>11, <1>12, <1>13, <1>17

LEMMA HeadingKept ==
    ASSUME NEW v \in Term, NEW n \in Nat \ {0}, NEW c \in Char, Heading(v, n)
    PROVE  Heading(Display(v, c), n)
  <1> DEFINE a == Len(v.rows)
             r == Display(v, c).rows
  <1>1. v.rows \in Seq(Seq(Char)) /\ v.rows # <<>> /\ a \in Nat \ {0} /\ a \in 1..a /\ v.col \in Nat
    BY DEF Term
  <1>2. a <= Len(r) /\ \A k \in 1..(a - 1) : r[k] = v.rows[k]
    <2>1. CASE c \in Plain
      <3> DEFINE w == Written(v.rows[a], v.col, c)
      <3>0. v.rows[a] \in Seq(Char)
        BY <1>1
      <3>1. w \in Seq(Char)
        BY <1>1, <3>0, WrittenMeans
      <3> HIDE DEF w
      <3> DEFINE q == [v.rows EXCEPT ![a] = w]
      <3>2. Len(q) = a /\ \A k \in 1..a : q[k] = IF k = a THEN w ELSE v.rows[k]
        <4>1. v.rows \in Seq(Seq(Char)) /\ a \in 1..Len(v.rows)
          BY <1>1
        <4>2. QED
          BY ONLY <3>1, <4>1, ExceptSeq
      <3>3. r = q
        BY <2>1, DisplayMeans DEF w
      <3> HIDE DEF a, r, q
      <3>4. \A k \in 1..(a - 1) : k \in 1..a /\ k # a
        BY <1>1
      <3>5. QED
        BY <1>1, <3>2, <3>3, <3>4
    <2>2. CASE c = BS \/ c = CR
      <3>1. r = v.rows
        <4>1. v = [rows |-> v.rows, col |-> v.col]
          BY DEF Term
        <4>2. QED
          BY <2>2, <4>1, DisplayMeans
      <3> HIDE DEF r
      <3>2. QED
        BY <1>1, <3>1
    <2>3. CASE c = LF
      <3>1. r = Append(v.rows, <<>>)
        <4>1. v = [rows |-> v.rows, col |-> v.col]
          BY DEF Term
        <4>2. QED
          BY <2>3, <4>1, DisplayMeans
      <3>2. <<>> \in Seq(Char)
        OBVIOUS
      <3>3. Len(r) = a + 1 /\ \A k \in 1..a : r[k] = v.rows[k]
        BY <1>1, <3>1, <3>2, AppendProperties
      <3> HIDE DEF a, r
      <3>4. QED
        BY <1>1, <3>3
    <2>4. QED
      BY <2>1, <2>2, <2>3 DEF Plain
  <1>3. n < a /\ v.rows[n] = <<83>> /\ \A k \in 1..(n - 1) : v.rows[k] \in {<<>>, <<66>>}
    BY DEF Heading
  <1>4. n \in 1..(a - 1) /\ \A k \in 1..(n - 1) : k \in 1..(a - 1)
    <2> HIDE DEF a
    <2>1. QED
      BY <1>1, <1>3
  <1>5. /\ r[n] = <<83>>
        /\ \A k \in 1..(n - 1) : r[k] \in {<<>>, <<66>>}
    BY <1>2, <1>3, <1>4
  <1>6. n < Len(r)
    <2>1. Len(r) \in Nat
      BY DisplayMeans DEF Term
    <2> HIDE DEF a, r
    <2>2. QED
      BY <1>1, <1>2, <1>3, <2>1
  <1>7. QED
    BY <1>5, <1>6 DEF Heading

-----------------------------------------------------------------------------
(* The same in terms of texts: s is what was printed, u what should show.    *)

Alike(s, u, n) == Heading(Terminal(s), n) /\ Matches(Terminal(s), Terminal(u), n)

LEMMA OneMore ==
    ASSUME NEW s \in Seq(Char), NEW c \in Char
    PROVE  s \o <<c>> = Append(s, c) /\ s \o <<c>> \in Seq(Char)
  <1>1. Append(s, c) \in Seq(Char)
    BY AppendProperties
  <1>2. QED
    BY <1>1

LEMMA LineMeans ==
    ASSUME NEW s \in Seq(Char)
    PROVE  s \o NewLine \in Seq(Char) /\ Terminal(s \o NewLine) = Line(Terminal(s))
  <1> DEFINE t == Terminal(s)
             t1 == [t EXCEPT !.col = 0]
             a == Append(s, CR)
  <1>1. CR \in Char /\ LF \in Char
    BY CharFacts
  <1>2. s \o NewLine = Append(a, LF) /\ a \in Seq(Char)
    BY <1>1, ConcatPair, AppendProperties DEF NewLine
  <1>3. t \in Term
    BY TerminalType
  <1>4. Terminal(a) = Display(t, CR)
    BY <1>1, TerminalAppend
  <1> HIDE DEF t, a
  <1>5. Display(t, CR) = t1 /\ t1 \in Term
    BY <1>1, <1>3, DisplayMeans
  <1>6. Terminal(Append(a, LF)) = Display(Terminal(a), LF)
    BY <1>1, <1>2, TerminalAppend
  <1>7. Display(t1, LF) = [t1 EXCEPT !.rows = Append(@, <<>>)]
    BY <1>1, <1>5, DisplayMeans
  <1>8. [t1 EXCEPT !.rows = Append(@, <<>>)] = Line(t)
    <2>1. t1 = [rows |-> t.rows, col |-> 0]
      BY <1>3 DEF Term
    <2>2. [[rows |-> t.rows, col |-> 0] EXCEPT !.rows = Append(@, <<>>)] = Line(t)
      BY SMTT(30) DEF Line
    <2> HIDE DEF t1
    <2>3. QED
      BY <2>1, <2>2
  <1>9. Append(a, LF) \in Seq(Char)
    BY <1>1, <1>2, AppendProperties
  <1>10. QED
    BY <1>2, <1>4, <1>5, <1>6, <1>7, <1>8, <1>9 DEF t

LEMMA AlikeChar ==
    ASSUME NEW s \in Seq(Char), NEW u \in Seq(Char), NEW n \in Nat \ {0}, NEW c \in Plain,
           Alike(s, u, n)
    PROVE  Alike(s \o <<c>>, u \o <<c>>, n)
  <1>1. c \in Char
    BY DEF Plain
  <1>2. Terminal(s) \in Term /\ Terminal(u) \in Term
    BY TerminalType
  <1>3. /\ Terminal(s \o <<c>>) = Display(Terminal(s), c)
        /\ Terminal(u \o <<c>>) = Display(Terminal(u), c)
    BY <1>1, OneMore, TerminalAppend
  <1>4. QED
    BY <1>1, <1>2, <1>3, MatchPlain, HeadingKept DEF Alike

LEMMA AlikeLine ==
    ASSUME NEW s \in Seq(Char), NEW u \in Seq(Char), NEW n \in Nat \ {0}, Alike(s, u, n)
    PROVE  Alike(s \o NewLine, u \o NewLine, n)
  <1>1. Terminal(s) \in Term /\ Terminal(u) \in Term
    BY TerminalType
  <1>2. /\ Terminal(s \o NewLine) = Line(Terminal(s))
        /\ Terminal(u \o NewLine) = Line(Terminal(u))
    BY LineMeans
  <1>3. Heading(Line(Terminal(s)), n)
    <2> DEFINE v == Terminal(s)
    <2>1. v.rows \in Seq(Seq(Char)) /\ Len(v.rows) \in Nat /\ <<>> \in Seq(Char)
      BY <1>1 DEF Term
    <2>2. Heading(v, n)
      BY DEF Alike
    <2> HIDE DEF v
    <2> DEFINE r == Append(v.rows, <<>>)
    <2>3. Len(r) = Len(v.rows) + 1 /\ \A k \in 1..Len(v.rows) : r[k] = v.rows[k]
      BY <2>1, AppendProperties
    <2>4. Line(v).rows = r
      BY DEF Line
    <2> HIDE DEF r
    <2>5. n \in 1..Len(v.rows) /\ \A k \in 1..(n - 1) : k \in 1..Len(v.rows)
      BY <2>1, <2>2 DEF Heading
    <2>6. Heading(Line(v), n)
      <3>1. r[n] = <<83>> /\ \A k \in 1..(n - 1) : r[k] \in {<<>>, <<66>>}
        BY <2>2, <2>3, <2>5 DEF Heading
      <3>2. n < Len(r)
        BY <2>1, <2>3, <2>5
      <3>3. QED
        BY <2>4, <3>1, <3>2 DEF Heading
    <2>7. QED
      BY <2>6 DEF v
  <1>4. QED
    BY <1>1, <1>2, <1>3, MatchLine DEF Alike

LEMMA AlikeErase ==
    ASSUME NEW s \in Seq(Char), NEW u \in Seq(Char), NEW n \in Nat \ {0}, NEW c \in Plain,
           Alike(s, u \o <<c>>, n), Len(Last(Terminal(u).rows)) <= Terminal(u).col
    PROVE  Alike(s \o <<BS, 32, BS>>, u, n)
  <1> DEFINE v == Terminal(s)
             v1 == Display(v, BS)
             v2 == Display(v1, 32)
             v3 == Display(v2, BS)
             a == Append(s, BS)
             b == Append(a, 32)
             e == Append(b, BS)
  <1>1. c \in Char /\ BS \in Char /\ 32 \in Char
    BY CharFacts DEF Plain
  <1>2. v \in Term /\ Terminal(u) \in Term
    BY TerminalType
  <1>3. a \in Seq(Char) /\ Terminal(a) = v1
    BY <1>1, AppendProperties, TerminalAppend
  <1> HIDE DEF a
  <1>4. b \in Seq(Char) /\ Terminal(b) = v2
    BY <1>1, <1>3, AppendProperties, TerminalAppend
  <1> HIDE DEF b
  <1>5. e \in Seq(Char) /\ Terminal(e) = v3
    BY <1>1, <1>4, AppendProperties, TerminalAppend
  <1> HIDE DEF e
  <1>6. s \o <<BS, 32, BS>> = e
    <2> DEFINE w == <<BS, 32>>
               x == <<BS, 32, BS>>
    <2>1. w \in Seq(Char) /\ x = Append(w, BS)
      BY <1>1
    <2>2. s \o w = b
      BY <1>1, ConcatPair DEF a, b
    <2> HIDE DEF w, x
    <2>3. s \o Append(w, BS) = Append(s \o w, BS)
      BY <1>1, <2>1
    <2>4. s \o x = e
      BY <2>1, <2>2, <2>3 DEF e
    <2>5. QED
      BY <2>4 DEF x
  <1>7. Heading(v3, n)
    <2>1. Heading(v, n)
      BY DEF Alike
    <2> HIDE DEF v
    <2>2. v1 \in Term /\ Heading(v1, n)
      BY <1>1, <1>2, <2>1, HeadingKept, DisplayMeans
    <2> HIDE DEF v1
    <2>3. v2 \in Term /\ Heading(v2, n)
      BY <1>1, <2>2, HeadingKept, DisplayMeans
    <2> HIDE DEF v2
    <2>4. QED
      BY <1>1, <2>3, HeadingKept
  <1>8. Matches(v3, Terminal(u), n)
    <2>1. Terminal(u \o <<c>>) = Display(Terminal(u), c)
      BY <1>1, OneMore, TerminalAppend
    <2>2. Matches(v, Display(Terminal(u), c), n)
      BY <2>1 DEF Alike
    <2> HIDE DEF v
    <2>3. QED
      BY <1>2, <2>2, MatchErase
  <1>9. QED
    BY <1>5, <1>6, <1>7, <1>8 DEF Alike

\* Typing leaves the cursor behind what was typed.
AtEnd(t) == t.col = Len(Last(t.rows))

LEMMA FreshAtEnd ==
    ASSUME NEW t, Fresh(t)
    PROVE  AtEnd(t)
  BY DEF Fresh, AtEnd

LEMMA PlainAtEnd ==
    ASSUME NEW s \in Seq(Char), NEW c \in Plain, AtEnd(Terminal(s))
    PROVE  AtEnd(Terminal(s \o <<c>>))
  <1> DEFINE t == Terminal(s)
             n == Len(t.rows)
             w == Written(t.rows[n], t.col, c)
             r == [t.rows EXCEPT ![n] = w]
  <1>1. c \in Char
    BY DEF Plain
  <1>2. t \in Term
    BY TerminalType
  <1>3. Terminal(s \o <<c>>) = Display(t, c)
    BY <1>1, OneMore, TerminalAppend
  <1>4. t.col = Len(t.rows[n])
    BY DEF AtEnd, Last
  <1> HIDE DEF t
  <1>5. t.rows \in Seq(Seq(Char)) /\ t.rows # <<>> /\ n \in 1..n /\ t.rows[n] \in Seq(Char) /\ t.col \in Nat
    BY <1>2 DEF Term
  <1>6. Display(t, c) = [rows |-> r, col |-> t.col + 1]
    BY <1>1, <1>2, DisplayMeans
  <1>7. w \in Seq(Char) /\ Len(w) = t.col + 1
    <2> DEFINE row == t.rows[n]
    <2>1. row \in Seq(Char) /\ t.col \in Nat /\ t.col = Len(row)
      BY <1>4, <1>5
    <2>2. w = Written(row, t.col, c)
      OBVIOUS
    <2> HIDE DEF row, w
    <2>3. w \in Seq(Char) /\ Len(w) = IF Len(row) > t.col THEN Len(row) ELSE t.col + 1
      BY <1>1, <2>1, <2>2, WrittenMeans
    <2>4. QED
      BY <2>1, <2>3
  <1> HIDE DEF w
  <1>8. Len(r) = n /\ r[n] = w
    BY <1>5, <1>7, ExceptSeq
  <1> HIDE DEF r, n
  <1>9. QED
    BY <1>3, <1>6, <1>7, <1>8 DEF AtEnd, Last

LEMMA TextAtEnd ==
    ASSUME NEW s \in Seq(Char), NEW w \in Seq(Plain), AtEnd(Terminal(s))
    PROVE  s \o w \in Seq(Char) /\ AtEnd(Terminal(s \o w))
  <1> DEFINE T == {k \in Nat : \A x \in Seq(Plain) :
                      Len(x) = k => s \o x \in Seq(Char) /\ AtEnd(Terminal(s \o x))}
  <1>1. 0 \in T
    <2>1. \A x \in Seq(Plain) : Len(x) = 0 => x = <<>>
      OBVIOUS
    <2>2. s \o <<>> = s
      OBVIOUS
    <2>3. QED
      BY <2>1, <2>2
  <1>2. ASSUME NEW k \in Nat, k \in T
        PROVE  k + 1 \in T
    <2>1. ASSUME NEW x \in Seq(Plain), Len(x) = k + 1
          PROVE  s \o x \in Seq(Char) /\ AtEnd(Terminal(s \o x))
      <3> DEFINE y == SubSeq(x, 1, k)
                 c == x[k + 1]
      <3>1. c \in Plain /\ c \in Char
        BY <2>1 DEF Plain
      <3>2. y \in Seq(Plain) /\ Len(y) = k
        BY <2>1
      <3>3. x = y \o <<c>>
        <4>1. SubSeq(x, 1, k + 1) = y \o <<c>>
          BY <2>1, SliceGrows
        <4>2. SubSeq(x, 1, Len(x)) = x
          BY SubSeqFull
        <4>3. QED
          BY <2>1, <4>1, <4>2
      <3> HIDE DEF y, c
      <3>4. y \in Seq(Char) /\ <<c>> \in Seq(Char)
        BY <3>1, <3>2 DEF Plain
      <3>5. s \o y \in Seq(Char) /\ AtEnd(Terminal(s \o y))
        BY <1>2, <3>2
      <3>6. s \o x = (s \o y) \o <<c>>
        BY <3>3, <3>4, ConcatAssociative
      <3>7. (s \o y) \o <<c>> \in Seq(Char)
        BY <3>1, <3>5, OneMore
      <3>8. AtEnd(Terminal((s \o y) \o <<c>>))
        BY <3>1, <3>5, PlainAtEnd
      <3>9. QED
        BY <3>6, <3>7, <3>8
    <2>2. QED
      BY <2>1
  <1>3. Len(w) \in T
    <2> HIDE DEF T
    <2>1. Nat \subseteq T
      BY <1>1, <1>2, SetInduction
    <2>2. Len(w) \in Nat
      OBVIOUS
    <2>3. QED
      BY <2>1, <2>2
  <1>4. QED
    BY <1>3

-----------------------------------------------------------------------------
(* The shell's texts.                                                        *)

LEMMA TypedIsPlain == Typed \subseteq Plain /\ Typed \subseteq Char /\ Plain \subseteq Char /\ CHARS \subseteq Char
  BY KeysAssumption DEF Typed, Plain, Char, BS, LF, CR, DEL

LEMMA TextsType ==
    /\ {NewLine, Banner, Ready, Prompt} \subseteq Seq(Char)
    /\ \A x : Answer(x) \in Seq(Char)
    /\ \A t \in Seq(Char) : Entered(AsCoded, t) \in Seq(Char)
  <1>1. \A a, b \in Char : <<a>> \in Seq(Char) /\ <<a, b>> \in Seq(Char) /\ <<>> \in Seq(Char)
    OBVIOUS
  <1>2. NewLine \in Seq(Char) /\ Prompt \in Seq(Char) /\ <<>> \in Seq(Char)
    BY <1>1, CharFacts DEF NewLine, Prompt
  <1>3. <<66>> \in Seq(Char) /\ <<83>> \in Seq(Char) /\ <<82>> \in Seq(Char) /\ <<69>> \in Seq(Char)
    BY <1>1, CharFacts
  <1>4. \A a, b \in Seq(Char) : a \o b \in Seq(Char)
    OBVIOUS
  <1>5. Banner \in Seq(Char) /\ Ready \in Seq(Char)
    <2>1. NewLine \o <<83>> \in Seq(Char)
      BY <1>2, <1>3, <1>4
    <2>2. QED
      BY <1>2, <1>3, <1>4, <2>1 DEF Banner, Ready
  <1>6. ASSUME NEW x
        PROVE  Answer(x) \in Seq(Char)
    <2>1. <<82>> \o NewLine \in Seq(Char) /\ <<69>> \o NewLine \in Seq(Char)
      BY <1>2, <1>3, <1>4
    <2>2. Answer(x) \in {<<82>> \o NewLine, <<69>> \o NewLine, <<>>}
      BY DEF Answer
    <2>3. QED
      BY <1>2, <2>1, <2>2
  <1>7. ASSUME NEW t \in Seq(Char)
        PROVE  Entered(AsCoded, t) \in Seq(Char)
    <2>1. Prompt \o t \in Seq(Char)
      BY <1>2, <1>4
    <2> DEFINE e == IF Len(t) = LINE_MAX THEN <<>> ELSE NewLine
    <2>2. e \in Seq(Char)
      BY <1>2
    <2>3. Entered(AsCoded, t) = (Prompt \o t) \o e
      BY DEF Entered, Echo, End, AsCoded
    <2> HIDE DEF e
    <2>4. QED
      BY <1>4, <2>1, <2>2, <2>3
  <1>8. QED
    BY <1>2, <1>5, <1>6, <1>7

LEMMA Regroup ==
    ASSUME NEW a \in Seq(Char), NEW b \in Seq(Char), NEW c \in Seq(Char)
    PROVE  a \o (b \o c) = (a \o b) \o c /\ a \o b \in Seq(Char) /\ a \o (b \o c) \in Seq(Char)
  <1>1. a \o b \in Seq(Char) /\ b \o c \in Seq(Char)
    OBVIOUS
  <1>2. a \o (b \o c) \in Seq(Char)
    BY <1>1
  <1>3. QED
    BY <1>1, <1>2, ConcatAssociative, SMTT(30)

LEMMA MemberType ==
    ASSUME NEW S, NEW s \in Seq(S), NEW k \in 1..Len(s)
    PROVE  s[k] \in S
  OBVIOUS

LEMMA SubSeqType ==
    ASSUME NEW S, NEW T, S \subseteq T, NEW s \in Seq(S)
    PROVE  s \in Seq(T)
  OBVIOUS

Page(k) == Entered(AsCoded, log[k].text) \o Answer(log[k].verdict)
Pages == [k \in 1..Len(log) |-> Page(k)]

LEMMA PastType ==
    ASSUME TypeInv
    PROVE  /\ Pages \in Seq(Seq(Char)) /\ Past(AsCoded) = FlattenSeq(Pages) /\ Past(AsCoded) \in Seq(Char)
           /\ Shown \in Seq(Char) /\ Transcript(AsCoded) \in Seq(Char)
           /\ buf \in Seq(Plain) /\ buf \in Seq(Char)
  <1>1. log \in Seq([text : Seq(Typed), verdict : {"empty", "ran", "error"}])
    BY DEF TypeInv
  <1>2. ASSUME NEW k \in 1..Len(log)
        PROVE  Page(k) \in Seq(Char)
    <2>1. log[k].text \in Seq(Char)
      <3>1. log[k].text \in Seq(Typed)
        <4>1. log[k] \in [text : Seq(Typed), verdict : {"empty", "ran", "error"}]
          BY <1>1, MemberType
        <4>2. QED
          BY <4>1
      <3>2. QED
        BY <3>1, TypedIsPlain, SubSeqType
    <2>2. Entered(AsCoded, log[k].text) \in Seq(Char) /\ Answer(log[k].verdict) \in Seq(Char)
      BY <2>1, TextsType
    <2>3. QED
      BY <2>2 DEF Page
  <1>3. Len(log) \in Nat
    BY <1>1
  <1>4. Pages \in Seq(Seq(Char))
    BY <1>2, <1>3 DEF Pages
  <1>5. Past(AsCoded) = FlattenSeq(Pages)
    BY DEF Past, Pages, Page
  <1>6. Past(AsCoded) \in Seq(Char)
    BY <1>4, <1>5, FlattenType
  <1>7. buf \in Seq(Plain) /\ buf \in Seq(Char)
    <2>1. buf \in Seq(Typed)
      BY DEF TypeInv
    <2>2. QED
      BY <2>1, TypedIsPlain, SubSeqType
  <1>8. Shown \in Seq(Char)
    <2>1. screen \in Seq(Char) /\ tx \in Seq(Char) /\ pend \in Seq(Char)
      BY DEF TypeInv
    <2>2. QED
      BY <2>1 DEF Shown
  <1>9. Transcript(AsCoded) \in Seq(Char)
    <2> DEFINE e == CASE pc = "read" -> Prompt \o buf [] pc = "got" -> Entered(AsCoded, buf) [] OTHER -> <<>>
    <2>1. Prompt \o buf \in Seq(Char) /\ Entered(AsCoded, buf) \in Seq(Char) /\ <<>> \in Seq(Char)
      BY <1>7, TextsType
    <2>2. e \in {Prompt \o buf, Entered(AsCoded, buf), <<>>}
      OBVIOUS
    <2>3. e \in Seq(Char)
      BY <2>1, <2>2
    <2>4. Transcript(AsCoded) = Past(AsCoded) \o e
      BY DEF Transcript, Echo, AsCoded
    <2> HIDE DEF e
    <2>5. QED
      BY <1>6, <2>3, <2>4
  <1>10. QED
    BY <1>4, <1>5, <1>6, <1>7, <1>8, <1>9

LEMMA AlikePrompt ==
    ASSUME NEW s \in Seq(Char), NEW u \in Seq(Char), NEW n \in Nat \ {0}, Alike(s, u, n)
    PROVE  Alike(s \o Prompt, u \o Prompt, n)
  <1>1. 62 \in Plain /\ 32 \in Plain
    BY DEF Plain, Char, BS, LF, CR
  <1>2. 62 \in Char /\ 32 \in Char
    BY CharFacts
  <1>3. \A x \in Seq(Char) : x \o <<62>> \in Seq(Char) /\ x \o Prompt = (x \o <<62>>) \o <<32>>
    <2> TAKE x \in Seq(Char)
    <2>1. x \o <<62>> \in Seq(Char) /\ x \o <<62>> = Append(x, 62)
      BY <1>2, OneMore
    <2>2. (x \o <<62>>) \o <<32>> = Append(Append(x, 62), 32)
      BY <1>2, <2>1, OneMore
    <2>3. x \o Prompt = Append(Append(x, 62), 32)
      BY <1>2, ConcatPair DEF Prompt
    <2>4. QED
      BY <2>1, <2>2, <2>3
  <1>4. Alike(s \o <<62>>, u \o <<62>>, n)
    BY <1>1, AlikeChar
  <1>5. Alike((s \o <<62>>) \o <<32>>, (u \o <<62>>) \o <<32>>, n)
    BY <1>1, <1>3, <1>4, AlikeChar
  <1>6. QED
    BY <1>3, <1>5

LEMMA AlikeAnswer ==
    ASSUME NEW s \in Seq(Char), NEW u \in Seq(Char), NEW n \in Nat \ {0}, Alike(s, u, n), NEW x
    PROVE  Alike(s \o Answer(x), u \o Answer(x), n)
  <1>1. ASSUME NEW c \in {82, 69}
        PROVE  Alike(s \o (<<c>> \o NewLine), u \o (<<c>> \o NewLine), n)
    <2>1. c \in Plain /\ c \in Char
      BY DEF Plain, Char, BS, LF, CR
    <2>2. s \o <<c>> \in Seq(Char) /\ u \o <<c>> \in Seq(Char) /\ <<c>> \in Seq(Char) /\ NewLine \in Seq(Char)
      BY <2>1, OneMore, TextsType
    <2>3. Alike((s \o <<c>>) \o NewLine, (u \o <<c>>) \o NewLine, n)
      BY <2>1, <2>2, AlikeChar, AlikeLine
    <2>4. /\ (s \o <<c>>) \o NewLine = s \o (<<c>> \o NewLine)
          /\ (u \o <<c>>) \o NewLine = u \o (<<c>> \o NewLine)
      BY <2>2, ConcatAssociative, SMTT(30)
    <2>5. QED
      BY <2>3, <2>4
  <1>2. s \o <<>> = s /\ u \o <<>> = u
    OBVIOUS
  <1>3. Answer(x) \in {<<82>> \o NewLine, <<69>> \o NewLine, <<>>}
    BY DEF Answer
  <1>4. QED
    BY <1>1, <1>2, <1>3

LEMMA FreshLine ==
    ASSUME NEW s \in Seq(Char)
    PROVE  Fresh(Terminal(s \o NewLine))
  <1> DEFINE r == Terminal(s).rows
  <1>1. Terminal(s \o NewLine) = Line(Terminal(s))
    BY LineMeans
  <1>2. r \in Seq(Seq(Char)) /\ <<>> \in Seq(Char)
    BY TerminalType DEF Term
  <1>3. Line(Terminal(s)).rows = Append(r, <<>>) /\ Line(Terminal(s)).col = 0
    BY DEF Line
  <1> HIDE DEF r
  <1>4. Last(Append(r, <<>>)) = <<>>
    BY <1>2, AppendProperties DEF Last
  <1>5. QED
    BY <1>1, <1>3, <1>4 DEF Fresh

\* A line and its answer end in a line feed: an empty line has its own.
LEMMA FreshPage ==
    ASSUME NEW s \in Seq(Char), NEW t \in Seq(Char), NEW x \in {"empty", "ran", "error"},
           x = "empty" => t = <<>>
    PROVE  Fresh(Terminal(s \o (Entered(AsCoded, t) \o Answer(x))))
  <1>1. \A a, b \in Seq(Char) : a \o b \in Seq(Char)
    OBVIOUS
  <1>2. NewLine \in Seq(Char) /\ Prompt \in Seq(Char) /\ Entered(AsCoded, t) \in Seq(Char)
    BY TextsType
  <1>3. ASSUME NEW c \in Char
        PROVE  Fresh(Terminal(s \o (Entered(AsCoded, t) \o (<<c>> \o NewLine))))
    <2>1. <<c>> \in Seq(Char)
      OBVIOUS
    <2> DEFINE a == s \o Entered(AsCoded, t)
               b == a \o <<c>>
    <2>2. a \in Seq(Char)
      BY <1>1, <1>2
    <2>3. b \in Seq(Char)
      BY <1>1, <2>1, <2>2
    <2>4. s \o (Entered(AsCoded, t) \o (<<c>> \o NewLine)) = a \o (<<c>> \o NewLine)
      <3> DEFINE d == <<c>> \o NewLine
      <3>1. d \in Seq(Char)
        BY <1>1, <1>2, <2>1
      <3> DEFINE e == Entered(AsCoded, t)
      <3>2. e \in Seq(Char)
        BY <1>2
      <3> HIDE DEF d, e
      <3>3. s \o (e \o d) = (s \o e) \o d
        BY ONLY <3>1, <3>2, s \in Seq(Char), Regroup
      <3>4. QED
        BY <3>3 DEF d, e
    <2> HIDE DEF a
    <2>5. a \o (<<c>> \o NewLine) = b \o NewLine
      <3> DEFINE d == <<c>>
      <3>1. d \in Seq(Char) /\ NewLine \in Seq(Char)
        BY <1>2, <2>1
      <3> HIDE DEF d
      <3>2. a \o (d \o NewLine) = (a \o d) \o NewLine
        BY ONLY <2>2, <3>1, Regroup, SMTT(30)
      <3>3. QED
        BY <3>2 DEF d
    <2> HIDE DEF b
    <2>6. QED
      BY <2>3, <2>4, <2>5, FreshLine
  <1>4. CASE x = "empty"
    <2>1. Answer(x) = <<>> /\ Entered(AsCoded, t) \o <<>> = Entered(AsCoded, t)
      BY <1>2, <1>4 DEF Answer
    <2>2. Len(t) # LINE_MAX
      BY <1>4, DepthAssumption
    <2>3. Entered(AsCoded, t) = (Prompt \o t) \o NewLine
      BY <2>2 DEF Entered, Echo, End, AsCoded
    <2> DEFINE p == Prompt \o t
    <2>4. p \in Seq(Char) /\ s \o p \in Seq(Char)
      BY <1>1, <1>2
    <2> HIDE DEF p
    <2>5. s \o (p \o NewLine) = (s \o p) \o NewLine
      <3>1. NewLine \in Seq(Char)
        BY <1>2
      <3>2. QED
        BY ONLY <2>4, <3>1, s \in Seq(Char), Regroup
    <2>6. Fresh(Terminal((s \o p) \o NewLine))
      BY <2>4, FreshLine
    <2>7. QED
      BY <2>1, <2>3, <2>5, <2>6 DEF p
  <1>5. CASE x = "ran"
    <2>1. Answer(x) = <<82>> \o NewLine
      BY <1>5 DEF Answer
    <2>2. QED
      BY <1>3, <2>1, CharFacts
  <1>6. CASE x = "error"
    <2>1. Answer(x) = <<69>> \o NewLine
      BY <1>6 DEF Answer
    <2>2. QED
      BY <1>3, <2>1, CharFacts
  <1>7. QED
    BY <1>4, <1>5, <1>6

-----------------------------------------------------------------------------
(* Types.                                                                    *)

USE DEF vars

LEMMA InitInv == Init => IInv
  <1>1. SUFFICES ASSUME Init
                 PROVE  IInv
    OBVIOUS
  <1>2. <<>> \in Seq(Typed) /\ <<>> \in Seq(CHARS) /\ <<>> \in Seq(Char)
        /\ <<>> \in Seq([text : Seq(Typed), verdict : {"empty", "ran", "error"}]) /\ Len(<<>>) = 0
    OBVIOUS
  <1>3. TypeOK
    BY <1>1, <1>2, DepthAssumption, BoundAssumption DEF Init, TypeOK
  <1>4. TypeInv
    BY <1>1, <1>2, <1>3, TextsType DEF Init, TypeInv
  <1>5. BannerInv
    <2>1. <<>> \o <<>> = <<>> /\ <<>> \o Banner = Banner
      BY <1>2, TextsType
    <2>2. QED
      BY <1>1, <2>1 DEF Init, BannerInv, Shown
  <1>6. ScreenInv
    <2>1. Pages = <<>>
      BY <1>1 DEF Pages, Init
    <2>2. Past(AsCoded) = <<>>
      BY <1>4, <2>1, PastType, FlattenEmpty
    <2>3. Fresh(Blank)
      BY DEF Fresh, Blank, Last
    <2>4. pc = "banner"
      BY <1>1 DEF Init
    <2>5. QED
      BY <2>2, <2>3, <2>4, TerminalEmpty DEF ScreenInv
  <1>7. QED
    BY <1>4, <1>5, <1>6 DEF IInv

LEMMA VerdictType ==
    /\ Verdict \in {"empty", "ran", "error"}
    /\ Verdict = "empty" => buf = <<>>
  BY DEF Verdict

LEMMA HeadTail ==
    ASSUME NEW S, NEW s \in Seq(S), s # <<>>
    PROVE  Head(s) \in S /\ Tail(s) \in Seq(S) /\ Len(Tail(s)) = Len(s) - 1 /\ s = <<Head(s)>> \o Tail(s)
  <1>1. Head(s) \in S /\ Tail(s) \in Seq(S) /\ Len(Tail(s)) = Len(s) - 1
    OBVIOUS
  <1> DEFINE h == <<Head(s)>>
             t == Tail(s)
             r == h \o t
  <1>2. h \in Seq(S) /\ Len(h) = 1 /\ h[1] = s[1]
    BY <1>1
  <1>3. \A i \in 1..Len(t) : t[i] = s[i + 1]
    OBVIOUS
  <1>4. Len(s) \in Nat /\ Len(t) = Len(s) - 1 /\ t \in Seq(S)
    BY <1>1
  <1> HIDE DEF h, t
  <1>5. r \in Seq(S) /\ Len(r) = Len(h) + Len(t)
        /\ \A i \in 1..(Len(h) + Len(t)) : r[i] = IF i <= Len(h) THEN h[i] ELSE t[i - Len(h)]
    BY <1>2, <1>4, ConcatProperties
  <1> HIDE DEF r
  <1>6. ASSUME NEW i \in 1..Len(s)
        PROVE  s[i] = r[i]
    <2>1. i \in 1..(Len(h) + Len(t))
      BY <1>2, <1>4
    <2>2. CASE i = 1
      BY <1>2, <1>5, <2>1, <2>2
    <2>3. CASE i # 1
      <3>1. ~(i <= Len(h)) /\ i - Len(h) \in 1..Len(t) /\ (i - Len(h)) + 1 = i
        BY <1>2, <1>4, <2>3
      <3>2. QED
        BY <1>3, <1>5, <2>1, <3>1
    <2>4. QED
      BY <2>2, <2>3
  <1>7. Len(r) = Len(s)
    BY <1>2, <1>4, <1>5
  <1>8. s = r
    BY <1>5, <1>6, <1>7, SeqEqual
  <1>9. QED
    BY <1>1, <1>8 DEF r, h, t

LEMMA TailShorter ==
    ASSUME NEW S, NEW s \in Seq(S), s # <<>>, NEW n \in Nat, Len(s) <= n
    PROVE  Len(Tail(s)) <= n /\ Len(Tail(s)) < n
  <1>1. Len(Tail(s)) = Len(s) - 1 /\ Len(s) \in Nat
    BY HeadTail
  <1>2. QED
    BY <1>1

LEMMA FrontLast ==
    ASSUME NEW S, NEW s \in Seq(S), s # <<>>
    PROVE  Front(s) \in Seq(S) /\ Len(Front(s)) = Len(s) - 1 /\ Last(s) \in S /\ s = Front(s) \o <<Last(s)>>
  <1> DEFINE k == Len(s) - 1
  <1>1. k \in Nat /\ k < Len(s) /\ k + 1 = Len(s) /\ k + 1 \in 1..Len(s)
    OBVIOUS
  <1> HIDE DEF k
  <1>2. SubSeq(s, 1, k) \in Seq(S) /\ Len(SubSeq(s, 1, k)) = k
    <2>1. 0 + k <= Len(s) /\ 0 + 1 = 1 /\ 0 + k = k /\ 0 \in Nat
      BY <1>1
    <2>2. SubSeq(s, 0 + 1, 0 + k) \in Seq(S) /\ Len(SubSeq(s, 0 + 1, 0 + k)) = k
      BY ONLY <1>1, <2>1, s \in Seq(S), SliceMeans
    <2>3. QED
      BY <2>1, <2>2
  <1>3. SubSeq(s, 1, k + 1) = SubSeq(s, 1, k) \o <<s[k + 1]>>
    BY <1>1, SliceGrows
  <1>4. SubSeq(s, 1, Len(s)) = s
    BY SubSeqFull
  <1>5. Front(s) = SubSeq(s, 1, k) /\ Last(s) = s[k + 1]
    BY <1>1 DEF Front, Last, k
  <1>6. s[k + 1] \in S
    BY <1>1
  <1>7. QED
    BY <1>1, <1>2, <1>3, <1>4, <1>5, <1>6 DEF k

LEMMA TypeKept == TypeInv /\ [Next]_vars => TypeInv'
  <1> SUFFICES ASSUME TypeInv, [Next]_vars
               PROVE  TypeInv'
    OBVIOUS
  <1> USE DEF TypeInv, TypeOK
  <1>0. /\ Len(rx) \in Nat /\ Len(tx) \in Nat /\ Len(buf) \in Nat
        /\ LINE_MAX \in Nat \ {0} /\ RX_DEPTH \in Nat \ {0} /\ TX_DEPTH \in Nat \ {0} /\ KEYS \in Nat
        /\ <<>> \in Seq(Char) /\ <<>> \in Seq(Typed) /\ <<>> \in Seq(CHARS) /\ Len(<<>>) = 0
    BY DepthAssumption, BoundAssumption
  <1>1. ASSUME NEW c \in CHARS, PressKey(c)
        PROVE  TypeInv'
    <2>1. rx' \in Seq(CHARS) /\ Len(rx') <= RX_DEPTH
      <3>1. Append(rx, c) \in Seq(CHARS) /\ Len(Append(rx, c)) = Len(rx) + 1
        BY AppendProperties
      <3>2. QED
        BY <1>0, <1>1, <3>1 DEF PressKey
    <2>2. keys' \in 0..KEYS
      BY <1>0, <1>1 DEF PressKey
    <2>3. QED
      BY <1>1, <2>1, <2>2 DEF PressKey
  <1>2. CASE TxDone
    <2>1. tx # <<>> /\ tx \in Seq(Char) /\ screen \in Seq(Char)
      BY <1>2 DEF TxDone
    <2>2. Head(tx) \in Char /\ Tail(tx) \in Seq(Char) /\ Len(Tail(tx)) = Len(tx) - 1
      BY <2>1, HeadTail
    <2>3. Append(screen, Head(tx)) \in Seq(Char)
      BY <2>1, <2>2, AppendProperties
    <2>4. Len(Tail(tx)) <= TX_DEPTH
      BY <1>0, <2>1, TailShorter
    <2>5. screen' \in Seq(Char) /\ tx' \in Seq(Char) /\ Len(tx') <= TX_DEPTH
      BY <1>2, <2>2, <2>3, <2>4 DEF TxDone
    <2>6. QED
      BY <1>2, <2>5 DEF TxDone
  <1>3. CASE Putc
    <2>1. pend # <<>> /\ tx \in Seq(Char) /\ pend \in Seq(Char) /\ Len(tx) < TX_DEPTH
      BY <1>3 DEF Putc
    <2>2. Head(pend) \in Char /\ Tail(pend) \in Seq(Char)
      BY <2>1, HeadTail
    <2>3. Append(tx, Head(pend)) \in Seq(Char) /\ Len(Append(tx, Head(pend))) = Len(tx) + 1
      BY <2>1, <2>2, AppendProperties
    <2>4. pend' \in Seq(Char) /\ tx' \in Seq(Char) /\ Len(tx') <= TX_DEPTH
      BY <1>0, <1>3, <2>1, <2>2, <2>3 DEF Putc
    <2>5. QED
      BY <1>3, <2>4 DEF Putc
  <1>4. CASE AppRun
    <2>1. pc' = "prompt" /\ rx' = <<>> /\ tx' = <<>> /\ pend' = Ready
          /\ UNCHANGED <<buf, screen, log, keys>>
      BY <1>4 DEF AppRun, UartInit
    <2>2. QED
      BY <1>0, <2>1, TextsType
  <1>5. CASE ShowPrompt
    <2>1. pc' = "read" /\ buf' = <<>> /\ pend' = Prompt /\ UNCHANGED <<rx, tx, screen, log, keys>>
      BY <1>5 DEF ShowPrompt
    <2>2. QED
      BY <1>0, <2>1, TextsType
  <1>6. CASE LineTaken
    <2> DEFINE e == [text |-> buf, verdict |-> Verdict]
    <2>1. e \in [text : Seq(Typed), verdict : {"empty", "ran", "error"}]
      BY VerdictType
    <2> HIDE DEF e
    <2>2. Append(log, e) \in Seq([text : Seq(Typed), verdict : {"empty", "ran", "error"}])
      BY <2>1, AppendProperties
    <2>3. pc' = "prompt" /\ pend' = Answer(Verdict) /\ log' = Append(log, e)
          /\ UNCHANGED <<buf, rx, tx, screen, keys>>
      BY <1>6 DEF LineTaken, e
    <2>4. pend' \in Seq(Char)
      BY <2>3, TextsType
    <2>5. QED
      BY <2>2, <2>3, <2>4
  <1>7. ASSUME NEW c, Getc(c)
        PROVE  /\ rx' \in Seq(CHARS) /\ Len(rx') <= RX_DEPTH /\ c \in CHARS
               /\ Len(buf) < LINE_MAX /\ pc = "read" /\ UNCHANGED <<tx, screen, log, keys>>
    <2>1. rx # <<>> /\ rx \in Seq(CHARS) /\ rx' = Tail(rx) /\ c = Head(rx)
      BY <1>7 DEF Getc
    <2>2. Tail(rx) \in Seq(CHARS) /\ Head(rx) \in CHARS
      BY <2>1, HeadTail
    <2>3. Len(rx) <= RX_DEPTH
      OBVIOUS
    <2>4. Len(Tail(rx)) <= RX_DEPTH
      BY <1>0, <2>1, <2>3, TailShorter
    <2>5. Len(buf) < LINE_MAX
      BY <1>7 DEF Getc, Room
    <2>6. QED
      BY <1>7, <2>1, <2>2, <2>4, <2>5 DEF Getc
  <1>8. CASE EndOfLine
    <2>1. PICK c : Getc(c)
      BY <1>8 DEF EndOfLine
    <2>2. pc' = "got" /\ buf' = buf /\ pend' = NewLine
      BY <1>8 DEF EndOfLine
    <2>3. QED
      BY <1>7, <2>1, <2>2, TextsType
  <1>9. CASE Erase
    <2>1. PICK c : Getc(c)
      BY <1>9 DEF Erase
    <2>2. buf' \in Seq(Typed) /\ buf' \in Seq(CHARS) /\ Len(buf') <= LINE_MAX
      <3>1. CASE buf = <<>>
        BY <1>0, <1>9, <3>1 DEF Erase
      <3>2. CASE buf # <<>>
        <4>1. buf' = Front(buf)
          BY <1>9, <3>2 DEF Erase
        <4>2. Front(buf) \in Seq(Typed) /\ Front(buf) \in Seq(CHARS) /\ Len(Front(buf)) = Len(buf) - 1
          BY <3>2, FrontLast
        <4>3. QED
          BY <1>0, <4>1, <4>2
      <3>3. QED
        BY <3>1, <3>2
    <2>3. pend' \in Seq(Char)
      <3>1. BS \in Char /\ 32 \in Char
        BY CharFacts
      <3>2. <<BS, 32, BS>> \in Seq(Char)
        BY <3>1
      <3>3. QED
        BY <1>0, <1>9, <3>2 DEF Erase
    <2>4. pc' = pc
      BY <1>9 DEF Erase
    <2>5. QED
      BY <1>7, <2>1, <2>2, <2>3, <2>4
  <1>10. CASE Store
    <2>1. PICK c \in CHARS \ {CR, LF, BS, DEL} :
            /\ Getc(c)
            /\ buf' = Append(buf, c)
            /\ pend' = <<c>>
            /\ UNCHANGED pc
      BY <1>10 DEF Store
    <2>2. c \in Typed /\ c \in CHARS /\ c \in Char
      BY TypedIsPlain DEF Typed
    <2>3. <<c>> \in Seq(Char)
      BY <2>2
    <2>4. Append(buf, c) \in Seq(Typed) /\ Append(buf, c) \in Seq(CHARS) /\ Len(Append(buf, c)) = Len(buf) + 1
      BY <2>2, AppendProperties
    <2>5. Len(buf') <= LINE_MAX
      BY <1>0, <1>7, <2>1, <2>4
    <2>6. QED
      BY <1>7, <2>1, <2>3, <2>4, <2>5
  <1>11. CASE Full
    BY <1>11 DEF Full
  <1>12. CASE UNCHANGED vars
    BY <1>12
  <1>13. QED
    BY <1>1, <1>2, <1>3, <1>4, <1>5, <1>6, <1>8, <1>9, <1>10, <1>11, <1>12 DEF Next, Firmware

-----------------------------------------------------------------------------
(* The screen.                                                               *)

\* What is handed to putc is at once part of what is shown.
LEMMA ShownMore ==
    ASSUME TypeInv, pend = <<>>, screen' = screen, tx' = tx, pend' \in Seq(Char)
    PROVE  Shown' = Shown \o pend'
  <1> DEFINE a == screen \o tx
  <1>1. a \in Seq(Char)
    BY DEF TypeInv
  <1>2. Shown = a \o <<>> /\ Shown' = a \o pend'
    BY DEF Shown
  <1> HIDE DEF a
  <1>3. a \o <<>> = a
    BY <1>1
  <1>4. QED
    BY <1>2, <1>3

\* Neither FIFO nor terminal changes it.
LEMMA ShownStays ==
    ASSUME TypeInv, TxDone \/ Putc
    PROVE  Shown' = Shown
  <1>0. screen \in Seq(Char) /\ tx \in Seq(Char) /\ pend \in Seq(Char)
    BY DEF TypeInv
  <1>1. CASE TxDone
    <2> DEFINE h == Head(tx)
               t == Tail(tx)
               e == <<h>>
    <2>1. tx # <<>> /\ screen' = Append(screen, h) /\ tx' = t /\ pend' = pend
      BY <1>1 DEF TxDone
    <2>2. h \in Char /\ t \in Seq(Char) /\ tx = e \o t
      BY <1>0, <2>1, HeadTail
    <2>3. e \in Seq(Char)
      BY <2>2
    <2>4. screen' = screen \o e
      BY <1>0, <2>1, <2>2, OneMore
    <2> HIDE DEF h, t, e
    <2>5. screen \o (e \o t) = (screen \o e) \o t
      BY ONLY <1>0, <2>2, <2>3, Regroup, SMTT(30)
    <2>6. QED
      BY <2>1, <2>2, <2>4, <2>5 DEF Shown
  <1>2. CASE Putc
    <2> DEFINE h == Head(pend)
               t == Tail(pend)
               e == <<h>>
               a == tx \o e
    <2>1. pend # <<>> /\ tx' = Append(tx, h) /\ pend' = t /\ screen' = screen
      BY <1>2 DEF Putc
    <2>2. h \in Char /\ t \in Seq(Char) /\ pend = e \o t
      BY <1>0, <2>1, HeadTail
    <2>3. e \in Seq(Char)
      BY <2>2
    <2>4. tx' = a /\ a \in Seq(Char)
      BY <1>0, <2>1, <2>2, OneMore
    <2> HIDE DEF h, t, e
    <2>5. screen \o a = (screen \o tx) \o e /\ screen \o tx \in Seq(Char)
      BY ONLY <1>0, <2>3, Regroup DEF a
    <2>6. ((screen \o tx) \o e) \o t = (screen \o tx) \o (e \o t)
      BY ONLY <2>2, <2>3, <2>5, Regroup
    <2> HIDE DEF a
    <2>7. QED
      BY <2>1, <2>2, <2>4, <2>5, <2>6 DEF Shown
  <1>3. QED
    BY <1>1, <1>2

LEMMA TupleAppend ==
    ASSUME NEW S, NEW x \in S, NEW y \in S, NEW z \in S
    PROVE  Append(<<x>>, y) = <<x, y>> /\ Append(<<x, y>>, z) = <<x, y, z>>
  <1> DEFINE one == <<x>>
             two == <<x, y>>
             three == <<x, y, z>>
             a == Append(one, y)
             b == Append(two, z)
  <1>1. one \in Seq(S) /\ Len(one) = 1 /\ one[1] = x
    OBVIOUS
  <1>2. two \in Seq(S) /\ Len(two) = 2 /\ two[1] = x /\ two[2] = y
    OBVIOUS
  <1>3. three \in Seq(S) /\ Len(three) = 3 /\ three[1] = x /\ three[2] = y /\ three[3] = z
    OBVIOUS
  <1> HIDE DEF one, two, three
  <1> DEFINE Longer(s, e) == /\ Append(s, e) \in Seq(S)
                             /\ Len(Append(s, e)) = Len(s) + 1
                             /\ \A i \in 1..Len(s) : Append(s, e)[i] = s[i]
                             /\ Append(s, e)[Len(s) + 1] = e
  <1>0. ASSUME NEW s \in Seq(S), NEW e \in S PROVE Longer(s, e)
    BY ONLY <1>0, AppendProperties
  <1> HIDE DEF Longer
  <1>a1. Longer(one, y)
    BY ONLY <1>0, <1>1, y \in S
  <1>b1. Longer(two, z)
    BY ONLY <1>0, <1>2, z \in S
  <1>a. a \in Seq(S) /\ Len(a) = Len(one) + 1 /\ a[Len(one) + 1] = y /\ \A i \in 1..Len(one) : a[i] = one[i]
    BY ONLY <1>a1 DEF Longer
  <1>b. b \in Seq(S) /\ Len(b) = Len(two) + 1 /\ b[Len(two) + 1] = z /\ \A i \in 1..Len(two) : b[i] = two[i]
    BY ONLY <1>b1 DEF Longer
  <1> HIDE DEF a, b
  <1>4. a \in Seq(S) /\ Len(a) = 2 /\ a[2] = y /\ a[1] = x
    BY <1>1, <1>a
  <1>5. b \in Seq(S) /\ Len(b) = 3 /\ b[3] = z /\ b[1] = x /\ b[2] = y
    BY <1>2, <1>b
  <1>6. \A i \in 1..2 : a[i] = two[i]
    <2>1. \A i \in 1..2 : i = 1 \/ i = 2
      OBVIOUS
    <2>2. QED
      BY <1>2, <1>4, <2>1
  <1>7. \A i \in 1..3 : b[i] = three[i]
    <2>1. \A i \in 1..3 : i = 1 \/ i = 2 \/ i = 3
      OBVIOUS
    <2>2. QED
      BY <1>3, <1>5, <2>1
  <1>8. a = two
    BY ONLY <1>2, <1>4, <1>6, SeqEqual
  <1>9. b = three
    BY ONLY <1>3, <1>5, <1>7, SeqEqual
  <1>10. QED
    BY <1>8, <1>9 DEF a, b, one, two, three

LEMMA BannerBegins ==
    ASSUME NEW s \in Seq(Char), NEW t \in Seq(Char), s \o t = Banner
    PROVE  s \in {<<>>, <<66>>, <<66, 13>>, <<66, 13, 10>>}
  <1> DEFINE b == Banner
  <1>1. Len(b) = 3 /\ b[1] = 66 /\ b[2] = 13 /\ b[3] = 10
    <2>1. <<66>> \in Seq(Char) /\ CR \in Char /\ LF \in Char
      BY TextsType, CharFacts
    <2>2. b = Append(Append(<<66>>, CR), LF)
      BY <2>1, ConcatPair DEF Banner, NewLine
    <2>3. Append(Append(<<66>>, CR), LF) = <<66, CR, LF>>
      <3>1. 66 \in Char /\ CR \in Char /\ LF \in Char
        BY CharFacts
      <3>2. Append(<<66>>, CR) = <<66, CR>> /\ Append(<<66, CR>>, LF) = <<66, CR, LF>>
        BY <3>1, TupleAppend
      <3>3. QED
        BY <3>2
    <2>4. b = <<66, 13, 10>>
      BY <2>2, <2>3 DEF CR, LF
    <2> HIDE DEF b
    <2>5. QED
      BY <2>4
  <1>2. /\ Len(s \o t) = Len(s) + Len(t)
        /\ \A i \in 1..(Len(s) + Len(t)) : (s \o t)[i] = IF i <= Len(s) THEN s[i] ELSE t[i - Len(s)]
    BY ConcatProperties
  <1>3. s \o t = b /\ Len(s) \in Nat /\ Len(t) \in Nat
    OBVIOUS
  <1> HIDE DEF b
  <1>4. Len(s) + Len(t) = 3
    BY <1>1, <1>2, <1>3
  <1>5. \A i \in 1..3 : i <= Len(s) => s[i] = b[i]
    BY <1>2, <1>3, <1>4
  <1>6. Len(s) \in 0..3
    <2> DEFINE k == Len(s)
               m == Len(t)
    <2>1. k \in Nat /\ m \in Nat /\ k + m = 3
      BY <1>3, <1>4
    <2> HIDE DEF k, m
    <2>2. k \in 0..3
      BY <2>1
    <2>3. QED
      BY <2>2 DEF k
  <1>7. CASE Len(s) = 0
    BY <1>7
  <1>8. CASE Len(s) = 1
    <2>1. s[1] = 66
      BY <1>1, <1>5, <1>8
    <2>2. s = <<66>>
      BY <1>8, <2>1
    <2>3. QED
      BY <2>2
  <1>9. CASE Len(s) = 2
    <2>1. s[1] = 66 /\ s[2] = 13
      BY <1>1, <1>5, <1>9
    <2>2. s = <<66, 13>>
      BY <1>9, <2>1
    <2>3. QED
      BY <2>2
  <1>10. CASE Len(s) = 3
    <2>1. s[1] = 66 /\ s[2] = 13 /\ s[3] = 10
      BY <1>1, <1>5, <1>10
    <2>2. s = <<66, 13, 10>>
      BY <1>10, <2>1
    <2>3. QED
      BY <2>2
  <1>11. QED
    BY <1>6, <1>7, <1>8, <1>9, <1>10

\* The first character of a row.
LEMMA FirstOfRow ==
    ASSUME NEW s \in Seq(Char), NEW c \in Plain, NEW b \in Seq(Seq(Char)),
           Terminal(s) = [rows |-> Append(b, <<>>), col |-> 0]
    PROVE  s \o <<c>> \in Seq(Char) /\ Terminal(s \o <<c>>) = [rows |-> Append(b, <<c>>), col |-> 1]
  <1> DEFINE r == Append(b, <<>>)
             n == Len(r)
             w == Written(<<>>, 0, c)
             t == [rows |-> r, col |-> 0]
             q == [r EXCEPT ![n] = w]
  <1>1. c \in Char /\ <<>> \in Seq(Char) /\ <<c>> \in Seq(Char)
    BY DEF Plain
  <1>2. r \in Seq(Seq(Char)) /\ n = Len(b) + 1 /\ r[n] = <<>> /\ Len(b) \in Nat
        /\ \A k \in 1..Len(b) : r[k] = b[k]
    BY <1>1, AppendProperties
  <1>3. w = <<c>>
    <2>1. w \in Seq(Char) /\ Shows(w, 1) = c
      <3>1. w \in Seq(Char) /\ \A k \in Nat \ {0} : Shows(w, k) = IF k = 0 + 1 THEN c ELSE Shows(<<>>, k)
        BY <1>1, WrittenMeans, ZenonT(60)
      <3> HIDE DEF w
      <3>2. QED
        BY <3>1
    <2>2. Len(w) = 1
      <3>1. Len(w) = IF Len(<<>>) > 0 THEN Len(<<>>) ELSE 0 + 1
        BY <1>1, WrittenMeans
      <3> HIDE DEF w
      <3>2. QED
        BY <3>1
    <2> HIDE DEF w
    <2>3. w[1] = c
      BY <2>1, <2>2 DEF Shows
    <2>4. QED
      BY <2>1, <2>2, <2>3
  <1>4. t \in Term
    BY TerminalType
  <1>5. Terminal(s \o <<c>>) = Display(t, c) /\ s \o <<c>> \in Seq(Char)
    BY <1>1, OneMore, TerminalAppend
  <1>6. t.rows = r /\ t.col = 0
    OBVIOUS
  <1> HIDE DEF t, r
  <1>7. Display(t, c) = [rows |-> [t.rows EXCEPT ![Len(t.rows)] = Written(@, t.col, c)], col |-> t.col + 1]
    BY <1>1, <1>4, DisplayMeans
  <1>8. [t.rows EXCEPT ![Len(t.rows)] = Written(@, t.col, c)] = q
    BY <1>2, <1>6
  <1>9. q = Append(b, <<c>>)
    <2> DEFINE x == Append(b, <<c>>)
    <2>1. w \in Seq(Char) /\ n \in 1..n
      <3> HIDE DEF n, w
      <3>1. QED
        BY <1>1, <1>2, <1>3
    <2>2. x \in Seq(Seq(Char)) /\ Len(x) = n /\ x[n] = w /\ \A k \in 1..Len(b) : x[k] = b[k]
      BY <1>1, <1>2, <1>3, AppendProperties
    <2> HIDE DEF x, w
    <2>3. q \in Seq(Seq(Char)) /\ Len(q) = n /\ \A k \in 1..n : q[k] = IF k = n THEN w ELSE r[k]
      BY ONLY <1>2, <2>1, ExceptSeq
    <2> HIDE DEF q, n
    <2>4. ASSUME NEW k \in 1..n
          PROVE  q[k] = x[k]
      <3>1. q[k] = IF k = n THEN w ELSE r[k]
        BY <2>3
      <3>2. k # n => k \in 1..Len(b)
        BY <1>2
      <3>3. QED
        BY <1>2, <2>2, <3>1, <3>2
    <2>5. q = x
      BY ONLY <2>2, <2>3, <2>4, SeqEqual
    <2>6. QED
      BY <2>5 DEF x
  <1> HIDE DEF q
  <1>10. Display(t, c) = [rows |-> q, col |-> 1]
    BY <1>6, <1>7, <1>8
  <1>11. QED
    BY <1>5, <1>9, <1>10

\* What the second set-up of the UART may leave of the banner.
BannerPart == {<<>>, <<66>>, <<66, 13>>, <<66, 13, 10>>}

LEMMA BannerRows ==
    ASSUME NEW s \in BannerPart
    PROVE  Terminal(s).rows \in {<<<<>>>>, <<<<66>>>>, <<<<66>>, <<>>>>}
  <1> DEFINE one == <<66>>
             two == Append(one, CR)
  <1>1. 66 \in Plain /\ CR \in Char /\ LF \in Char /\ one \in Seq(Char) /\ two \in Seq(Char)
    <2>1. 66 \in Plain /\ CR \in Char /\ LF \in Char /\ 66 \in Char
      BY CharFacts DEF Plain, Char, BS, LF, CR
    <2>2. one \in Seq(Char)
      BY <2>1
    <2>3. QED
      BY <2>1, <2>2, AppendProperties
  <1>2. Terminal(one) = [rows |-> <<<<66>>>>, col |-> 1]
    <2> DEFINE e == <<>>
    <2>1. e \in Seq(Seq(Char)) /\ e \in Seq(Char) /\ Append(e, <<>>) = <<<<>>>> /\ Append(e, one) = <<one>>
      OBVIOUS
    <2>2. Terminal(e) = [rows |-> Append(e, <<>>), col |-> 0]
      BY <2>1, TerminalEmpty DEF Blank
    <2>3. e \o one = one
      BY <1>1
    <2> HIDE DEF e
    <2>4. Terminal(e \o <<66>>) = [rows |-> Append(e, <<66>>), col |-> 1]
      BY <1>1, <2>1, <2>2, FirstOfRow, ZenonT(60)
    <2>5. QED
      BY <2>1, <2>3, <2>4
  <1>3. Terminal(two).rows = <<<<66>>>>
    <2> DEFINE t == [rows |-> <<<<66>>>>, col |-> 1]
    <2>1. t \in Term
      BY <1>1, <1>2, TerminalType
    <2>2. Terminal(two) = Display(t, CR)
      BY <1>1, <1>2, TerminalAppend
    <2>3. Display(t, CR) = [t EXCEPT !.col = 0]
      BY ONLY <1>1, <2>1, DisplayMeans
    <2>4. [t EXCEPT !.col = 0].rows = <<<<66>>>>
      OBVIOUS
    <2> HIDE DEF t
    <2>5. QED
      BY <2>2, <2>3, <2>4
  <1>4. Terminal(Append(two, LF)).rows = <<<<66>>, <<>>>>
    <2>1. one \o NewLine = Append(two, LF)
      BY <1>1, ConcatPair DEF NewLine
    <2>2. Terminal(one \o NewLine).rows = Append(Terminal(one).rows, <<>>)
      <3>1. one \in Seq(Char)
        BY <1>1
      <3> HIDE DEF one
      <3>2. Terminal(one \o NewLine) = Line(Terminal(one))
        BY <3>1, LineMeans
      <3>3. QED
        BY <3>2 DEF Line
    <2>3. Append(<<<<66>>>>, <<>>) = <<<<66>>, <<>>>>
      <3>1. one \in Seq(Char) /\ <<>> \in Seq(Char)
        BY <1>1
      <3>2. Append(<<one>>, <<>>) = <<one, <<>>>>
        BY ONLY <3>1, TupleAppend
      <3>3. QED
        BY <3>2
    <2>4. Terminal(one).rows = <<<<66>>>>
      BY <1>2
    <2>5. QED
      BY <2>1, <2>2, <2>3, <2>4
  <1>5. two = <<66, 13>> /\ Append(two, LF) = <<66, 13, 10>>
    <2>1. 66 \in Char /\ CR \in Char /\ LF \in Char
      BY CharFacts
    <2>2. Append(<<66>>, CR) = <<66, CR>> /\ Append(<<66, CR>>, LF) = <<66, CR, LF>>
      BY <2>1, TupleAppend
    <2>3. QED
      BY <2>2 DEF CR, LF
  <1>6. Terminal(<<>>).rows = <<<<>>>>
    BY TerminalEmpty DEF Blank
  <1>7. CASE s = <<>>
    BY <1>6, <1>7
  <1>8. CASE s = <<66>>
    <2>1. Terminal(one).rows = <<<<66>>>>
      BY <1>2
    <2>2. QED
      BY <1>8, <2>1
  <1>9. CASE s = <<66, 13>>
    BY <1>3, <1>5, <1>9
  <1>10. CASE s = <<66, 13, 10>>
    BY <1>4, <1>5, <1>10
  <1>11. QED
    BY <1>7, <1>8, <1>9, <1>10 DEF BannerPart

\* Of the banner, a beginning arrives; the greeting has a row to itself.
LEMMA Greeting ==
    ASSUME NEW s \in Seq(Char), NEW t \in Seq(Char), s \o t = Banner
    PROVE  \E n \in {2, 3} : Alike(s \o Ready, <<>>, n)
  <1> DEFINE b == Terminal(s).rows
             n == Len(b) + 1
             a == s \o NewLine
             e == <<83>>
             d == a \o e
             x == NewLine \o e
             r == Append(b, e)
             q == Append(r, <<>>)
             v == [rows |-> q, col |-> 0]
  <1>0. NewLine \in Seq(Char) /\ e \in Seq(Char) /\ 83 \in Plain
    BY TextsType DEF Plain, Char, BS, LF, CR
  <1>1. b \in {<<<<>>>>, <<<<66>>>>, <<<<66>>, <<>>>>}
    BY BannerBegins, BannerRows DEF BannerPart
  <1>2. b \in Seq(Seq(Char)) /\ <<>> \in Seq(Char)
    BY TerminalType DEF Term
  <1>3. n \in {2, 3} /\ \A k \in 1..(n - 1) : b[k] \in {<<>>, <<66>>}
    <2> HIDE DEF b
    <2>1. CASE b = <<<<>>>>
      BY <2>1
    <2>2. CASE b = <<<<66>>>>
      BY <2>2
    <2>3. CASE b = <<<<66>>, <<>>>>
      <3>1. Len(b) = 2 /\ b[1] = <<66>> /\ b[2] = <<>>
        BY <2>3
      <3>2. n = 3
        BY <3>1
      <3>3. \A k \in 1..(n - 1) : k = 1 \/ k = 2
        BY <3>2
      <3>4. QED
        BY <3>1, <3>2, <3>3
    <2>4. QED
      BY <1>1, <2>1, <2>2, <2>3
  <1>4. a \in Seq(Char) /\ Terminal(a) = [rows |-> Append(b, <<>>), col |-> 0]
    BY LineMeans DEF Line
  <1> HIDE DEF a, b
  <1>5. d \in Seq(Char) /\ Terminal(d) = [rows |-> r, col |-> 1]
    BY <1>0, <1>2, <1>4, FirstOfRow
  <1>6. s \o Ready = d \o NewLine
    <2>1. x \in Seq(Char)
      BY <1>0
    <2>2. s \o x = d
      <3>0. s \in Seq(Char) /\ NewLine \in Seq(Char) /\ e \in Seq(Char)
        BY <1>0
      <3> HIDE DEF e
      <3>1. s \o (NewLine \o e) = (s \o NewLine) \o e
        BY ONLY <3>0, Regroup
      <3>2. QED
        BY <3>1 DEF a
    <2>3. Ready = x \o NewLine
      BY DEF Ready
    <2> HIDE DEF x, e, d
    <2>4. s \o (x \o NewLine) = (s \o x) \o NewLine
      <3>1. s \in Seq(Char) /\ NewLine \in Seq(Char)
        BY <1>0
      <3>2. QED
        BY ONLY <2>1, <3>1, Regroup
    <2>5. QED
      BY <2>2, <2>3, <2>4
  <1> HIDE DEF d
  <1>7. Terminal(d \o NewLine) = v
    <2>1. Terminal(d \o NewLine) = Line(Terminal(d))
      BY <1>5, LineMeans
    <2> HIDE DEF r
    <2>2. QED
      BY <1>5, <2>1 DEF Line
  <1>8. /\ Len(q) = n + 1 /\ q[n] = e /\ q[n + 1] = <<>>
        /\ \A k \in 1..(n - 1) : q[k] = b[k]
    <2>1. r \in Seq(Seq(Char)) /\ Len(r) = Len(b) + 1 /\ r[Len(b) + 1] = e
          /\ \A k \in 1..Len(b) : r[k] = b[k]
      BY <1>0, <1>2, AppendProperties
    <2> HIDE DEF r
    <2>2. Len(q) = Len(r) + 1 /\ q[Len(r) + 1] = <<>> /\ \A k \in 1..Len(r) : q[k] = r[k]
      BY <1>2, <2>1, AppendProperties
    <2>3. Len(b) \in Nat
      BY <1>2
    <2>4. n = Len(b) + 1
      OBVIOUS
    <2> HIDE DEF q, n
    <2>5. n \in 1..Len(r) /\ \A k \in 1..(n - 1) : k \in 1..Len(b) /\ k \in 1..Len(r)
      BY <2>1, <2>3, <2>4
    <2>6. Len(q) = n + 1 /\ q[n] = e /\ q[n + 1] = <<>>
      BY <2>1, <2>2, <2>4, <2>5
    <2>7. \A k \in 1..(n - 1) : q[k] = b[k]
      BY <2>1, <2>2, <2>5
    <2>8. QED
      BY <2>6, <2>7
  <1> HIDE DEF q, n
  <1>9. Heading(v, n)
    <2>1. v.rows = q
      OBVIOUS
    <2> HIDE DEF v
    <2>2. n < Len(v.rows)
      BY <1>3, <1>8, <2>1
    <2>3. v.rows[n] = <<83>> /\ \A k \in 1..(n - 1) : v.rows[k] \in {<<>>, <<66>>}
      BY <1>3, <1>8, <2>1
    <2>4. QED
      BY <2>2, <2>3 DEF Heading
  <1>10. Matches(v, Blank, n)
    <2>1. SameRow(<<>>, <<>>)
      BY DEF SameRow
    <2>2. Len(Blank.rows) = 1 /\ Blank.rows[1] = <<>> /\ Blank.col = 0
      BY DEF Blank
    <2>3. QED
      BY <1>3, <1>8, <2>1, <2>2 DEF Matches
  <1>11. Alike(s \o Ready, <<>>, n)
    BY <1>6, <1>7, <1>9, <1>10, TerminalEmpty DEF Alike
  <1>12. QED
    BY <1>3, <1>11

-----------------------------------------------------------------------------
(* The banner, and what a step does to the transcript.                       *)

LEMMA BannerKept ==
    ASSUME TypeInv, BannerInv, [Next]_vars
    PROVE  BannerInv'
  <1>0. /\ screen \in Seq(Char) /\ tx \in Seq(Char) /\ pend \in Seq(Char)
    BY DEF TypeInv
  <1>1. CASE TxDone \/ Putc
    <2>1. Shown' = Shown
      BY <1>1, ShownStays
    <2>2. pc' = pc /\ log' = log
      BY <1>1 DEF TxDone, Putc
    <2>3. QED
      BY <2>1, <2>2 DEF BannerInv
  <1>2. CASE UNCHANGED vars \/ \E c \in CHARS : PressKey(c)
    <2>1. pc' = pc /\ log' = log /\ screen' = screen /\ tx' = tx /\ pend' = pend
      BY <1>2 DEF PressKey
    <2>2. QED
      BY <2>1 DEF BannerInv, Shown
  <1>3. CASE AppRun \/ ShowPrompt \/ LineTaken \/ EndOfLine \/ Erase \/ Store \/ Full
    <2>1. pc' # "banner"
      BY <1>3 DEF AppRun, ShowPrompt, LineTaken, EndOfLine, Erase, Store, Full, Getc
    <2>2. QED
      BY <2>1 DEF BannerInv
  <1>4. QED
    BY <1>1, <1>2, <1>3 DEF Next, Firmware

LEMMA PastStays ==
    ASSUME log' = log
    PROVE  Past(AsCoded)' = Past(AsCoded)
  BY DEF Past, Entered, Echo, End, Answer, AsCoded

\* A line that is taken adds its page, and the page ends in a line feed.
LEMMA PastGrows ==
    ASSUME TypeInv, TypeInv', LineTaken
    PROVE  /\ Past(AsCoded)' = (Past(AsCoded) \o Entered(AsCoded, buf)) \o Answer(Verdict)
           /\ Fresh(Terminal(Past(AsCoded)'))
  <1> DEFINE e == [text |-> buf, verdict |-> Verdict]
             p == Entered(AsCoded, buf) \o Answer(Verdict)
  <1>1. log' = Append(log, e)
    BY DEF LineTaken
  <1>2. e \in [text : Seq(Typed), verdict : {"empty", "ran", "error"}]
    BY VerdictType DEF TypeInv
  <1>3. log \in Seq([text : Seq(Typed), verdict : {"empty", "ran", "error"}])
    BY DEF TypeInv
  <1>4. e.text = buf /\ e.verdict = Verdict
    OBVIOUS
  <1> HIDE DEF e
  <1>5. /\ Len(log') = Len(log) + 1 /\ Len(log) \in Nat
        /\ log'[Len(log) + 1] = e
        /\ \A k \in 1..Len(log) : log'[k] = log[k]
    BY <1>1, <1>2, <1>3, AppendProperties
  <1>6. Pages \in Seq(Seq(Char)) /\ Past(AsCoded) = FlattenSeq(Pages) /\ Past(AsCoded) \in Seq(Char) /\ buf \in Seq(Char)
    BY PastType
  <1>7. Entered(AsCoded, buf) \in Seq(Char) /\ Answer(Verdict) \in Seq(Char)
    BY <1>6, TextsType
  <1>8. p \in Seq(Char)
    BY <1>7
  <1> DEFINE q == [k \in 1..Len(log') |-> Entered(AsCoded, log'[k].text) \o Answer(log'[k].verdict)]
             r == Append(Pages, p)
  <1>9. Past(AsCoded)' = FlattenSeq(q)
    BY DEF Past, Entered, Echo, End, Answer, AsCoded
  <1>10. q = r
    <2>1. Len(Pages) = Len(log) /\ \A k \in 1..Len(log) : Pages[k] = Page(k)
      BY <1>5, <1>6 DEF Pages
    <2>2. /\ r \in Seq(Seq(Char)) /\ Len(r) = Len(Pages) + 1
          /\ \A k \in 1..Len(Pages) : r[k] = Pages[k]
          /\ r[Len(Pages) + 1] = p
      BY <1>6, <1>8, AppendProperties
    <2> HIDE DEF r
    <2>3. ASSUME NEW k \in 1..Len(log')
          PROVE  q[k] = r[k]
      <3>1. q[k] = Entered(AsCoded, log'[k].text) \o Answer(log'[k].verdict)
        OBVIOUS
      <3>2. CASE k = Len(log) + 1
        BY <1>4, <1>5, <2>1, <2>2, <3>1, <3>2
      <3>3. CASE k \in 1..Len(log)
        BY <1>5, <2>1, <2>2, <3>1, <3>3 DEF Page
      <3>4. QED
        BY <1>5, <3>2, <3>3
    <2>4. q \in Seq(Seq(Char)) /\ Len(q) = Len(r)
      <3>1. Len(log') \in Nat /\ Len(log') = Len(r)
        BY <1>5, <2>1, <2>2
      <3>2. \A k \in 1..Len(log') : q[k] \in Seq(Char)
        <4>1. \A k \in 1..Len(r) : r[k] \in Seq(Char)
          BY <2>2
        <4>2. QED
          BY <2>3, <3>1, <4>1
      <3>3. q = [k \in 1..Len(log') |-> q[k]]
        OBVIOUS
      <3> HIDE DEF q
      <3>4. QED
        BY <3>1, <3>2, <3>3
    <2>5. \A k \in 1..Len(q) : q[k] = r[k]
      <3>1. Len(log') = Len(q)
        BY <1>5, <2>1, <2>2, <2>4
      <3> HIDE DEF q
      <3>2. QED
        BY <2>3, <3>1
    <2> HIDE DEF q
    <2>6. QED
      BY <2>2, <2>4, <2>5, SeqEqual
  <1>11. FlattenSeq(r) = FlattenSeq(Pages) \o p
    BY <1>6, <1>8, FlattenAppend
  <1>12. Past(AsCoded) \o p = (Past(AsCoded) \o Entered(AsCoded, buf)) \o Answer(Verdict)
    BY <1>6, <1>7, Regroup
  <1>13. Fresh(Terminal(Past(AsCoded) \o p))
    BY <1>6, VerdictType, FreshPage
  <1> HIDE DEF q, r, p
  <1>14. QED
    BY <1>6, <1>9, <1>10, <1>11, <1>12, <1>13

-----------------------------------------------------------------------------
(* The screen, one action at a time.                                         *)

LEMMA ScreenMeans ==
    ScreenInv <=> /\ Fresh(Terminal(Past(AsCoded)))
                  /\ pc # "banner" => \E n \in {2, 3} : Alike(Shown, Transcript(AsCoded), n)
  BY DEF ScreenInv, Alike

\* It is enough to say what the printed text and the transcript become.
LEMMA ScreenNext ==
    ASSUME NEW n \in {2, 3}, NEW s, NEW u, Shown' = s, Transcript(AsCoded)' = u, Alike(s, u, n),
           Fresh(Terminal(Past(AsCoded)'))
    PROVE  ScreenInv'
  <1>1. Heading(Terminal(s), n) /\ Matches(Terminal(s), Terminal(u), n)
    BY DEF Alike
  <1>2. Heading(Terminal(Shown'), n) /\ Matches(Terminal(Shown'), Terminal(Transcript(AsCoded)'), n)
    BY <1>1
  <1>3. QED
    BY <1>2 DEF ScreenInv

LEMMA GreetingKept ==
    ASSUME TypeInv, BannerInv, ScreenInv, AppRun
    PROVE  ScreenInv'
  <1>1. /\ screen \in Seq(Char) /\ tx \in Seq(Char) /\ Ready \in Seq(Char)
    BY TextsType DEF TypeInv
  <1>2. pend = <<>> /\ log = <<>> /\ screen \o tx \o pend = Banner
    BY DEF BannerInv, AppRun, Shown
  <1>3. screen \o tx = Banner
    <2> DEFINE a == screen \o tx
    <2>1. a \in Seq(Char) /\ a \o pend = Banner
      BY <1>1, <1>2
    <2> HIDE DEF a
    <2>2. a \o <<>> = a
      BY <2>1
    <2>3. a = Banner
      BY <1>2, <2>1, <2>2
    <2>4. QED
      BY <2>3 DEF a
  <1>4. PICK n \in {2, 3} : Alike(screen \o Ready, <<>>, n)
    BY <1>1, <1>3, Greeting
  <1>5. Shown' = screen \o Ready
    <2>1. Shown' = (screen \o <<>>) \o Ready
      BY DEF Shown, AppRun, UartInit
    <2>2. QED
      BY <1>1, <2>1
  <1>6. log' = log /\ pc' = "prompt"
    BY DEF AppRun
  <1>7. Past(AsCoded)' = Past(AsCoded)
    BY <1>6, PastStays
  <1>8. Past(AsCoded) = <<>>
    <2>1. Pages = <<>>
      BY <1>2 DEF Pages
    <2>2. QED
      BY <2>1, PastType, FlattenEmpty
  <1>9. Transcript(AsCoded)' = <<>>
    <2>1. Transcript(AsCoded)' = Past(AsCoded)' \o <<>>
      BY <1>6 DEF Transcript, Echo, AsCoded
    <2>2. QED
      BY <1>7, <1>8, <2>1
  <1>10. Fresh(Terminal(Past(AsCoded)'))
    BY <1>7 DEF ScreenInv
  <1>11. QED
    BY <1>4, <1>5, <1>9, <1>10, ScreenNext

LEMMA PromptKept ==
    ASSUME TypeInv, TypeInv', ScreenInv, ShowPrompt
    PROVE  ScreenInv'
  <1>1. /\ pc = "prompt" /\ pend = <<>> /\ screen' = screen /\ tx' = tx /\ pend' = Prompt
        /\ log' = log /\ buf' = <<>> /\ pc' = "read"
    BY DEF ShowPrompt
  <1>2. Shown \in Seq(Char) /\ Transcript(AsCoded) \in Seq(Char) /\ Past(AsCoded) \in Seq(Char) /\ Prompt \in Seq(Char)
    BY PastType, TextsType
  <1>3. PICK n \in {2, 3} : Alike(Shown, Transcript(AsCoded), n)
    BY <1>1, ScreenMeans
  <1>4. Alike(Shown \o Prompt, Transcript(AsCoded) \o Prompt, n)
    BY <1>2, <1>3, AlikePrompt
  <1>5. Shown' = Shown \o Prompt
    BY <1>1, <1>2, ShownMore
  <1>6. Past(AsCoded)' = Past(AsCoded)
    BY <1>1, PastStays
  <1>7. Transcript(AsCoded) = Past(AsCoded)
    <2>1. Transcript(AsCoded) = Past(AsCoded) \o <<>>
      BY <1>1 DEF Transcript, Echo, AsCoded
    <2>2. QED
      BY <1>2, <2>1
  <1>8. Transcript(AsCoded)' = Transcript(AsCoded) \o Prompt
    <2>1. Transcript(AsCoded)' = Past(AsCoded)' \o (Prompt \o <<>>)
      BY <1>1 DEF Transcript, Echo, AsCoded
    <2>2. Prompt \o <<>> = Prompt
      BY <1>2
    <2>3. QED
      BY <1>6, <1>7, <2>1, <2>2
  <1>9. Fresh(Terminal(Past(AsCoded)'))
    BY <1>6 DEF ScreenInv
  <1>10. QED
    BY <1>4, <1>5, <1>8, <1>9, ScreenNext

\* What the transcript shows of the line being typed.
LEMMA Typing ==
    ASSUME TypeInv, pc = "read"
    PROVE  Transcript(AsCoded) = (Past(AsCoded) \o Prompt) \o buf /\ Past(AsCoded) \o Prompt \in Seq(Char)
  <1>1. Past(AsCoded) \in Seq(Char) /\ Prompt \in Seq(Char) /\ buf \in Seq(Char)
    BY PastType, TextsType
  <1>2. Transcript(AsCoded) = Past(AsCoded) \o (Prompt \o buf)
    BY DEF Transcript, Echo, AsCoded
  <1>3. QED
    BY <1>1, <1>2, Regroup

\* Concatenation as a symbol the provers do not look into.
Cat(x, y) == x \o y

LEMMA CatMeans ==
    ASSUME NEW a \in Seq(Char), NEW b \in Seq(Char), NEW c \in Seq(Char)
    PROVE  Cat(a, b) \in Seq(Char) /\ Cat(a, Cat(b, c)) = Cat(Cat(a, b), c)
  <1>1. a \o (b \o c) = (a \o b) \o c /\ a \o b \in Seq(Char)
    BY Regroup
  <1>2. QED
    BY <1>1 DEF Cat

LEMMA CatFour ==
    ASSUME NEW a \in Seq(Char), NEW b \in Seq(Char), NEW c \in Seq(Char), NEW d \in Seq(Char)
    PROVE  Cat(a, Cat(b, Cat(c, d))) = Cat(Cat(Cat(a, b), c), d)
  BY CatMeans

LEMMA StoreKept ==
    ASSUME TypeInv, TypeInv', ScreenInv, Store
    PROVE  ScreenInv'
  <1>1. PICK c \in Typed : /\ pc = "read" /\ pend = <<>> /\ screen' = screen /\ tx' = tx
                           /\ pend' = <<c>> /\ log' = log /\ buf' = Append(buf, c) /\ pc' = "read"
    BY DEF Store, Getc, Typed
  <1>2. c \in Plain /\ c \in Char
    BY TypedIsPlain
  <1>3. /\ Shown \in Seq(Char) /\ Transcript(AsCoded) \in Seq(Char) /\ Past(AsCoded) \in Seq(Char) /\ Prompt \in Seq(Char)
        /\ buf \in Seq(Char)
    BY PastType, TextsType
  <1>4. PICK n \in {2, 3} : Alike(Shown, Transcript(AsCoded), n)
    BY <1>1, ScreenMeans
  <1>5. Alike(Shown \o <<c>>, Transcript(AsCoded) \o <<c>>, n)
    BY <1>2, <1>3, <1>4, AlikeChar
  <1>6. Shown' = Shown \o <<c>>
    <2>1. <<c>> \in Seq(Char)
      BY <1>2
    <2>2. QED
      BY <1>1, <2>1, ShownMore
  <1>7. Past(AsCoded)' = Past(AsCoded)
    BY <1>1, PastStays
  <1>8. Transcript(AsCoded)' = Transcript(AsCoded) \o <<c>>
    <2> DEFINE e == <<c>>
               b == buf \o e
    <2>1. Append(buf, c) = b /\ e \in Seq(Char) /\ b \in Seq(Char)
      BY <1>2, <1>3, OneMore
    <2>2. Transcript(AsCoded)' = Past(AsCoded)' \o (Prompt \o buf')
      BY <1>1 DEF Transcript, Echo, AsCoded
    <2> HIDE DEF e
    <2>3. Transcript(AsCoded)' = Past(AsCoded) \o (Prompt \o b)
      BY <1>1, <1>7, <2>1, <2>2
    <2>5. Past(AsCoded) \o (Prompt \o (buf \o e)) = ((Past(AsCoded) \o Prompt) \o buf) \o e
      <3>1. Past(AsCoded) \in Seq(Char) /\ Prompt \in Seq(Char) /\ buf \in Seq(Char) /\ e \in Seq(Char)
        BY <1>3, <2>1
      <3>2. Cat(Past(AsCoded), Cat(Prompt, Cat(buf, e))) = Cat(Cat(Cat(Past(AsCoded), Prompt), buf), e)
        BY ONLY <3>1, CatFour
      <3>3. QED
        BY <3>2 DEF Cat
    <2>6. Transcript(AsCoded) = (Past(AsCoded) \o Prompt) \o buf
      BY <1>1, Typing
    <2>7. QED
      BY <2>3, <2>5, <2>6 DEF e
  <1>9. Fresh(Terminal(Past(AsCoded)'))
    BY <1>7 DEF ScreenInv
  <1>10. QED
    BY <1>5, <1>6, <1>8, <1>9, ScreenNext

LEMMA EraseKept ==
    ASSUME TypeInv, TypeInv', ScreenInv, Erase
    PROVE  ScreenInv'
  <1>1. /\ pc = "read" /\ pend = <<>> /\ screen' = screen /\ tx' = tx /\ log' = log /\ pc' = "read"
        /\ buf' = IF buf = <<>> THEN <<>> ELSE Front(buf)
        /\ pend' = IF buf = <<>> THEN <<>> ELSE <<BS, 32, BS>>
    BY DEF Erase, Getc
  <1>2. /\ Shown \in Seq(Char) /\ Transcript(AsCoded) \in Seq(Char) /\ Past(AsCoded) \in Seq(Char) /\ Prompt \in Seq(Char)
        /\ buf \in Seq(Char) /\ buf \in Seq(Plain)
    BY PastType, TextsType
  <1>3. PICK n \in {2, 3} : Alike(Shown, Transcript(AsCoded), n)
    BY <1>1, ScreenMeans
  <1>4. Past(AsCoded)' = Past(AsCoded)
    BY <1>1, PastStays
  <1>5. Fresh(Terminal(Past(AsCoded)'))
    BY <1>4 DEF ScreenInv
  <1>6. CASE buf = <<>>
    <2>1. Shown' = Shown
      BY <1>1, <1>6 DEF Shown
    <2>2. Transcript(AsCoded)' = Transcript(AsCoded)
      BY <1>1, <1>4, <1>6 DEF Transcript, Echo, AsCoded
    <2>3. QED
      BY <1>3, <1>5, <2>1, <2>2, ScreenNext
  <1>7. CASE buf # <<>>
    <2> DEFINE f == Front(buf)
               l == Last(buf)
               e == <<l>>
               u == Cat(Cat(Past(AsCoded), Prompt), f)
               w == <<BS, 32, BS>>
    <2>1. f \in Seq(Plain) /\ l \in Plain /\ buf = f \o e
      BY <1>2, <1>7, FrontLast
    <2>2. l \in Char /\ f \in Seq(Char)
      BY <2>1, TypedIsPlain, SubSeqType
    <2>3. buf' = f /\ pend' = w
      BY <1>1, <1>7
    <2>4. e \in Seq(Char)
      BY <2>2
    <2>5. w \in Seq(Char)
      BY CharFacts
    <2> HIDE DEF f, l, e, u, w
    <2>6. Cat(Past(AsCoded), Prompt) \in Seq(Char) /\ AtEnd(Terminal(Cat(Past(AsCoded), Prompt)))
      <3>1. Prompt \in Seq(Plain)
        BY DEF Prompt, Plain, Char, BS, LF, CR
      <3>2. AtEnd(Terminal(Past(AsCoded)))
        BY FreshAtEnd DEF ScreenInv
      <3>3. QED
        BY <1>2, <3>1, <3>2, TextAtEnd DEF Cat
    <2>7. u \in Seq(Char) /\ AtEnd(Terminal(u))
      <3>1. Cat(Past(AsCoded), Prompt) \o f \in Seq(Char) /\ AtEnd(Terminal(Cat(Past(AsCoded), Prompt) \o f))
        BY <2>1, <2>6, TextAtEnd
      <3>2. QED
        BY <3>1 DEF u, Cat
    <2>8. Len(Last(Terminal(u).rows)) <= Terminal(u).col
      <3>1. Terminal(u).col \in Nat
        BY <2>7, TerminalType DEF Term
      <3>2. QED
        BY <2>7, <3>1 DEF AtEnd
    <2>9. Transcript(AsCoded) = u \o e
      <3>1. Transcript(AsCoded) = Cat(Past(AsCoded), Cat(Prompt, Cat(f, e)))
        BY <1>1, <2>1 DEF Transcript, Cat, Echo, AsCoded
      <3>2. Cat(Past(AsCoded), Cat(Prompt, Cat(f, e))) = Cat(Cat(Cat(Past(AsCoded), Prompt), f), e)
        BY <1>2, <2>2, <2>4, CatFour
      <3>3. QED
        BY <3>1, <3>2 DEF u, Cat
    <2>10. Transcript(AsCoded)' = u
      <3>1. Transcript(AsCoded)' = Cat(Past(AsCoded), Cat(Prompt, f))
        BY <1>1, <1>4, <2>3 DEF Transcript, Cat, Echo, AsCoded
      <3>2. Cat(Past(AsCoded), Cat(Prompt, f)) = Cat(Cat(Past(AsCoded), Prompt), f)
        BY <1>2, <2>2, CatMeans
      <3>3. QED
        BY <3>1, <3>2 DEF u
    <2>11. Shown' = Shown \o w
      BY <1>1, <2>3, <2>5, ShownMore
    <2>12. Alike(Shown, u \o <<l>>, n)
      BY <1>3, <2>9 DEF e
    <2>13. Alike(Shown \o <<BS, 32, BS>>, u, n)
      <3>1. n \in Nat \ {0} /\ Shown \in Seq(Char) /\ u \in Seq(Char) /\ l \in Plain
        BY <1>2, <2>1, <2>7
      <3>2. QED
        BY ONLY <2>8, <2>12, <3>1, AlikeErase
    <2>14. Alike(Shown \o w, u, n)
      BY <2>13 DEF w
    <2>15. QED
      BY <1>5, <2>10, <2>11, <2>14, ScreenNext
  <1>8. QED
    BY <1>6, <1>7

\* The line a full buffer ends is not broken; any other is, by its own line feed.
LEMMA LineEndKept ==
    ASSUME TypeInv, TypeInv', ScreenInv, EndOfLine \/ Full
    PROVE  ScreenInv'
  <1>1. /\ pc = "read" /\ pend = <<>> /\ screen' = screen /\ tx' = tx /\ log' = log /\ pc' = "got"
        /\ buf' = buf
    BY DEF EndOfLine, Full, Getc
  <1>2. /\ Shown \in Seq(Char) /\ Transcript(AsCoded) \in Seq(Char) /\ Past(AsCoded) \in Seq(Char) /\ Prompt \in Seq(Char)
        /\ buf \in Seq(Char) /\ NewLine \in Seq(Char)
    BY PastType, TextsType
  <1>3. PICK n \in {2, 3} : Alike(Shown, Transcript(AsCoded), n)
    BY <1>1, ScreenMeans
  <1>4. Past(AsCoded)' = Past(AsCoded)
    BY <1>1, PastStays
  <1>5. Fresh(Terminal(Past(AsCoded)'))
    BY <1>4 DEF ScreenInv
  <1>6. Entered(AsCoded, buf)' = Entered(AsCoded, buf)
    BY <1>1 DEF Entered, Echo, End, AsCoded
  <1>7. Transcript(AsCoded) = Cat(Past(AsCoded), Cat(Prompt, buf)) /\ Transcript(AsCoded)' = Cat(Past(AsCoded), Entered(AsCoded, buf))
    BY <1>1, <1>4, <1>6 DEF Transcript, Cat, Echo, AsCoded
  <1>8. Len(buf) <= LINE_MAX /\ Len(buf) \in Nat /\ LINE_MAX \in Nat
    BY DepthAssumption DEF TypeInv, TypeOK
  <1>9. CASE EndOfLine
    <2>1. pend' = NewLine /\ Len(buf) # LINE_MAX
      BY <1>8, <1>9 DEF EndOfLine, Getc, Room
    <2>2. Entered(AsCoded, buf) = Cat(Cat(Prompt, buf), NewLine)
      <3>1. Entered(AsCoded, buf) = (Prompt \o buf) \o NewLine
        BY <2>1 DEF Entered, Echo, End, AsCoded
      <3>2. QED
        BY <3>1 DEF Cat
    <2>3. Cat(Past(AsCoded), Cat(Cat(Prompt, buf), NewLine)) = Cat(Cat(Past(AsCoded), Cat(Prompt, buf)), NewLine)
      BY <1>2, CatMeans
    <2>4. Transcript(AsCoded)' = Transcript(AsCoded) \o NewLine
      BY <1>7, <2>2, <2>3 DEF Cat
    <2>5. Shown' = Shown \o NewLine
      BY <1>1, <1>2, <2>1, ShownMore
    <2>6. Alike(Shown \o NewLine, Transcript(AsCoded) \o NewLine, n)
      BY <1>2, <1>3, AlikeLine
    <2>7. QED
      BY <1>5, <2>4, <2>5, <2>6, ScreenNext
  <1>10. CASE Full
    <2>1. pend' = pend /\ Len(buf) = LINE_MAX
      BY <1>8, <1>10 DEF Full, Room
    <2>2. Shown' = Shown
      BY <1>1, <2>1 DEF Shown
    <2>3. Entered(AsCoded, buf) = Cat(Prompt, buf)
      <3>1. Entered(AsCoded, buf) = Prompt \o (buf \o <<>>)
        BY <2>1 DEF Entered, Echo, End, AsCoded
      <3>2. buf \o <<>> = buf
        BY <1>2
      <3>3. QED
        BY <3>1, <3>2 DEF Cat
    <2>4. Transcript(AsCoded)' = Transcript(AsCoded)
      BY <1>7, <2>3
    <2>5. QED
      BY <1>3, <1>5, <2>2, <2>4, ScreenNext
  <1>11. QED
    BY <1>9, <1>10

LEMMA TakenKept ==
    ASSUME TypeInv, TypeInv', ScreenInv, LineTaken
    PROVE  ScreenInv'
  <1> DEFINE a == Answer(Verdict)
  <1>1. /\ pc = "got" /\ pend = <<>> /\ screen' = screen /\ tx' = tx /\ pc' = "prompt"
        /\ pend' = a
    BY DEF LineTaken
  <1>2. /\ Shown \in Seq(Char) /\ Transcript(AsCoded) \in Seq(Char) /\ Past(AsCoded) \in Seq(Char) /\ a \in Seq(Char)
    BY PastType, TextsType
  <1> HIDE DEF a
  <1>3. PICK n \in {2, 3} : Alike(Shown, Transcript(AsCoded), n)
    BY <1>1, ScreenMeans
  <1>4. Past(AsCoded)' = (Past(AsCoded) \o Entered(AsCoded, buf)) \o a /\ Fresh(Terminal(Past(AsCoded)'))
    BY PastGrows DEF a
  <1>5. Transcript(AsCoded) = Past(AsCoded) \o Entered(AsCoded, buf)
    BY <1>1 DEF Transcript, Echo, AsCoded
  <1>6. Past(AsCoded)' = Transcript(AsCoded) \o a
    BY <1>4, <1>5
  <1>7. Transcript(AsCoded)' = Transcript(AsCoded) \o a
    <2>1. Transcript(AsCoded)' = Past(AsCoded)' \o <<>>
      BY <1>1 DEF Transcript, Echo, AsCoded
    <2> DEFINE u == Transcript(AsCoded) \o a
    <2>2. u \in Seq(Char)
      BY <1>2
    <2> HIDE DEF u
    <2>3. u \o <<>> = u
      BY <2>2
    <2>4. QED
      BY <1>6, <2>1, <2>3 DEF u
  <1>8. Shown' = Shown \o a
    BY <1>1, <1>2, ShownMore
  <1>9. Alike(Shown \o a, Transcript(AsCoded) \o a, n)
    BY <1>2, <1>3, AlikeAnswer DEF a
  <1>10. QED
    BY <1>4, <1>7, <1>8, <1>9, ScreenNext

LEMMA ScreenKept ==
    ASSUME TypeInv, TypeInv', BannerInv, ScreenInv, [Next]_vars
    PROVE  ScreenInv'
  <1>1. CASE AppRun
    BY <1>1, GreetingKept
  <1>2. CASE ShowPrompt
    BY <1>2, PromptKept
  <1>3. CASE Store
    BY <1>3, StoreKept
  <1>4. CASE Erase
    BY <1>4, EraseKept
  <1>5. CASE EndOfLine \/ Full
    BY <1>5, LineEndKept
  <1>6. CASE LineTaken
    BY <1>6, TakenKept
  <1>7. CASE Putc \/ TxDone \/ UNCHANGED vars \/ \E c \in CHARS : PressKey(c)
    <2>1. pc' = pc /\ log' = log /\ buf' = buf
      BY <1>7 DEF Putc, TxDone, PressKey
    <2>2. Shown' = Shown
      <3>1. CASE Putc \/ TxDone
        BY <3>1, ShownStays
      <3>2. CASE UNCHANGED vars \/ \E c \in CHARS : PressKey(c)
        BY <3>2 DEF Shown, PressKey
      <3>3. QED
        BY <1>7, <3>1, <3>2
    <2>3. Past(AsCoded)' = Past(AsCoded)
      BY <2>1, PastStays
    <2>4. Transcript(AsCoded)' = Transcript(AsCoded)
      BY <2>1, <2>3 DEF Transcript, Entered, Echo, End, AsCoded
    <2>5. QED
      BY <2>1, <2>2, <2>3, <2>4 DEF ScreenInv
  <1>8. QED
    BY <1>1, <1>2, <1>3, <1>4, <1>5, <1>6, <1>7 DEF Next, Firmware

-----------------------------------------------------------------------------
(* What matches below its heading shows the same session.                    *)

\* Trimming leaves a row alone that does not end in a blank.
LEMMA TrimmedFull ==
    ASSUME NEW row \in Seq(Char), row = <<>> \/ row[Len(row)] # 32
    PROVE  Trimmed(row) = row
  <1> DEFINE I == {k \in 1..Len(row) : row[k] # 32}
             m == IF I # {} THEN Max(I) ELSE 0
  <1>1. Trimmed(row) = SubSeq(row, 1, m)
    BY DEF Trimmed, SelectLastInSeq
  <1>2. Len(row) \in Nat
    OBVIOUS
  <1>3. m = Len(row)
    <2>1. CASE row = <<>>
      <3>1. Len(row) = 0
        BY <2>1
      <3>2. I = {}
        BY <3>1
      <3>3. QED
        BY <3>1, <3>2
    <2>2. CASE row # <<>>
      <3>1. Len(row) \in I /\ I \in SUBSET (1..Len(row))
        BY <1>2, <2>2
      <3> HIDE DEF I
      <3>2. Max(I) = Len(row)
        BY <1>2, <3>1, MaxIsLast
      <3>3. QED
        BY <3>1, <3>2
    <2>3. QED
      BY <2>1, <2>2
  <1> HIDE DEF m
  <1>4. QED
    BY <1>1, <1>3, SubSeqFull

\* The first row of its kind is the one SelectInSeq finds.
Where(r, x) == LET I == {i \in 1..Len(r) : r[i] = x} IN IF I # {} THEN Min(I) ELSE 0

LEMMA FoundFirst ==
    ASSUME NEW r, NEW n \in 1..Len(r), Len(r) \in Nat, NEW x, r[n] = x, \A k \in 1..(n - 1) : r[k] # x
    PROVE  Where(r, x) = n
  <1> DEFINE I == {i \in 1..Len(r) : r[i] = x}
  <1>1. Where(r, x) = IF I # {} THEN Min(I) ELSE 0
    BY DEF Where
  <1>2. n \in I /\ \A i \in I : n <= i /\ i \in Nat
    OBVIOUS
  <1> HIDE DEF I
  <1>3. Min(I) \in I /\ \A i \in I : Min(I) <= i
    BY <1>2 DEF Min
  <1>4. Min(I) = n
    <2> DEFINE m == Min(I)
    <2>1. m \in Nat /\ n <= m /\ m <= n
      BY <1>2, <1>3
    <2> HIDE DEF m
    <2>2. m = n
      BY <2>1
    <2>3. QED
      BY <2>2 DEF m
  <1>5. QED
    BY <1>1, <1>2, <1>4

LEMMA SessionShows ==
    ASSUME Shown \in Seq(Char), Transcript(AsCoded) \in Seq(Char), NEW n \in {2, 3}, Alike(Shown, Transcript(AsCoded), n)
    PROVE  Session = Rows(Transcript(AsCoded))
  <1> DEFINE v == Terminal(Shown)
             u == Terminal(Transcript(AsCoded))
             r == [k \in 1..Len(v.rows) |-> Trimmed(v.rows[k])]
             q == [k \in 1..Len(u.rows) |-> Trimmed(u.rows[k])]
             m == SelectInSeq(r, LAMBDA row : row = <<83>>)
  <1>1. Session = SubSeq(r, m + 1, Len(r)) /\ Rows(Transcript(AsCoded)) = q
    BY DEF Session, Rows
  <1>2. v \in Term /\ u \in Term /\ Heading(v, n) /\ Matches(v, u, n)
    BY TerminalType DEF Alike
  <1> HIDE DEF v, u
  <1>3. n \in Nat \ {0}
    OBVIOUS
  <1>4. /\ Len(v.rows) \in Nat /\ Len(u.rows) \in Nat /\ Len(v.rows) = n + Len(u.rows)
        /\ \A k \in 1..Len(u.rows) : /\ v.rows[n + k] \in Seq(Char) /\ u.rows[k] \in Seq(Char)
                                     /\ SameRow(v.rows[n + k], u.rows[k])
    BY <1>2, <1>3, MatchedRows
  <1>5. /\ <<83>> \in Seq(Char) /\ <<66>> \in Seq(Char) /\ <<>> \in Seq(Char)
        /\ Trimmed(<<83>>) = <<83>> /\ Trimmed(<<66>>) = <<66>> /\ Trimmed(<<>>) = <<>>
        /\ <<66>> # <<83>> /\ <<>> # <<83>>
    <2>1. ASSUME NEW c \in {83, 66}
          PROVE  <<c>> \in Seq(Char) /\ Trimmed(<<c>>) = <<c>>
      <3> DEFINE e == <<c>>
      <3>1. c \in Char /\ c # 32
        BY CharFacts
      <3>2. e \in Seq(Char) /\ Len(e) = 1 /\ e[1] = c
        BY <3>1
      <3> HIDE DEF e
      <3>3. e[Len(e)] # 32
        BY <3>1, <3>2
      <3>4. Trimmed(e) = e
        BY ONLY <3>2, <3>3, TrimmedFull
      <3>5. QED
        BY <3>2, <3>4 DEF e
    <2>2. <<>> \in Seq(Char)
      OBVIOUS
    <2>3. <<>> \in Seq(Char) /\ Trimmed(<<>>) = <<>>
      BY ONLY <2>2, TrimmedFull
    <2>4. <<66>> # <<83>> /\ <<>> # <<83>>
      OBVIOUS
    <2>5. QED
      BY <2>1, <2>3, <2>4
  <1>6. /\ n \in 1..Len(v.rows) /\ v.rows[n] = <<83>>
        /\ \A k \in 1..(n - 1) : k \in 1..Len(v.rows) /\ v.rows[k] \in {<<>>, <<66>>}
    BY <1>2, <1>3, <1>4 DEF Heading
  <1>7. Len(r) = Len(v.rows) /\ Len(q) = Len(u.rows)
    BY <1>4
  <1>8. /\ \A k \in 1..Len(v.rows) : r[k] = Trimmed(v.rows[k])
        /\ \A k \in 1..Len(u.rows) : q[k] = Trimmed(u.rows[k])
    OBVIOUS
  <1> DEFINE S == {r[k] : k \in 1..Len(r)} \cup {q[k] : k \in 1..Len(q)}
  <1>9. r \in Seq(S) /\ q \in Seq(S)
    <2>1. r = [k \in 1..Len(v.rows) |-> r[k]] /\ q = [k \in 1..Len(u.rows) |-> q[k]]
      OBVIOUS
    <2>2. (\A k \in 1..Len(v.rows) : r[k] \in S) /\ (\A k \in 1..Len(u.rows) : q[k] \in S)
      BY <1>7
    <2> HIDE DEF r, q, S
    <2>3. r \in [1..Len(v.rows) -> S] /\ q \in [1..Len(u.rows) -> S]
      BY <2>1, <2>2
    <2>4. \A i \in Nat : [1..i -> S] \subseteq Seq(S)
      OBVIOUS
    <2>5. QED
      BY <1>4, <2>3, <2>4
  <1>10. m = n
    <2> HIDE DEF r, q, S
    <2>0. m = Where(r, <<83>>)
      BY DEF Where, SelectInSeq
    <2> HIDE DEF m
    <2>1. n \in 1..Len(r) /\ Len(r) \in Nat
      BY <1>4, <1>6, <1>7
    <2>2. r[n] = <<83>>
      <3>1. r[n] = Trimmed(v.rows[n])
        BY <1>6, <1>8
      <3>2. QED
        BY <1>5, <1>6, <3>1
    <2>3. \A k \in 1..(n - 1) : r[k] # <<83>>
      <3> TAKE k \in 1..(n - 1)
      <3>1. r[k] = Trimmed(v.rows[k]) /\ v.rows[k] \in {<<>>, <<66>>}
        BY <1>6, <1>8
      <3>2. QED
        BY <1>5, <3>1
    <2> DEFINE x == <<83>>
    <2>4. r[n] = x /\ (\A k \in 1..(n - 1) : r[k] # x) /\ m = Where(r, x)
      BY <2>0, <2>2, <2>3
    <2> HIDE DEF x
    <2>5. Where(r, x) = n
      BY ONLY <2>1, <2>4, FoundFirst
    <2>6. QED
      BY <2>4, <2>5
  <1> HIDE DEF r, q, S, m
  <1> DEFINE k == Len(u.rows)
             p == SubSeq(r, n + 1, n + k)
  <1>11. p \in Seq(S) /\ Len(p) = k /\ \A j \in 1..k : p[j] = r[n + j]
    BY <1>3, <1>4, <1>7, <1>9, SliceMeans
  <1>12. Session = p
    BY <1>1, <1>4, <1>7, <1>10
  <1> HIDE DEF p
  <1>13. \A j \in 1..k : p[j] = q[j]
    <2> TAKE j \in 1..k
    <2>1. n + j \in 1..Len(v.rows)
      BY <1>3, <1>4
    <2>2. Trimmed(v.rows[n + j]) = Trimmed(u.rows[j])
      BY <1>4, TrimmedSame
    <2>3. QED
      BY <1>8, <1>11, <2>1, <2>2
  <1>14. p = q
    BY <1>7, <1>9, <1>11, <1>13, SeqEqual
  <1>15. QED
    BY <1>1, <1>12, <1>14

-----------------------------------------------------------------------------
(* The theorems.                                                             *)

\* The invariant is inductive.
THEOREM InvAlways == Spec => []IInv
  <1>1. IInv /\ [Next]_vars => IInv'
    BY TypeKept, BannerKept, ScreenKept DEF IInv
  <1>2. QED
    BY InitInv, <1>1, PTL DEF Spec

\* The line and its NUL fit s_line whatever is typed, and the FIFOs hold what
\* they can, for every size of line and FIFOs.
THEOREM TypeCorrect == Spec => []TypeOK
  <1>1. IInv => TypeOK
    BY DEF IInv, TypeInv
  <1>2. QED
    BY <1>1, InvAlways, PTL

\* From the first prompt on the terminal shows a transcript: every prompt, of the line
\* nothing or the very characters neo_read_line stored, and the answer neo_app_run
\* printed.  The witness is the transcript of the code, which echoes.
THEOREM ScreenAlwaysTellsTheTruth == Spec => []ScreenTellsTheTruth
  <1>1. IInv => ScreenTellsTheTruth
    <2> SUFFICES ASSUME IInv, pc # "banner"
                 PROVE  Session = Rows(Transcript(AsCoded))
      BY DEF ScreenTellsTheTruth, AsCoded, Ways
    <2>1. Shown \in Seq(Char) /\ Transcript(AsCoded) \in Seq(Char)
      BY PastType DEF IInv
    <2>2. PICK n \in {2, 3} : Alike(Shown, Transcript(AsCoded), n)
      BY ScreenMeans DEF IInv
    <2>3. QED
      BY <2>1, <2>2, SessionShows
  <1>2. QED
    BY <1>1, InvAlways, PTL
=============================================================================
