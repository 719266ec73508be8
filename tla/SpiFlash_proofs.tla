---------------------------- MODULE SpiFlash_proofs ----------------------------
(* Proofs about SpiFlash for every geometry of pages and sectors, every flash    *)
(* size, every set of calls, and any number of calls and restarts.               *)
EXTENDS SpiFlash, SequenceTheorems, TLAPS

-----------------------------------------------------------------------------
(* Addresses. *)

LEMMA DivMod ==
    ASSUME NEW a \in Nat, NEW p \in Nat \ {0}
    PROVE  a \div p \in Nat /\ a % p \in 0..(p - 1) /\ a = p * (a \div p) + (a % p)
  OBVIOUS

LEMMA DivUnique ==
    ASSUME NEW p \in Nat \ {0}, NEW q \in Nat, NEW r \in 0..(p - 1)
    PROVE  (p * q + r) \div p = q /\ (p * q + r) % p = r
  OBVIOUS

LEMMA Divides ==
    ASSUME NEW a \in Nat, NEW p \in Nat \ {0}, a % p = 0
    PROVE  a \div p \in Nat /\ a = p * (a \div p)
  OBVIOUS

\* An address of the flash is not folded.
LEMMA InFlash == ASSUME NEW a \in Address PROVE a % SIZE = a /\ a \in Nat
  BY GeometryAssumption DEF Address

\* A byte of a page frame goes to the page it began in.
LEMMA InPageStays ==
    ASSUME NEW a \in Nat, NEW k \in Nat
    PROVE  InPage(a, k) \in Nat /\ InPage(a, k) \div PAGE = a \div PAGE
  <1>1. PAGE \in Nat \ {0} /\ a + k \in Nat
    BY GeometryAssumption
  <1>2. a \div PAGE \in Nat /\ (a + k) % PAGE \in 0..(PAGE - 1)
    BY <1>1, DivMod, Zenon
  <1>3. (PAGE * (a \div PAGE) + ((a + k) % PAGE)) \div PAGE = a \div PAGE
    BY <1>1, <1>2, DivUnique
  <1>4. QED
    BY <1>1, <1>2, <1>3 DEF InPage

\* And if it does not run over that page, it goes where it is meant for.
LEMMA InPageDirect ==
    ASSUME NEW a \in Nat, NEW k \in Nat, (a + k) \div PAGE = a \div PAGE
    PROVE  InPage(a, k) = a + k
  <1>1. PAGE \in Nat \ {0} /\ a + k \in Nat
    BY GeometryAssumption
  <1>2. a + k = PAGE * ((a + k) \div PAGE) + ((a + k) % PAGE)
    BY <1>1, DivMod
  <1>3. QED
    BY <1>2 DEF InPage

-----------------------------------------------------------------------------
(* Pages and sectors.  The sector of a page, and a page further on in it. *)

\* Sectors begin at sectors' multiples, wherever the flash folds the address.
LEMMA SectorFold ==
    ASSUME NEW e \in Nat, e % SECTOR = 0, NEW o \in 0..(SECTOR - 1)
    PROVE  /\ e % SIZE \in Address /\ (e % SIZE) % SECTOR = 0
           /\ (e + o) % SIZE = (e % SIZE) + o
           /\ (e + o) % SIZE \in SectorOf(e % SIZE)
           /\ ((e + o) % SIZE) % SECTOR = o
  <1> DEFINE s == e \div SECTOR
             m == SIZE \div SECTOR
             f == s % m
             g == s \div m
  <1>1. SECTOR \in Nat \ {0} /\ SIZE \in Nat \ {0}
    BY GeometryAssumption
  <1>2. s \in Nat /\ e = SECTOR * s
    BY <1>1, DivMod
  <1>3. m \in Nat \ {0} /\ SIZE = SECTOR * m
    <2>1. m \in Nat /\ SIZE = SECTOR * m
      BY <1>1, GeometryAssumption, Divides, Zenon
    <2>2. QED
      BY <1>1, <2>1
  <1>4. f \in 0..(m - 1) /\ g \in Nat /\ s = m * g + f
    BY <1>2, <1>3, DivMod
  <1> HIDE DEF s, m, f, g
  <1>5. SECTOR * f + o \in 0..(SIZE - 1) /\ SECTOR * f \in 0..(SIZE - 1)
    <2>1. f + 1 <= m /\ f \in Nat
      BY <1>3, <1>4
    <2>2. SECTOR * (f + 1) <= SECTOR * m
      BY <1>1, <1>3, <2>1
    <2>3. SECTOR * (f + 1) = SECTOR * f + SECTOR /\ SECTOR * f \in Nat
      BY <1>1, <2>1
    <2>4. QED
      BY <1>1, <1>3, <2>2, <2>3
  <1>6. e = SIZE * g + SECTOR * f
    BY <1>1, <1>2, <1>3, <1>4
  <1>7. e % SIZE = SECTOR * f
    BY <1>1, <1>4, <1>5, <1>6, DivUnique
  <1>8. (e + o) % SIZE = SECTOR * f + o
    <2>1. e + o = SIZE * g + (SECTOR * f + o)
      BY <1>1, <1>4, <1>5, <1>6
    <2>2. (SIZE * g + (SECTOR * f + o)) % SIZE = SECTOR * f + o
      BY <1>1, <1>4, <1>5, DivUnique, Zenon
    <2>3. QED
      BY <2>1, <2>2
  <1>9. (SECTOR * f + o) \div SECTOR = f /\ (SECTOR * f + o) % SECTOR = o
    <2>1. f \in Nat
      BY <1>3, <1>4
    <2>2. QED
      BY <1>1, <2>1, DivUnique, Zenon
  <1>10. (SECTOR * f) \div SECTOR = f /\ (SECTOR * f) % SECTOR = 0
    <2>1. f \in Nat /\ 0 \in 0..(SECTOR - 1)
      BY <1>1, <1>3, <1>4
    <2>2. (SECTOR * f + 0) \div SECTOR = f /\ (SECTOR * f + 0) % SECTOR = 0
      BY <1>1, <2>1, DivUnique
    <2>3. SECTOR * f + 0 = SECTOR * f
      BY <1>1, <2>1
    <2>4. QED
      BY <2>2, <2>3
  <1>11. QED
    BY <1>5, <1>7, <1>8, <1>9, <1>10 DEF SectorOf, Address

\* A page that begins at offset o of its sector is offsets o to o + PAGE - 1 of it.
LEMMA PageInSector ==
    ASSUME NEW b \in Address, b % SECTOR = 0, NEW o \in 0..(SECTOR - 1), o % PAGE = 0,
           NEW x \in Address
    PROVE  x \in PageOf(b + o) <=>
               x \in SectorOf(b) /\ x % SECTOR >= o /\ x % SECTOR < o + PAGE
  <1> DEFINE s == b \div SECTOR
             t == SECTOR \div PAGE
             v == o \div PAGE
             q == x \div SECTOR
             u == x % SECTOR
             w == u \div PAGE
             r == u % PAGE
  <1>1. SECTOR \in Nat \ {0} /\ PAGE \in Nat \ {0} /\ b \in Nat /\ x \in Nat /\ o \in Nat
    BY GeometryAssumption DEF Address
  <1>2. s \in Nat /\ b = SECTOR * s
    BY <1>1, Divides, Zenon
  <1>3. t \in Nat /\ SECTOR = PAGE * t
    <2>1. SECTOR \in Nat /\ SECTOR % PAGE = 0
      BY GeometryAssumption
    <2>2. QED
      BY <1>1, <2>1, Divides, Zenon
  <1>4. v \in Nat /\ o = PAGE * v
    BY <1>1, Divides, Zenon
  <1>5. q \in Nat /\ u \in 0..(SECTOR - 1) /\ x = SECTOR * q + u
    BY <1>1, DivMod, Zenon
  <1>6. w \in Nat /\ r \in 0..(PAGE - 1) /\ u = PAGE * w + r
    <2>1. u \in Nat
      BY <1>1, <1>5
    <2>2. QED
      BY <1>1, <2>1, DivMod, Zenon
  <1>7. x \in PageOf(b + o) <=> x \div PAGE = (b + o) \div PAGE
    BY DEF PageOf
  <1>8. x \in SectorOf(b) <=> q = s
    BY DEF SectorOf
  <1>9. x % SECTOR = u
    OBVIOUS
  <1> HIDE DEF s, t, v, q, u, w, r
  <1>10. (b + o) \div PAGE = t * s + v
    <2> DEFINE m == t * s + v
    <2>1. b + o = PAGE * m + 0
      BY <1>1, <1>2, <1>3, <1>4
    <2>2. m \in Nat /\ 0 \in 0..(PAGE - 1)
      BY <1>1, <1>2, <1>3, <1>4
    <2> HIDE DEF m
    <2>3. (PAGE * m + 0) \div PAGE = m
      BY <1>1, <2>2, DivUnique, Zenon
    <2>4. QED
      BY <2>1, <2>3, Zenon DEF m
  <1>11. x \div PAGE = t * q + w
    <2> DEFINE m == t * q + w
    <2>1. x = PAGE * m + r
      BY <1>1, <1>3, <1>5, <1>6
    <2>2. m \in Nat
      BY <1>3, <1>5, <1>6
    <2> HIDE DEF m
    <2>3. (PAGE * m + r) \div PAGE = m
      BY <1>1, <1>6, <2>2, DivUnique, Zenon
    <2>4. QED
      BY <2>1, <2>3, Zenon DEF m
  <1>12. w < t /\ v < t
    <2>1. PAGE * w < PAGE * t
      BY <1>1, <1>3, <1>5, <1>6
    <2>2. PAGE * v < PAGE * t
      BY <1>1, <1>3, <1>4
    <2>3. QED
      BY <1>1, <1>3, <1>4, <1>6, <2>1, <2>2
  <1>13. t * q + w = t * s + v <=> q = s /\ w = v
    <2>1. t \in Nat \ {0} /\ w \in 0..(t - 1) /\ v \in 0..(t - 1)
      BY <1>3, <1>4, <1>6, <1>12
    <2>2. (t * q + w) \div t = q /\ (t * q + w) % t = w
      BY <1>5, <2>1, DivUnique, Zenon
    <2>3. (t * s + v) \div t = s /\ (t * s + v) % t = v
      BY <1>2, <2>1, DivUnique, Zenon
    <2>4. QED
      BY <2>2, <2>3, Zenon
  <1>14. w = v <=> u >= o /\ u < o + PAGE
    <2>1. CASE w = v
      BY <1>1, <1>4, <1>6, <2>1
    <2>2. CASE w < v
      <3>1. PAGE * w + PAGE <= PAGE * v
        BY <1>1, <1>4, <1>6, <2>2
      <3>2. QED
        BY <1>1, <1>4, <1>6, <2>2, <3>1
    <2>3. CASE w > v
      <3>1. PAGE * w >= PAGE * v + PAGE
        BY <1>1, <1>4, <1>6, <2>3
      <3>2. QED
        BY <1>1, <1>4, <1>6, <2>3, <3>1
    <2>4. QED
      BY <1>4, <1>6, <2>1, <2>2, <2>3
  <1>15. QED
    BY <1>7, <1>8, <1>9, <1>10, <1>11, <1>13, <1>14
-----------------------------------------------------------------------------
(* Calls, frames and what a frame does to the array. *)

Mems == [Address -> SUBSET BITS]
Call_t == [op : {"check", "write_huge", "erase_sector"} \cup Reads \cup Writes,
           addr : Address, length : Nat, data : Seq(SUBSET BITS)]

LEMMA AddressType == Address \subseteq Nat /\ 0 \in Address
  BY GeometryAssumption DEF Address

LEMMA CallType == \A c \in JOBS \cup {NoCall} : c \in Call_t
  <1>1. \A c \in JOBS : c \in Call_t
    BY JobsAssumption DEF Call_t, Address
  <1>2. NoCall \in Call_t
    BY AddressType DEF NoCall, Call_t
  <1>3. QED
    BY <1>1, <1>2

LEMMA FoldType == \A a \in Nat : a % SIZE \in Address
  BY GeometryAssumption DEF Address

LEMMA EraseType == ASSUME NEW a \in Nat PROVE Erase(a) \in Frame /\ Len(Erase(a).data) <= PAGE
  BY FoldType, GeometryAssumption DEF Erase, Frame

LEMMA ProgramType ==
    ASSUME NEW a \in Nat, NEW d \in Seq(SUBSET BITS)
    PROVE  Program(a, d) \in Frame
  BY FoldType DEF Program, Frame

\* The data of a program frame.
LEMMA CutData ==
    ASSUME NEW d \in Seq(SUBSET BITS), NEW n \in Nat, n <= Len(d)
    PROVE  /\ SubSeq(d, 1, n) \in Seq(SUBSET BITS) /\ Len(SubSeq(d, 1, n)) = n
           /\ \A i \in 1..n : SubSeq(d, 1, n)[i] = d[i]
  <1>1. \A i \in 1..n : d[i] \in SUBSET BITS
    BY ElementOfSeq
  <1>2. QED
    BY <1>1

\* What a program frame adds to a byte.
Added(w, x) == UNION {w.data[k] : k \in {i \in 1..Len(w.data) : InPage(w.addr, i - 1) = x}}

LEMMA Programmed ==
    ASSUME NEW w \in Frame, w.op = "program", NEW m \in Mems, NEW x \in Address
    PROVE  Worked(w, m)[x] = m[x] \cup Added(w, x)
  BY DEF Worked, Added

LEMMA Wiped ==
    ASSUME NEW w \in Frame, w.op = "erase", NEW m \in Mems, NEW x \in Address
    PROVE  Worked(w, m)[x] = IF x \in SectorOf(w.addr) THEN {} ELSE m[x]
  BY DEF Worked

LEMMA WorkedType ==
    ASSUME NEW w \in Frame, w.op \in {"program", "erase"}, NEW m \in Mems
    PROVE  Worked(w, m) \in Mems
  <1>1. CASE w.op = "erase"
    BY <1>1 DEF Worked, Mems
  <1>2. CASE w.op = "program"
    <2>1. ASSUME NEW x \in Address PROVE m[x] \cup Added(w, x) \in SUBSET BITS
      <3>1. w.data \in Seq(SUBSET BITS)
        BY DEF Frame
      <3>2. \A k \in 1..Len(w.data) : w.data[k] \subseteq BITS
        BY <3>1, ElementOfSeq
      <3>3. Added(w, x) \subseteq BITS
        BY <3>2 DEF Added
      <3>4. QED
        BY <3>3 DEF Mems
    <2>2. Worked(w, m) = [x \in Address |-> m[x] \cup Added(w, x)]
      BY <1>2 DEF Worked, Added
    <2>3. QED
      BY <2>1, <2>2 DEF Mems
  <1>3. QED
    BY <1>1, <1>2

\* A program frame keeps to its page.
LEMMA PageKept ==
    ASSUME NEW w \in Frame, NEW x \in Address, x \notin PageOf(w.addr)
    PROVE  Added(w, x) = {}
  <1>1. w.addr \in Nat /\ w.data \in Seq(SUBSET BITS)
    BY AddressType DEF Frame
  <1>2. ASSUME NEW i \in 1..Len(w.data), InPage(w.addr, i - 1) = x PROVE FALSE
    <2>1. i - 1 \in Nat
      BY <1>1
    <2>2. x \div PAGE = w.addr \div PAGE
      BY <1>1, <1>2, <2>1, InPageStays
    <2>3. QED
      BY <2>2 DEF PageOf
  <1>3. QED
    BY <1>2 DEF Added

\* A write that keeps to its page puts each byte where it belongs.
LEMMA SpanHit ==
    ASSUME NEW c \in JOBS, c.op \in Writes, Span(c) \subseteq PageOf(c.addr), NEW x \in Address
    PROVE  /\ Due(c) \in Frame /\ Due(c).op = "program"
           /\ Added(Due(c), x) = IF x \in Span(c) THEN c.data[x - c.addr + 1] ELSE {}
  <1> DEFINE n == AtMost(c.length, PAGE)
             w == Due(c)
  <1>1. /\ c \in Call_t /\ c.addr \in Nat /\ c.addr \in Address /\ c.length \in Nat
        /\ c.data \in Seq(SUBSET BITS) /\ Len(c.data) >= c.length /\ PAGE \in Nat \ {0}
    BY CallType, JobsAssumption, GeometryAssumption, AddressType DEF Call_t
  <1>2. n \in Nat /\ n <= Len(c.data)
    BY <1>1 DEF AtMost
  <1>3. w = Program(c.addr, SubSeq(c.data, 1, n))
    BY DEF Due, Writes
  <1>4. /\ SubSeq(c.data, 1, n) \in Seq(SUBSET BITS) /\ Len(SubSeq(c.data, 1, n)) = n
        /\ \A i \in 1..n : SubSeq(c.data, 1, n)[i] = c.data[i]
    BY <1>1, <1>2, CutData
  <1>5. w \in Frame /\ w.op = "program" /\ w.addr = c.addr /\ w.data = SubSeq(c.data, 1, n)
    <2> DEFINE d == SubSeq(c.data, 1, n)
    <2>1. d \in Seq(SUBSET BITS)
      BY <1>4
    <2> HIDE DEF d
    <2>2. Program(c.addr, d) \in Frame
      BY <1>1, <2>1, ProgramType
    <2>3. Program(c.addr, d) = [op |-> "program", addr |-> c.addr, data |-> d]
      BY <1>1, InFlash DEF Program
    <2>4. w = Program(c.addr, d)
      BY <1>3 DEF d
    <2>5. w \in Frame /\ w.op = "program" /\ w.addr = c.addr /\ w.data = d
      BY <2>2, <2>3, <2>4
    <2>6. QED
      BY <2>5 DEF d
  <1>6. Span(c) = c.addr..(c.addr + n - 1)
    BY DEF Span
  <1> HIDE DEF n, w
  <1>7. \A i \in 1..n : InPage(c.addr, i - 1) = c.addr + (i - 1)
    <2> SUFFICES ASSUME NEW i \in 1..n PROVE InPage(c.addr, i - 1) = c.addr + (i - 1)
      OBVIOUS
    <2>1. c.addr + (i - 1) \in Span(c) /\ i - 1 \in Nat
      BY <1>1, <1>2, <1>6
    <2>2. (c.addr + (i - 1)) \div PAGE = c.addr \div PAGE
      BY <2>1 DEF PageOf
    <2>3. QED
      BY <1>1, <2>1, <2>2, InPageDirect
  <1>8. Added(w, x) = UNION {c.data[k] : k \in {i \in 1..n : c.addr + (i - 1) = x}}
    <2>1. {i \in 1..n : InPage(c.addr, i - 1) = x} = {i \in 1..n : c.addr + (i - 1) = x}
      BY <1>7
    <2>2. Len(w.data) = n /\ \A i \in 1..n : w.data[i] = c.data[i]
      BY <1>4, <1>5
    <2>3. Added(w, x) = UNION {w.data[k] : k \in {i \in 1..n : c.addr + (i - 1) = x}}
      BY <1>5, <2>1, <2>2 DEF Added
    <2>4. QED
      BY <2>2, <2>3
  <1>9. x \in Nat
    BY AddressType
  <1>10. CASE x \in Span(c)
    <2>1. x - c.addr + 1 \in 1..n
      BY <1>1, <1>2, <1>6, <1>9, <1>10
    <2>2. {i \in 1..n : c.addr + (i - 1) = x} = {x - c.addr + 1}
      BY <1>1, <1>2, <1>9, <2>1
    <2>3. Added(w, x) = c.data[x - c.addr + 1]
      BY <1>8, <2>2
    <2>4. QED
      BY <1>5, <1>10, <2>3 DEF w
  <1>11. CASE x \notin Span(c)
    <2>1. {i \in 1..n : c.addr + (i - 1) = x} = {}
      BY <1>1, <1>2, <1>6, <1>9, <1>11
    <2>2. Added(w, x) = {}
      BY <1>8, <2>1
    <2>3. QED
      BY <1>5, <1>11, <2>2 DEF w
  <1>12. QED
    BY <1>10, <1>11

\* The frame of a single write or erase.
LEMMA DueType ==
    ASSUME NEW c \in JOBS, c.op \in Writes \cup {"erase_sector"}
    PROVE  /\ Due(c) \in Frame /\ Len(Due(c).data) <= PAGE /\ Due(c).addr = c.addr
           /\ Due(c).op = IF c.op = "erase_sector" THEN "erase" ELSE "program"
  <1>1. /\ c \in Call_t /\ c.addr \in Nat /\ c.addr \in Address /\ c.length \in Nat
        /\ c.data \in Seq(SUBSET BITS)
        /\ c.op \in Writes => Len(c.data) >= c.length
        /\ PAGE \in Nat \ {0}
    BY CallType, JobsAssumption, GeometryAssumption, AddressType DEF Call_t
  <1>2. c.addr % SIZE = c.addr
    BY <1>1, InFlash
  <1>3. CASE c.op = "erase_sector"
    BY <1>1, <1>2, <1>3, EraseType DEF Due, Erase
  <1>4. CASE c.op \in Writes
    <2> DEFINE n == AtMost(c.length, PAGE)
    <2>1. n \in Nat /\ n <= Len(c.data) /\ n <= PAGE
      <3>1. Len(c.data) >= c.length /\ Len(c.data) \in Nat
        BY <1>1, <1>4
      <3>2. QED
        BY <1>1, <3>1 DEF AtMost
    <2> DEFINE d == SubSeq(c.data, 1, n)
    <2>2. Due(c) = Program(c.addr, d) /\ c.op # "erase_sector"
      BY <1>4 DEF Due, Writes
    <2> HIDE DEF n
    <2>3. d \in Seq(SUBSET BITS) /\ Len(d) = n
      BY <1>1, <2>1, CutData
    <2> HIDE DEF d
    <2>4. Program(c.addr, d) \in Frame
      BY <1>1, <2>3, ProgramType
    <2>5. Program(c.addr, d) = [op |-> "program", addr |-> c.addr, data |-> d]
      BY <1>2 DEF Program
    <2>6. QED
      BY <2>1, <2>2, <2>3, <2>4, <2>5
  <1>5. QED
    BY <1>3, <1>4
-----------------------------------------------------------------------------
(* A sector that is erased from some offset on. *)

\* The next page of a sector.
LEMMA NextOffset ==
    ASSUME NEW o \in Nat, o % PAGE = 0
    PROVE  /\ (o + PAGE) % PAGE = 0
           /\ o >= PAGE => (o - PAGE) % PAGE = 0
           /\ o < SECTOR => o + PAGE <= SECTOR
  <1> DEFINE v == o \div PAGE
             t == SECTOR \div PAGE
  <1>1. PAGE \in Nat \ {0} /\ SECTOR \in Nat /\ SECTOR % PAGE = 0
    BY GeometryAssumption
  <1>2. v \in Nat /\ o = PAGE * v
    BY <1>1, Divides, Zenon
  <1>3. t \in Nat /\ SECTOR = PAGE * t
    BY <1>1, Divides, Zenon
  <1> HIDE DEF v, t
  <1>4. \A q \in Nat : (PAGE * q) % PAGE = 0
    <2> TAKE q \in Nat
    <2>1. (PAGE * q + 0) % PAGE = 0
      BY <1>1, DivUnique
    <2>2. PAGE * q + 0 = PAGE * q
      BY <1>1
    <2>3. QED
      BY <2>1, <2>2
  <1>5. (o + PAGE) % PAGE = 0
    <2>1. v + 1 \in Nat /\ o + PAGE = PAGE * (v + 1)
      BY <1>1, <1>2
    <2>2. QED
      BY <1>4, <2>1
  <1>6. ASSUME o >= PAGE PROVE (o - PAGE) % PAGE = 0
    <2>1. v # 0
      BY <1>1, <1>2, <1>6
    <2>2. v - 1 \in Nat /\ o - PAGE = PAGE * (v - 1)
      BY <1>1, <1>2, <2>1
    <2>3. QED
      BY <1>4, <2>2
  <1>7. ASSUME o < SECTOR PROVE o + PAGE <= SECTOR
    <2>1. v < t
      BY <1>1, <1>2, <1>3, <1>7
    <2>2. PAGE * (v + 1) <= PAGE * t
      BY <1>1, <1>2, <1>3, <2>1
    <2>3. QED
      BY <1>1, <1>2, <1>3, <2>2
  <1>8. QED
    BY <1>5, <1>6, <1>7

\* The page a huge write programs lies in the sector it erased last.
LEMMA HugePageAt ==
    ASSUME TypeOK, erased % SECTOR = 0, NEW o \in 0..(SECTOR - 1), o % PAGE = 0,
           NEW x \in Address
    PROVE  x \in PageOf((erased + o) % SIZE) <=>
               x \in SectorOf(erased % SIZE) /\ x % SECTOR >= o /\ x % SECTOR < o + PAGE
  <1>1. erased \in Nat
    BY DEF TypeOK
  <1>2. /\ erased % SIZE \in Address /\ (erased % SIZE) % SECTOR = 0
        /\ (erased + o) % SIZE = (erased % SIZE) + o
    BY <1>1, SectorFold
  <1>3. QED
    BY <1>2, PageInSector

LEMMA SectorBase ==
    /\ SECTOR \in Nat \ {0} /\ PAGE \in Nat \ {0} /\ 0 % PAGE = 0
    /\ \A e \in Nat : e % SECTOR = 0 => (e + SECTOR) % SECTOR = 0
    /\ \A x \in Address : x % SECTOR \in 0..(SECTOR - 1)
  <1>1. SECTOR \in Nat \ {0} /\ PAGE \in Nat \ {0}
    BY GeometryAssumption
  <1>2. 0 % PAGE = 0
    BY <1>1
  <1>3. ASSUME NEW e \in Nat, e % SECTOR = 0 PROVE (e + SECTOR) % SECTOR = 0
    <2> DEFINE q == e \div SECTOR
    <2>1. q \in Nat /\ e = SECTOR * q
      BY <1>1, <1>3, Divides, Zenon
    <2> HIDE DEF q
    <2>2. e + SECTOR = SECTOR * (q + 1) + 0
      BY <1>1, <2>1
    <2>3. q + 1 \in Nat /\ 0 \in 0..(SECTOR - 1)
      BY <1>1, <2>1
    <2>4. QED
      BY <1>1, <2>2, <2>3, DivUnique, SMTT(30)
  <1>4. \A x \in Address : x % SECTOR \in 0..(SECTOR - 1)
    BY <1>1, AddressType, DivMod
  <1>5. QED
    BY <1>1, <1>2, <1>3, <1>4

-----------------------------------------------------------------------------
(* The flash. *)

LEMMA FlashDoneKeepsInv == IInv /\ FlashDone => IInv'
  <1> SUFFICES ASSUME IInv, FlashDone PROVE IInv'
    OBVIOUS
  <1> USE DEF FlashDone
  <1>1. /\ TypeOK /\ ReadyInv /\ CallInv /\ HugeInv
        /\ work # None /\ work' = None /\ wel' = FALSE /\ mem' = Worked(work, mem)
        /\ UNCHANGED <<job, at, cmd, adr, j, erased, result, status, before, known, calls, resets>>
    BY DEF IInv, busy, driver, book
  <1>2. work \in Frame /\ work.op \in {"program", "erase"} /\ mem \in Mems /\ None \in Frame
    BY <1>1, AddressType DEF TypeOK, ReadyInv, busy, Mems, None, Frame
  <1>3. mem' \in Mems
    BY <1>1, <1>2, WorkedType
  <1>4. TypeOK'
    BY <1>1, <1>2, <1>3 DEF TypeOK, Mems
  <1>5. ReadyInv'
    BY <1>1 DEF ReadyInv, busy
  <1>6. known => at = "wait" /\ work = cmd
    BY <1>1 DEF ReadyInv, busy
  <1>7. CallInv'
    <2>1. ASSUME known, job.op \in Writes \cup {"erase_sector"}
          PROVE  cmd = Due(job) /\ mem' = Worked(cmd, before)
      BY <1>1, <1>6, <2>1 DEF CallInv, busy
    <2>2. ~(known /\ job.op \in Reads)
      BY <1>1, <1>6 DEF ReadyInv, Reads, Writes
    <2>3. QED
      BY <1>1, <1>6, <2>1, <2>2 DEF CallInv, busy
  <1>8. HugeInv'
    <2> SUFFICES ASSUME known, job.op = "write_huge", job.addr % SECTOR = 0
                 PROVE  HugeInv'
      BY <1>1 DEF HugeInv
    <2> DEFINE off == adr - erased
    <2>1. /\ erased % SECTOR = 0 /\ off \in 0..SECTOR /\ off % PAGE = 0 /\ at = "wait" /\ work = cmd
      BY <1>1, <1>6 DEF HugeInv
    <2>2. CASE cmd.op = "erase"
      <3>1. off = 0 /\ cmd = Erase(erased)
        BY <1>1, <1>6, <2>2 DEF HugeInv
      <3>2. \A x \in SectorOf(erased % SIZE) : mem'[x] = {}
        <4>1. cmd.addr = erased % SIZE
          BY <3>1 DEF Erase
        <4>2. SectorOf(erased % SIZE) \subseteq Address
          BY DEF SectorOf
        <4>3. QED
          BY <1>1, <1>2, <2>1, <2>2, <4>1, <4>2, Wiped
      <3>3. Ahead(0)'
        BY <1>1, <3>2 DEF Ahead
      <3>4. QED
        BY <1>1, <2>1, <2>2, <3>1, <3>3 DEF HugeInv, Erase
    <2>3. CASE cmd.op = "program"
      <3>1. off >= PAGE /\ cmd.addr = (adr - PAGE) % SIZE /\ Ahead(off)
        BY <1>1, <1>6, <2>3 DEF HugeInv
      <3>2. adr \in Nat /\ erased \in Nat /\ PAGE \in Nat \ {0} /\ SECTOR \in Nat
        BY <1>1, SectorBase DEF TypeOK
      <3>3. (off - PAGE) % PAGE = 0 /\ off - PAGE \in 0..(SECTOR - 1)
        BY <2>1, <3>1, <3>2, NextOffset
      <3>4. adr - PAGE = erased + (off - PAGE)
        BY <3>2
      <3>5. ASSUME NEW x \in SectorOf(erased % SIZE), x % SECTOR >= off
            PROVE  mem'[x] = {}
        <4>1. x \in Address /\ x % SECTOR \in Nat
          BY SectorBase DEF SectorOf
        <4>2. x \notin PageOf(cmd.addr)
          <5>1. x \in PageOf(cmd.addr) => x % SECTOR < (off - PAGE) + PAGE
            BY <1>1, <2>1, <3>1, <3>3, <3>4, <4>1, HugePageAt
          <5>2. QED
            BY <3>2, <3>5, <4>1, <5>1
        <4>3. mem'[x] = mem[x] \cup Added(cmd, x)
          BY <1>1, <1>2, <2>1, <2>3, <4>1, Programmed
        <4>4. Added(cmd, x) = {}
          BY <1>2, <2>1, <4>1, <4>2, PageKept
        <4>5. mem[x] = {}
          BY <3>1, <3>5 DEF Ahead
        <4>6. QED
          BY <4>3, <4>4, <4>5
      <3>6. Ahead(off)'
        BY <1>1, <3>5 DEF Ahead
      <3>7. QED
        BY <1>1, <2>1, <2>3, <3>1, <3>6 DEF HugeInv
    <2>4. QED
      BY <1>1, <1>2, <2>1, <2>2, <2>3
  <1>9. QED
    BY <1>4, <1>5, <1>7, <1>8 DEF IInv
-----------------------------------------------------------------------------
(* Calls. *)

\* A call that is made while the flash is known to be ready finds it ready.
LEMMA CalledDoes ==
    ASSUME IInv, NEW c \in JOBS, Called(c)
    PROVE  /\ TypeOK /\ ReadyInv /\ c \in Call_t /\ at = "idle"
           /\ known => ~busy /\ work = None
           /\ job' = c /\ before' = mem /\ calls' \in Nat
           /\ UNCHANGED <<mem, wel, work, known, resets>>
  BY CallType DEF IInv, TypeOK, ReadyInv, Called, flash, busy

LEMMA CallCheckKeepsInv == ASSUME IInv, NEW c \in JOBS, CallCheck(c) PROVE IInv'
  <1>1. /\ Called(c) /\ c.op = "check" /\ at' = "set"
        /\ UNCHANGED <<cmd, adr, j, erased, result, status>>
    BY DEF CallCheck
  <1>2. TypeOK'
    BY <1>1, CalledDoes DEF TypeOK
  <1>3. ReadyInv'
    BY <1>1, CalledDoes DEF ReadyInv, busy
  <1>4. CallInv' /\ HugeInv'
    BY <1>1, CalledDoes DEF CallInv, HugeInv, Reads, Writes
  <1>5. QED
    BY <1>2, <1>3, <1>4 DEF IInv

LEMMA CallReadKeepsInv == ASSUME IInv, NEW c \in JOBS, CallRead(c) PROVE IInv'
  <1> DEFINE n == AtMost(c.length, PAGE)
             got(k) == IF busy THEN {} ELSE mem[(c.addr + k - 1) % SIZE]
  <1>1. /\ Called(c) /\ c.op \in Reads /\ result' = [k \in 1..n |-> got(k)]
        /\ UNCHANGED <<at, cmd, adr, j, erased, status>>
    BY DEF CallRead
  <1>2. n \in Nat /\ n <= PAGE /\ c.addr \in Nat
    <2>1. c.addr \in Nat /\ c.length \in Nat
      BY <1>1, CalledDoes, AddressType DEF Call_t
    <2>2. QED
      BY <2>1, SectorBase DEF AtMost
  <1> HIDE DEF n
  <1>3. ASSUME NEW k \in 1..n PROVE got(k) \in SUBSET BITS
    <2>1. c.addr + k - 1 \in Nat
      BY <1>2
    <2>2. (c.addr + k - 1) % SIZE \in Address
      BY <2>1, FoldType
    <2>3. QED
      BY <2>2 DEF IInv, TypeOK
  <1> HIDE DEF got
  <1>4. result' \in Seq(SUBSET BITS) /\ Len(result') = n /\ \A k \in 1..n : result'[k] = got(k)
    BY <1>1, <1>2, <1>3
  <1>5. TypeOK'
    BY <1>1, <1>2, <1>4, CalledDoes DEF TypeOK
  <1>6. ReadyInv'
    BY <1>1, CalledDoes DEF ReadyInv, busy
  <1>7. CallInv'
    BY <1>1, <1>4, CalledDoes DEF CallInv, Reads, Writes, got
  <1>8. HugeInv'
    BY <1>1, CalledDoes DEF HugeInv
  <1>9. QED
    BY <1>5, <1>6, <1>7, <1>8 DEF IInv

\* The one frame of a write or an erase is ready to go out.
LEMMA CallOnceKeepsInv ==
    ASSUME IInv, NEW c \in JOBS, Called(c), c.op \in Writes \cup {"erase_sector"},
           cmd' = Due(c), at' = "wren", UNCHANGED <<adr, j, erased, result, status>>
    PROVE  IInv'
  <1>1. Due(c) \in Frame /\ Len(Due(c).data) <= PAGE /\ Due(c).op \in {"erase", "program"}
    BY DueType
  <1>2. TypeOK'
    <2>1. work' = None \/ resets' < RESETS
      BY CalledDoes DEF ReadyInv
    <2>2. QED
      BY <1>1, <2>1, CalledDoes DEF TypeOK
  <1>3. ReadyInv'
    BY <1>1, CalledDoes DEF ReadyInv, busy
  <1>4. CallInv'
    BY CalledDoes DEF CallInv, Reads, Writes
  <1>5. HugeInv'
    BY CalledDoes DEF HugeInv, Writes
  <1>6. QED
    BY <1>2, <1>3, <1>4, <1>5 DEF IInv

LEMMA CallWriteKeepsInv == ASSUME IInv, NEW c \in JOBS, CallWrite(c) PROVE IInv'
  <1>1. c.op \in Writes /\ Called(c) /\ at' = "wren" /\ UNCHANGED <<adr, j, erased, result, status>>
    BY DEF CallWrite
  <1>2. cmd' = Due(c)
    BY <1>1 DEF CallWrite, Due, Writes
  <1>3. QED
    BY <1>1, <1>2, CallOnceKeepsInv

LEMMA CallEraseKeepsInv == ASSUME IInv, NEW c \in JOBS, CallErase(c) PROVE IInv'
  <1>1. /\ c.op = "erase_sector" /\ Called(c) /\ at' = "wren"
        /\ UNCHANGED <<adr, j, erased, result, status>>
    BY DEF CallErase
  <1>2. cmd' = Due(c)
    BY <1>1 DEF CallErase, Due
  <1>3. QED
    BY <1>1, <1>2, CallOnceKeepsInv

LEMMA CallHugeKeepsInv == ASSUME IInv, NEW c \in JOBS, CallHuge(c) PROVE IInv'
  <1>1. /\ c.op = "write_huge" /\ Called(c) /\ at' = "wren" /\ UNCHANGED <<result, status>>
        /\ adr' = c.addr /\ j' = 0 /\ erased' = c.addr /\ cmd' = Erase(c.addr)
    BY DEF CallHuge
  <1>2. c.addr \in Nat
    BY <1>1, CalledDoes, AddressType DEF Call_t
  <1>3. cmd' \in Frame /\ Len(cmd'.data) <= PAGE /\ cmd'.op = "erase"
    BY <1>1, <1>2, EraseType DEF Erase
  <1>4. TypeOK'
    <2>1. work' = None \/ resets' < RESETS
      BY <1>1, CalledDoes DEF ReadyInv
    <2>2. QED
      BY <1>1, <1>2, <1>3, <2>1, CalledDoes DEF TypeOK
  <1>5. ReadyInv'
    BY <1>1, <1>3, CalledDoes DEF ReadyInv, busy
  <1>6. CallInv'
    BY <1>1, CalledDoes DEF CallInv, Reads, Writes
  <1>7. HugeInv'
    <2>1. adr' - erased' = 0 /\ 0 \in 0..SECTOR
      BY <1>1, <1>2, SectorBase
    <2>2. cmd' = Erase(erased') /\ cmd'.op = "erase" /\ job' = c /\ erased' = c.addr
      BY <1>1, <1>3, CalledDoes
    <2>3. QED
      BY <1>1, <2>1, <2>2, SectorBase DEF HugeInv
  <1>8. QED
    BY <1>4, <1>5, <1>6, <1>7 DEF IInv

-----------------------------------------------------------------------------
(* Frames. *)

LEMMA WrenKeepsInv == IInv /\ Wren => IInv'
  <1> SUFFICES ASSUME IInv, Wren PROVE IInv'
    OBVIOUS
  <1>1. /\ at = "wren" /\ at' = "work" /\ wel' = (IF busy THEN wel ELSE TRUE)
        /\ UNCHANGED <<mem, work, job, cmd, adr, j, erased, result, status, before, known, calls, resets>>
    BY DEF Wren, WriteLatch, Goto, book
  <1>2. TypeOK'
    BY <1>1 DEF IInv, TypeOK
  <1>3. ReadyInv'
    BY <1>1 DEF IInv, ReadyInv, busy
  <1>4. CallInv'
    BY <1>1 DEF IInv, CallInv, busy
  <1>5. HugeInv'
    BY <1>1 DEF IInv, HugeInv, Ahead, busy
  <1>6. QED
    BY <1>2, <1>3, <1>4, <1>5 DEF IInv

LEMMA WorkKeepsInv == IInv /\ Work => IInv'
  <1> SUFFICES ASSUME IInv, Work PROVE IInv'
    OBVIOUS
  <1>1. /\ at = "work" /\ at' = "wait" /\ work' = (IF wel /\ ~busy THEN cmd ELSE work)
        /\ UNCHANGED <<mem, wel, job, cmd, adr, j, erased, result, status, before, known, calls, resets>>
    BY DEF Work, Start, Goto, book
  <1>2. cmd.op \in {"program", "erase"} /\ cmd # None
    BY <1>1 DEF IInv, ReadyInv, None
  <1>3. known => wel /\ ~busy
    BY <1>1 DEF IInv, ReadyInv
  <1>4. TypeOK'
    BY <1>1 DEF IInv, TypeOK
  <1>5. ReadyInv'
    BY <1>1, <1>2, <1>3 DEF IInv, ReadyInv, busy
  <1>6. CallInv'
    BY <1>1, <1>2, <1>3 DEF IInv, CallInv, busy
  <1>7. HugeInv'
    BY <1>1, <1>2, <1>3 DEF IInv, HugeInv, Ahead, busy
  <1>8. QED
    BY <1>4, <1>5, <1>6, <1>7 DEF IInv

LEMMA WipKeepsInv == IInv /\ Wip => IInv'
  <1> SUFFICES ASSUME IInv, Wip PROVE IInv'
    OBVIOUS
  <1>1. /\ at = "wait" /\ ~busy /\ at' = IF job.op = "write_huge" THEN "loop" ELSE "idle"
        /\ UNCHANGED <<mem, wel, work, job, cmd, adr, j, erased, result, status, before, known, calls, resets>>
    BY DEF Wip, Ready, Goto, book, flash
  <1>2. TypeOK'
    BY <1>1 DEF IInv, TypeOK
  <1>3. ReadyInv'
    BY <1>1 DEF IInv, ReadyInv, busy
  <1>4. CallInv'
    BY <1>1 DEF IInv, CallInv, busy
  <1>5. HugeInv'
    <2>1. cmd.op \in {"program", "erase"}
      BY <1>1 DEF IInv, ReadyInv
    <2>2. QED
      BY <1>1, <2>1 DEF IInv, HugeInv, Ahead, busy
  <1>6. QED
    BY <1>2, <1>3, <1>4, <1>5 DEF IInv

\* The frames of a check and the end of the huge write: the array is left alone.
LEMMA PlainKeepsInv ==
    ASSUME IInv, WriteLatch(TRUE) \/ WriteLatch(FALSE) \/ UNCHANGED flash,
           \/ at = "set" /\ Goto("isSet")
           \/ at = "clear" /\ Goto("isClear")
           \/ at = "isSet" /\ Goto("clear")
           \/ at = "loop" /\ Goto("idle")
    PROVE  IInv'
  <1>1. /\ \/ at = "set" /\ at' = "isSet"
           \/ at = "clear" /\ at' = "isClear"
           \/ at = "isSet" /\ at' = "clear"
           \/ at = "loop" /\ at' = "idle"
        /\ wel' \in BOOLEAN /\ (busy => wel' = wel)
        /\ UNCHANGED <<mem, work, job, cmd, adr, j, erased, result, status, before, known, calls, resets>>
    BY DEF Goto, WriteLatch, flash, book, IInv, TypeOK
  <1>2. TypeOK'
    BY <1>1 DEF IInv, TypeOK
  <1>3. ReadyInv'
    BY <1>1 DEF IInv, ReadyInv, busy
  <1>4. job.op \in {"check", "write_huge"} /\ (job.op = "check" \/ at' = "idle")
    BY <1>1 DEF IInv, ReadyInv
  <1>5. CallInv' /\ HugeInv'
    BY <1>1, <1>4 DEF CallInv, HugeInv, Reads, Writes
  <1>6. QED
    BY <1>2, <1>3, <1>5 DEF IInv

\* A check that passes has seen the latch cleared, which a flash at work refuses.
LEMMA PassedKeepsInv ==
    ASSUME IInv, NEW v \in BOOLEAN, v => ~wel, at \in {"isSet", "isClear"}, Passed(v)
    PROVE  IInv'
  <1>1. /\ job.op = "check" /\ at' = "idle" /\ known' = (known \/ v) /\ status' \in {0, -1}
        /\ UNCHANGED <<mem, wel, work, job, cmd, adr, j, erased, result, before, calls, resets>>
    BY DEF Passed, IInv, ReadyInv, flash
  <1>2. TypeOK'
    BY <1>1 DEF IInv, TypeOK
  <1>3. ReadyInv'
    BY <1>1 DEF IInv, ReadyInv, busy
  <1>4. CallInv' /\ HugeInv'
    BY <1>1 DEF CallInv, HugeInv, Reads, Writes
  <1>5. QED
    BY <1>2, <1>3, <1>4 DEF IInv

LEMMA HugeEraseKeepsInv == IInv /\ HugeErase => IInv'
  <1> SUFFICES ASSUME IInv, HugeErase PROVE IInv'
    OBVIOUS
  <1>1. /\ at = "loop" /\ at' = "wren" /\ adr >= erased + SECTOR /\ erased' = adr /\ cmd' = Erase(adr)
        /\ UNCHANGED <<mem, wel, work, job, adr, j, result, status, before, known, calls, resets>>
    BY DEF HugeErase, NextSector, flash, book
  <1>2. TypeOK /\ ReadyInv /\ HugeInv /\ adr \in Nat /\ erased \in Nat /\ job.op = "write_huge"
    BY <1>1 DEF IInv, TypeOK, ReadyInv
  <1>3. cmd' \in Frame /\ Len(cmd'.data) <= PAGE /\ cmd'.op = "erase"
    BY <1>1, <1>2, EraseType DEF Erase
  <1>4. TypeOK'
    <2>1. work = None \/ resets < RESETS
      BY <1>1, <1>2 DEF ReadyInv, busy
    <2>2. QED
      BY <1>1, <1>2, <1>3, <2>1 DEF TypeOK
  <1>5. ReadyInv'
    BY <1>1, <1>2, <1>3 DEF ReadyInv, busy
  <1>6. CallInv'
    BY <1>1, <1>2 DEF CallInv, Reads, Writes
  <1>7. HugeInv'
    <2> SUFFICES ASSUME known, job.addr % SECTOR = 0
                 PROVE  adr % SECTOR = 0
      BY <1>1, <1>2, <1>3, SectorBase DEF HugeInv
    <2>1. erased % SECTOR = 0 /\ adr - erased \in 0..SECTOR
      BY <1>1, <1>2 DEF HugeInv
    <2>2. adr = erased + SECTOR
      BY <1>1, <1>2, <2>1, SectorBase
    <2>3. QED
      BY <1>2, <2>1, <2>2, SectorBase
  <1>8. QED
    BY <1>4, <1>5, <1>6, <1>7 DEF IInv

LEMMA HugePageKeepsInv == IInv /\ HugePage => IInv'
  <1> SUFFICES ASSUME IInv, HugePage PROVE IInv'
    OBVIOUS
  <1> DEFINE d == SubSeq(job.data, 1, PAGE)
  <1>1. /\ at = "loop" /\ at' = "wren" /\ ~(adr >= erased + SECTOR) /\ cmd' = Program(adr, d)
        /\ adr' = adr + PAGE /\ j' = j + PAGE
        /\ UNCHANGED <<mem, wel, work, job, erased, result, status, before, known, calls, resets>>
    BY DEF HugePage, NextSector, flash, book
  <1>2. /\ TypeOK /\ ReadyInv /\ HugeInv /\ job.op = "write_huge"
        /\ adr \in Nat /\ erased \in Nat /\ j \in Nat /\ PAGE \in Nat \ {0}
    BY <1>1, SectorBase DEF IInv, TypeOK, ReadyInv
  <1>3. d \in Seq(SUBSET BITS) /\ Len(d) = PAGE
    <2>1. job \in JOBS
      BY <1>2 DEF TypeOK, NoCall
    <2>2. job.data \in Seq(SUBSET BITS) /\ Len(job.data) >= PAGE
      BY <1>2, <2>1, JobsAssumption
    <2>3. QED
      BY <1>2, <2>2, CutData
  <1> HIDE DEF d
  <1>4. /\ cmd' \in Frame /\ cmd'.op = "program" /\ cmd'.addr = adr % SIZE
        /\ Len(cmd'.data) <= PAGE
    BY <1>1, <1>2, <1>3, ProgramType DEF Program
  <1>5. TypeOK'
    <2>1. work = None \/ resets < RESETS
      BY <1>1, <1>2 DEF ReadyInv, busy
    <2>2. QED
      BY <1>1, <1>2, <1>4, <2>1 DEF TypeOK
  <1>6. ReadyInv'
    BY <1>1, <1>2, <1>4 DEF ReadyInv, busy
  <1>7. CallInv'
    BY <1>1, <1>2 DEF CallInv, Reads, Writes
  <1>8. HugeInv'
    <2> SUFFICES ASSUME known, job.addr % SECTOR = 0
                 PROVE  HugeInv'
      BY <1>1 DEF HugeInv
    <2> DEFINE off == adr - erased
    <2>1. erased % SECTOR = 0 /\ off \in 0..SECTOR /\ off % PAGE = 0 /\ Ahead(off)
      BY <1>1, <1>2 DEF HugeInv
    <2>2. off \in Nat /\ off < SECTOR
      BY <1>1, <1>2, <2>1, SectorBase
    <2>3. (off + PAGE) % PAGE = 0 /\ off + PAGE \in 0..SECTOR /\ off + PAGE >= PAGE
      BY <1>2, <2>1, <2>2, NextOffset, SectorBase
    <2>4. adr' - erased' = off + PAGE /\ adr' - PAGE = adr /\ (off + PAGE) - PAGE = off
      BY <1>1, <1>2
    <2>5. /\ \A x \in SectorOf(erased % SIZE) : x % SECTOR >= off => mem[x] = {}
          /\ \A x \in SectorOf(erased % SIZE) : x % SECTOR >= off + PAGE => mem[x] = {}
      <3>1. \A x \in SectorOf(erased % SIZE) : x % SECTOR >= off => mem[x] = {}
        BY <2>1 DEF Ahead
      <3>2. \A x \in SectorOf(erased % SIZE) : x % SECTOR \in Nat
        BY SectorBase DEF SectorOf
      <3>3. QED
        BY <1>2, <2>2, <3>1, <3>2
    <2> HIDE DEF off
    <2>6. /\ \A x \in SectorOf(erased' % SIZE) : x % SECTOR >= adr' - erased' => mem'[x] = {}
          /\ \A x \in SectorOf(erased' % SIZE) : x % SECTOR >= (adr' - erased') - PAGE => mem'[x] = {}
      BY <1>1, <2>4, <2>5
    <2>7. /\ erased' % SECTOR = 0 /\ adr' - erased' \in 0..SECTOR /\ (adr' - erased') % PAGE = 0
          /\ adr' - erased' >= PAGE /\ cmd'.addr = (adr' - PAGE) % SIZE
      BY <1>1, <1>4, <2>1, <2>3, <2>4
    <2>8. QED
      BY <1>1, <1>4, <2>6, <2>7 DEF HugeInv, Ahead
  <1>9. QED
    BY <1>5, <1>6, <1>7, <1>8 DEF IInv

\* The CPU restarts in the middle of anything; nothing is known of the flash then.
LEMMA ResetKeepsInv == IInv /\ Reset => IInv'
  <1> SUFFICES ASSUME IInv, Reset PROVE IInv'
    OBVIOUS
  <1>1. /\ known' = FALSE /\ at' = "idle" /\ result' = <<>> /\ status' = -1
        /\ resets > 0 /\ resets' = resets - 1
        /\ UNCHANGED <<mem, wel, work, job, cmd, adr, j, erased, before, calls>>
    BY DEF Reset, flash
  <1>2. resets' < RESETS /\ resets' \in 0..RESETS
    BY <1>1, GeometryAssumption DEF IInv, TypeOK
  <1>3. TypeOK'
    <2>1. <<>> \in Seq(SUBSET BITS) /\ Len(<<>>) <= PAGE
      BY SectorBase
    <2>2. QED
      BY <1>1, <1>2, <2>1 DEF IInv, TypeOK
  <1>4. ReadyInv'
    BY <1>1, <1>2 DEF IInv, ReadyInv, busy
  <1>5. CallInv' /\ HugeInv'
    BY <1>1 DEF CallInv, HugeInv
  <1>6. QED
    BY <1>3, <1>4, <1>5 DEF IInv

-----------------------------------------------------------------------------
(* The theorems. *)

LEMMA InitInv == Init => IInv
  <1> SUFFICES ASSUME Init PROVE IInv
    OBVIOUS
  <1>1. None \in Frame /\ Len(None.data) <= PAGE
    BY AddressType, SectorBase DEF None, Frame
  <1>2. mem \in [Address -> SUBSET BITS]
    BY DEF Init
  <1>3. TypeOK
    <2>1. <<>> \in Seq(SUBSET BITS) /\ Len(<<>>) <= PAGE
      BY SectorBase
    <2>2. CALLS \in Nat /\ RESETS \in 0..RESETS
      BY GeometryAssumption
    <2>3. QED
      BY <1>1, <1>2, <2>1, <2>2 DEF Init, TypeOK
  <1>4. ReadyInv /\ CallInv /\ HugeInv
    BY DEF Init, ReadyInv, CallInv, HugeInv, busy, NoCall, Reads, Writes
  <1>5. QED
    BY <1>3, <1>4 DEF IInv

LEMMA StepKeepsInv == IInv /\ [Next]_vars => IInv'
  <1> SUFFICES ASSUME IInv, [Next]_vars PROVE IInv'
    OBVIOUS
  <1>1. CASE Wren \/ Work \/ Wip \/ HugeErase \/ HugePage
    BY <1>1, WrenKeepsInv, WorkKeepsInv, WipKeepsInv, HugeEraseKeepsInv, HugePageKeepsInv
  <1>2. CASE HugeDone \/ CheckSet \/ CheckClear
    BY <1>2, PlainKeepsInv DEF HugeDone, CheckSet, CheckClear
  <1>3. CASE CheckIsSet
    <2>1. CASE Passed(FALSE)
      BY <1>3, <2>1, PassedKeepsInv DEF CheckIsSet
    <2>2. CASE UNCHANGED flash /\ Goto("clear")
      BY <1>3, <2>2, PlainKeepsInv DEF CheckIsSet
    <2>3. QED
      BY <1>3, <2>1, <2>2 DEF CheckIsSet
  <1>4. CASE CheckIsClear
    <2>1. (~wel) \in BOOLEAN /\ at = "isClear" /\ Passed(~wel)
      BY <1>4 DEF CheckIsClear, IInv, TypeOK
    <2>2. QED
      BY <2>1, PassedKeepsInv
  <1>5. CASE FlashDone \/ Reset
    BY <1>5, FlashDoneKeepsInv, ResetKeepsInv
  <1>6. CASE \E c \in JOBS : CallCheck(c) \/ CallRead(c) \/ CallWrite(c) \/ CallErase(c) \/ CallHuge(c)
    BY <1>6, CallCheckKeepsInv, CallReadKeepsInv, CallWriteKeepsInv, CallEraseKeepsInv,
       CallHugeKeepsInv
  <1>7. CASE UNCHANGED vars
    <2>1. UNCHANGED <<job, at, cmd, adr, j, erased, result, status, mem, wel, work,
                      before, known, calls, resets>>
      BY <1>7 DEF vars, driver, flash, book
    <2>2. TypeOK'
      BY <2>1 DEF IInv, TypeOK
    <2>3. ReadyInv' /\ CallInv'
      BY <2>1 DEF IInv, ReadyInv, CallInv, busy
    <2>4. HugeInv'
      BY <2>1 DEF IInv, HugeInv, Ahead, busy
    <2>5. QED
      BY <2>2, <2>3, <2>4 DEF IInv
  <1>8. QED
    BY <1>1, <1>2, <1>3, <1>4, <1>5, <1>6, <1>7 DEF Next, Step

\* The driver and the flash keep together, restarts included.
THEOREM InvAlways == Spec => []IInv
  BY InitInv, StepKeepsInv, PTL DEF Spec

\* No frame is longer than a page, no read returns more than one, and until a
\* restart the flash does nothing but the frame the driver sent last.
THEOREM TypeCorrect == Spec => []TypeOK
  <1>1. IInv => TypeOK
    BY DEF IInv
  <1>2. QED
    BY <1>1, InvAlways, PTL

\* neo_spi_flash_check succeeds on a ready flash only, whatever a restart left it
\* doing, and every call of the driver after that returns with the flash ready.
THEOREM CheckAlwaysMeansReady == Spec => []CheckMeansReady
  <1>1. IInv => CheckMeansReady
    BY DEF IInv, ReadyInv, CheckMeansReady
  <1>2. QED
    BY <1>1, InvAlways, PTL

LEMMA InvLanded == IInv => Landed
  <1> SUFFICES ASSUME IInv, at = "idle", known PROVE Landed
    BY DEF Landed
  <1>1. TypeOK /\ ReadyInv /\ CallInv /\ ~busy /\ before \in Mems /\ mem \in Mems
    BY DEF IInv, TypeOK, ReadyInv, Mems
  <1>2. job.op \in Writes \cup {"erase_sector"} => job \in JOBS /\ mem = Worked(Due(job), before)
    BY <1>1 DEF TypeOK, CallInv, NoCall, Writes
  <1>3. CASE job.op \in Writes /\ Span(job) \subseteq PageOf(job.addr)
    <2>1. ASSUME NEW x \in Address
          PROVE  mem[x] = before[x] \cup IF x \in Span(job) THEN job.data[x - job.addr + 1] ELSE {}
      <3>1. /\ Due(job) \in Frame /\ Due(job).op = "program"
            /\ Added(Due(job), x) = IF x \in Span(job) THEN job.data[x - job.addr + 1] ELSE {}
        BY <1>2, <1>3, SpanHit
      <3>2. mem[x] = before[x] \cup Added(Due(job), x)
        BY <1>1, <1>2, <1>3, <3>1, Programmed
      <3>3. QED
        BY <3>1, <3>2
    <2>2. mem = [x \in Address |->
                    before[x] \cup IF x \in Span(job) THEN job.data[x - job.addr + 1] ELSE {}]
      BY <1>1, <2>1 DEF Mems
    <2>3. QED
      BY <1>3, <2>2 DEF Landed, Writes, Reads
  <1>4. CASE job.op \in Writes /\ ~(Span(job) \subseteq PageOf(job.addr))
    <2>1. ASSUME NEW x \in Address \ PageOf(job.addr) PROVE mem[x] = before[x]
      <3>1. Due(job) \in Frame /\ Due(job).op = "program" /\ Due(job).addr = job.addr
        BY <1>2, <1>4, DueType DEF Writes
      <3>2. mem[x] = before[x] \cup Added(Due(job), x)
        BY <1>1, <1>2, <1>4, <3>1, Programmed
      <3>3. Added(Due(job), x) = {}
        BY <3>1, PageKept
      <3>4. QED
        BY <3>2, <3>3
    <2>2. QED
      BY <1>4, <2>1 DEF Landed, Writes, Reads
  <1>5. CASE job.op = "erase_sector"
    <2>1. Due(job) \in Frame /\ Due(job).op = "erase" /\ Due(job).addr = job.addr
      BY <1>2, <1>5, DueType
    <2>2. ASSUME NEW x \in Address
          PROVE  mem[x] = IF x \in SectorOf(job.addr) THEN {} ELSE before[x]
      BY <1>1, <1>2, <1>5, <2>1, Wiped
    <2>3. mem = [x \in Address |-> IF x \in SectorOf(job.addr) THEN {} ELSE before[x]]
      BY <1>1, <2>2 DEF Mems
    <2>4. QED
      BY <1>5, <2>3 DEF Landed, Writes, Reads
  <1>6. CASE job.op \in Reads
    BY <1>1, <1>6 DEF CallInv, Landed, Writes, Reads
  <1>7. CASE job.op \notin Writes \cup Reads \cup {"erase_sector"}
    BY <1>7 DEF Landed
  <1>8. QED
    BY <1>3, <1>4, <1>5, <1>6, <1>7

\* On a flash known to be ready, a write, an erase and a read do to the array what
\* they are called for and nothing else; a write that is too long keeps to its page.
THEOREM EveryCallLands == Spec => []Landed
  BY InvLanded, InvAlways, PTL

\* From the base of a sector on, the huge write programs erased pages only, folded
\* addresses at the end of the flash included.
THEOREM HugePagesAlwaysErased == Spec => []HugePagesErased
  <1>1. ASSUME IInv PROVE HugePagesErased
    <2> SUFFICES ASSUME at = "work", known, cmd.op = "program", job.op = "write_huge",
                        job.addr % SECTOR = 0, NEW x \in PageOf(cmd.addr)
                 PROVE  mem[x] = {}
      BY DEF HugePagesErased
    <2> DEFINE off == adr - erased
    <2>1. TypeOK /\ adr \in Nat /\ erased \in Nat /\ PAGE \in Nat \ {0} /\ SECTOR \in Nat \ {0}
      BY <1>1, SectorBase DEF IInv, TypeOK
    <2>2. /\ erased % SECTOR = 0 /\ off \in 0..SECTOR /\ off % PAGE = 0
          /\ off >= PAGE /\ cmd.addr = (adr - PAGE) % SIZE /\ Ahead(off - PAGE)
      BY <1>1 DEF IInv, HugeInv
    <2>3. /\ (off - PAGE) % PAGE = 0 /\ off - PAGE \in 0..(SECTOR - 1)
          /\ adr - PAGE = erased + (off - PAGE)
      <3>1. off - PAGE \in 0..(SECTOR - 1) /\ off \in Nat
        BY <2>1, <2>2
      <3>2. adr - PAGE = erased + (off - PAGE)
        BY <2>1
      <3>3. (off - PAGE) % PAGE = 0
        BY <2>2, <3>1, NextOffset
      <3>4. QED
        BY <3>1, <3>2, <3>3
    <2>4. x \in Address
      BY DEF PageOf
    <2>5. x \in SectorOf(erased % SIZE) /\ x % SECTOR >= off - PAGE
      BY <2>1, <2>2, <2>3, <2>4, HugePageAt
    <2>6. QED
      BY <2>2, <2>5 DEF Ahead
  <1>2. IInv => HugePagesErased
    BY <1>1
  <1>3. QED
    BY <1>2, InvAlways, PTL
================================================================================
