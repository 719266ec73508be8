---------------------------- MODULE NeoExec_proofs ----------------------------
(* Proofs about NeoExec for every set of accepted transactions of any length,  *)
(* every answer of the slave and every value of the GPIO port.                 *)
EXTENDS NeoExec, SequenceInduction, SequenceTheorems, TLAPS

Events == Bus!Bytes \cup {Bus!Start, Bus!Stop}
InTenure == {"ctrl", "addr", "write", "read"}

-----------------------------------------------------------------------------
(* Transactions and what is printed. *)

\* The command that is being run.
LEMMA CmdType ==
    ASSUME TypeOK, at \notin {"idle", "command"}
    PROVE  /\ job \in TXNS /\ ci \in 1..Len(job.cmds)
           /\ job.pool \in Seq(0..255)
           /\ cmd \in Command_t
           /\ cmd.payload_off + cmd.payload_len <= Len(job.pool)
           /\ cmd.kind = "write" => cmd.ctrl_byte \in {160, 162}
           /\ cmd.kind = "read"  => cmd.ctrl_byte \in {161, 163}
  <1>1. job \in TXNS /\ ci \in 1..Len(job.cmds)
    BY DEF TypeOK, NoJob
  <1>2. QED
    BY <1>1, TxnsAssumption DEF cmd

\* The commands of a transaction, the empty one of the start included.
LEMMA JobType == ASSUME TypeOK PROVE Len(job.cmds) \in Nat
  BY TxnsAssumption DEF TypeOK, NoJob

LEMMA PutAllType ==
    ASSUME NEW T, out \in Seq(Seq(T)), Len(out) > 0, NEW s \in Seq(T), PutAll(s)
    PROVE  out' \in Seq(Seq(T)) /\ Len(out') > 0
  <1>1. out[Len(out)] \in Seq(T)
    BY ElementOfSeq
  <1>2. out[Len(out)] \o s \in Seq(T)
    BY <1>1, ConcatProperties
  <1>3. QED
    BY <1>2 DEF PutAll

LEMMA PutLineType ==
    ASSUME NEW T, out \in Seq(Seq(T)), Len(out) > 0, NEW s \in Seq(T), PutLine(s)
    PROVE  out' \in Seq(Seq(T)) /\ Len(out') > 0
  <1> DEFINE o == [out EXCEPT ![Len(out)] = @ \o s]
  <1>1. out[Len(out)] \in Seq(T)
    BY ElementOfSeq
  <1>2. out[Len(out)] \o s \in Seq(T)
    BY <1>1, ConcatProperties
  <1>3. o \in Seq(Seq(T))
    BY <1>2
  <1>4. <<>> \in Seq(T)
    OBVIOUS
  <1>5. QED
    BY <1>3, <1>4, AppendProperties DEF PutLine

LEMMA PairInSeq == ASSUME NEW T, NEW x \in T, NEW y \in T PROVE <<x, y>> \in Seq(T)
  OBVIOUS

LEMMA ItemTypes ==
    /\ Acked \in Item /\ Refused \in Item
    /\ \A s \in {"+", "-", "gpio <=", "gpio =>", "help"} : Words(s) \in Item
    /\ \A b \in 0..255 : <<"hex", b>> \in Item /\ <<"bin", b>> \in Item
    /\ \A ack : Mark(ack) \in Item
    /\ \A b \in 0..255 : \A f : Shown(b, f) \in Item
  <1>1. Acked \in Item /\ Refused \in Item
    <2>1. Acked \in Fixed /\ Refused \in Fixed
      BY DEF Acked, Refused, Fixed
    <2>2. QED
      BY <2>1 DEF Item
  <1>2. \A s \in {"+", "-", "gpio <=", "gpio =>", "help"} : Words(s) \in Item
    <2>1. \A s \in {"+", "-", "gpio <=", "gpio =>", "help"} : Words(s) \in Fixed
      BY DEF Words, Fixed
    <2>2. QED
      BY <2>1 DEF Item
  <1>3. \A b \in 0..255 : <<"hex", b>> \in Item /\ <<"bin", b>> \in Item /\ <<"chr", b>> \in Item
    <2>1. \A f \in {"hex", "bin", "chr"}, b \in 0..255 : <<f, b>> \in ByteShown
      BY DEF ByteShown
    <2>2. QED
      BY <2>1 DEF Item
  <1>4. \A ack : Mark(ack) \in Item
    BY <1>1 DEF Mark
  <1>5. \A b \in 0..255 : \A f : Shown(b, f) \in Item
    <2> TAKE b \in 0..255
    <2> TAKE f
    <2> DEFINE c == IF b \in 32..126 THEN b ELSE 46
    <2>1. c \in 0..255
      OBVIOUS
    <2>2. Shown(b, f) \in {<<"bin", b>>, <<"chr", c>>, <<"hex", b>>}
      <3>1. CASE f = ch_b
        BY <3>1 DEF Shown
      <3>2. CASE f = ch_a
        BY <3>2 DEF Shown, ch_a, ch_b
      <3>3. CASE f # ch_b /\ f # ch_a
        BY <3>3 DEF Shown
      <3>4. QED
        BY <3>1, <3>2, <3>3
    <2> HIDE DEF c
    <2>3. <<"bin", b>> \in Item /\ <<"chr", c>> \in Item /\ <<"hex", b>> \in Item
      BY <1>3, <2>1
    <2>4. QED
      BY <2>2, <2>3, Zenon
  <1>6. QED
    BY <1>1, <1>2, <1>3, <1>4, <1>5

-----------------------------------------------------------------------------
(* The trace of the wires. *)

LEMMA WireAppended ==
    ASSUME NEW S, wire \in Seq(S), NEW e \in S, wire' = Append(wire, e)
    PROVE  /\ wire' \in Seq(S) /\ wire' # <<>> /\ Len(wire') = Len(wire) + 1
           /\ wire'[Len(wire')] = e /\ wire'[Len(wire) + 1] = e
           /\ \A j \in 1..Len(wire) : wire'[j] = wire[j]
           /\ Bus!Front(wire') = wire /\ Bus!Last(wire') = e
  <1>1. /\ wire' \in Seq(S) /\ wire' # <<>> /\ Len(wire') = Len(wire) + 1
        /\ wire'[Len(wire')] = e /\ wire'[Len(wire) + 1] = e
        /\ \A j \in 1..Len(wire) : wire'[j] = wire[j]
    BY AppendProperties
  <1>2. SubSeq(wire', 1, Len(wire') - 1) = wire
    BY <1>1, HeadTailAppend
  <1>3. QED
    BY <1>1, <1>2 DEF Bus!Front, Bus!Last

\* A START with none after it opened the tenure.
LEMMA LastStartUnique ==
    ASSUME NEW S, NEW w \in Seq(S), NEW k \in 1..Len(w), w[k].op = "start",
           \A j \in (k + 1)..Len(w) : w[j].op # "start"
    PROVE  Bus!LastStart(w) = k
  <1> DEFINE P(i) == w[i].op = "start" /\ \A j \in (i + 1)..Len(w) : w[j].op # "start"
  <1>1. \A i \in 1..Len(w) : P(i) => i = k
    <2> SUFFICES ASSUME NEW i \in 1..Len(w), P(i), i # k PROVE FALSE
      OBVIOUS
    <2>1. CASE i < k
      BY <2>1
    <2>2. CASE i > k
      BY <2>2
    <2>3. QED
      BY <2>1, <2>2
  <1>2. P(k)
    OBVIOUS
  <1>3. Bus!LastStart(w) = CHOOSE i \in 1..Len(w) : P(i)
    BY DEF Bus!LastStart
  <1> HIDE DEF P
  <1>4. QED
    BY <1>1, <1>2, <1>3

\* What the observer knows of an open tenure is where the executor is.
LEMMA TenureSeen ==
    ASSUME IInv, at \in InTenure
    PROVE  /\ Bus!Held(wire)
           /\ Bus!Sent(wire) = BytesSent /\ BytesSent \in Nat
           /\ BytesSent > 0 => (Bus!IsReadTenure(wire) <=> cmd.kind = "read")
           /\ at = "read" /\ bi > 0 => wire[Len(wire)].mack = IF bi = cmd.rd_len THEN 0 ELSE 1
  <1> USE DEF InTenure
  <1>1. PICK k \in 1..Len(wire) :
            /\ wire[k] = Bus!Start
            /\ Len(wire) = k + BytesSent
            /\ \A j \in 1..BytesSent : wire[k + j] \in Bus!Bytes /\ wire[k + j].tx = DueByte(j)
            /\ at = "read" /\ bi > 0 => wire[Len(wire)].mack = IF bi = cmd.rd_len THEN 0 ELSE 1
    BY DEF IInv, TenureInv
  <1>2. wire \in Seq(Events)
    BY DEF IInv, TenureInv, Events
  <1>3. BytesSent \in Nat
    BY CmdType DEF IInv, TypeOK, BytesSent, Command_t
  <1>4. wire[k].op = "start"
    BY <1>1 DEF Bus!Start
  <1>5. \A j \in 1..BytesSent : wire[k + j].op = "byte"
    BY <1>1 DEF Bus!Bytes
  <1>6. \A j \in (k + 1)..Len(wire) : wire[j].op = "byte"
    <2> SUFFICES ASSUME NEW j \in (k + 1)..Len(wire) PROVE wire[j].op = "byte"
      OBVIOUS
    <2>1. j - k \in 1..BytesSent /\ k + (j - k) = j
      BY <1>1, <1>3
    <2>2. QED
      BY <1>5, <2>1
  <1>7. Bus!LastStart(wire) = k
    BY <1>2, <1>4, <1>6, LastStartUnique
  <1>8. Bus!Held(wire)
    <2>1. wire[Len(wire)].op \in {"start", "byte"}
      BY <1>1, <1>2, <1>3, <1>4, <1>6
    <2>2. QED
      BY <1>2, <2>1 DEF Bus!Held
  <1>9. BytesSent > 0 => (Bus!IsReadTenure(wire) <=> cmd.kind = "read")
    <2> SUFFICES ASSUME BytesSent > 0 PROVE Bus!IsReadTenure(wire) <=> cmd.kind = "read"
      OBVIOUS
    <2>1. wire[k + 1].tx = cmd.ctrl_byte
      BY <1>1, <1>3 DEF DueByte
    <2>2. cmd.kind \in {"write", "read"}
      BY DEF IInv, TypeOK
    <2>3. QED
      BY <1>7, <2>1, <2>2, CmdType DEF IInv, Bus!IsReadTenure
  <1>10. Bus!Sent(wire) = BytesSent
    BY <1>1, <1>2, <1>3, <1>7 DEF Bus!Sent
  <1>11. QED
    BY <1>1, <1>3, <1>8, <1>9, <1>10
-----------------------------------------------------------------------------
(* Each step keeps the invariant. *)

\* One more byte of the command is out, and it is the one that is due.
LEMMA NextByte ==
    ASSUME IInv, at \in InTenure, at' \in InTenure, UNCHANGED <<job, ci>>,
           NEW e \in Bus!Bytes, wire' = Append(wire, e),
           e.tx = DueByte(BytesSent + 1), BytesSent' = BytesSent + 1,
           at' = "read" /\ bi' > 0 => e.mack = IF bi' = cmd.rd_len THEN 0 ELSE 1
    PROVE  TenureInv'
  <1> USE DEF InTenure
  <1>1. PICK k \in 1..Len(wire) :
            /\ wire[k] = Bus!Start
            /\ Len(wire) = k + BytesSent
            /\ \A j \in 1..BytesSent : wire[k + j] \in Bus!Bytes /\ wire[k + j].tx = DueByte(j)
    BY DEF IInv, TenureInv
  <1>2. wire \in Seq(Events) /\ e \in Events
    BY DEF IInv, TenureInv, Events
  <1>3. BytesSent \in Nat
    BY TenureSeen
  <1>4. /\ wire' \in Seq(Events) /\ Len(wire') = Len(wire) + 1
        /\ wire'[Len(wire')] = e
        /\ \A j \in 1..Len(wire) : wire'[j] = wire[j]
    BY <1>2, WireAppended
  <1>5. \A j : DueByte(j)' = DueByte(j)
    BY DEF DueByte, cmd
  <1>6. k \in 1..Len(wire') /\ wire'[k] = Bus!Start' /\ Len(wire') = k + BytesSent'
    BY <1>1, <1>2, <1>3, <1>4 DEF Bus!Start
  <1>7. ASSUME NEW j \in 1..(BytesSent + 1)
        PROVE  wire'[k + j] \in Bus!Bytes /\ wire'[k + j].tx = DueByte(j)
    <2>1. CASE j <= BytesSent
      <3>1. j \in 1..BytesSent /\ k + j \in 1..Len(wire)
        BY <1>1, <1>2, <1>3, <2>1
      <3>2. QED
        BY <1>1, <1>4, <3>1
    <2>2. CASE j = BytesSent + 1
      BY <1>1, <1>2, <1>3, <1>4, <2>2
    <2>3. j <= BytesSent \/ j = BytesSent + 1
      BY <1>3
    <2>4. QED
      BY <2>1, <2>2, <2>3, Zenon
  <1>8. at' = "read" /\ bi' > 0 => wire'[Len(wire')].mack = IF bi' = cmd.rd_len' THEN 0 ELSE 1
    BY <1>4 DEF cmd
  <1>9. QED
    BY <1>4, <1>5, <1>6, <1>7, <1>8 DEF TenureInv, Events, Bus!Bytes, Bus!Start, Bus!Stop

\* A byte that is sent releases SDA for the acknowledge and is printed.
LEMMA SendByteDoes ==
    ASSUME TypeOK, NEW v \in 0..255, SendByte(v)
    PROVE  /\ out' \in Seq(Seq(Item)) /\ Len(out') > 0
           /\ \E e \in Bus!Bytes : e.tx = v /\ e.mack = 0 /\ wire' = Append(wire, e)
  <1>1. PICK ack \in {0, 1} : Exchange(v, 0, ack, v) /\ PutAll(<<<<"hex", v>>, Mark(ack)>>)
    BY DEF SendByte
  <1>2. <<<<"hex", v>>, Mark(ack)>> \in Seq(Item)
    <2>1. <<"hex", v>> \in Item /\ Mark(ack) \in Item
      BY ItemTypes
    <2>2. QED
      BY <2>1
  <1>3. out' \in Seq(Seq(Item)) /\ Len(out') > 0
    BY <1>1, <1>2, PutAllType DEF TypeOK
  <1> DEFINE e == [op |-> "byte", tx |-> v, mack |-> 0, ack |-> ack, rx |-> v]
  <1>4. e \in Bus!Bytes /\ e.tx = v /\ e.mack = 0 /\ wire' = Append(wire, e)
    BY <1>1 DEF Exchange, Bus!Bytes
  <1>5. QED
    BY <1>3, <1>4

LEMMA SendCtrlKeepsInv == IInv /\ SendCtrl => IInv'
  <1> SUFFICES ASSUME IInv, SendCtrl PROVE IInv'
    OBVIOUS
  <1> USE DEF SendCtrl
  <1>1. TypeOK /\ cmd \in Command_t
    BY CmdType DEF IInv
  <1>2. cmd.ctrl_byte \in 0..255 /\ cmd' = cmd
    BY <1>1 DEF Command_t, cmd
  <1>3. PICK e \in Bus!Bytes : e.tx = cmd.ctrl_byte /\ wire' = Append(wire, e)
    BY <1>1, <1>2, SendByteDoes
  <1>4. TypeOK'
    BY <1>1, <1>2, SendByteDoes DEF TypeOK
  <1>5. e.tx = DueByte(BytesSent + 1) /\ BytesSent' = BytesSent + 1
    BY <1>3 DEF DueByte, BytesSent
  <1>6. TenureInv'
    BY <1>3, <1>5, NextByte DEF InTenure
  <1>7. QED
    BY <1>4, <1>6 DEF IInv

LEMMA SendAddrKeepsInv == IInv /\ SendAddr => IInv'
  <1> SUFFICES ASSUME IInv, SendAddr PROVE IInv'
    OBVIOUS
  <1> USE DEF SendAddr
  <1>1. TypeOK /\ cmd \in Command_t /\ cmd.kind \in {"write", "read"}
    BY CmdType DEF IInv, TypeOK
  <1>2. cmd.internal_addr \in 0..255 /\ cmd' = cmd
    BY <1>1 DEF Command_t, cmd
  <1>3. PICK e \in Bus!Bytes : e.tx = cmd.internal_addr /\ wire' = Append(wire, e)
    BY <1>1, <1>2, SendByteDoes
  <1>4. TypeOK'
    <2>1. cmd.payload_len \in Nat /\ cmd.rd_len \in Nat
      BY <1>1 DEF Command_t
    <2>2. out' \in Seq(Seq(Item)) /\ Len(out') > 0
      BY <1>1, <1>2, SendByteDoes
    <2>3. QED
      BY <1>1, <1>2, <2>1, <2>2 DEF TypeOK
  <1>5. e.tx = DueByte(BytesSent + 1) /\ BytesSent' = BytesSent + 1
    BY <1>1, <1>3 DEF DueByte, BytesSent
  <1>6. TenureInv'
    BY <1>1, <1>3, <1>5, NextByte DEF InTenure
  <1>7. QED
    BY <1>4, <1>6 DEF IInv

LEMMA SendPayloadKeepsInv == IInv /\ SendPayload => IInv'
  <1> SUFFICES ASSUME IInv, SendPayload PROVE IInv'
    OBVIOUS
  <1> USE DEF SendPayload
  <1>1. /\ TypeOK /\ cmd \in Command_t /\ cmd.kind = "write" /\ bi \in Nat
        /\ job.pool \in Seq(0..255) /\ cmd.payload_off + cmd.payload_len <= Len(job.pool)
    BY CmdType DEF IInv, TypeOK, Command_t
  <1>2. PayloadByte \in 0..255
    <2>1. cmd.payload_off + bi + 1 \in 1..Len(job.pool)
      BY <1>1 DEF Command_t
    <2>2. QED
      BY <1>1, <2>1, ElementOfSeq DEF PayloadByte
  <1>3. PICK e \in Bus!Bytes : e.tx = PayloadByte /\ wire' = Append(wire, e)
    BY <1>1, <1>2, SendByteDoes
  <1>4. TypeOK'
    <2>1. cmd.payload_len \in Nat /\ cmd' = cmd
      BY <1>1 DEF Command_t, cmd
    <2>2. out' \in Seq(Seq(Item)) /\ Len(out') > 0
      BY <1>1, <1>2, SendByteDoes
    <2>3. QED
      BY <1>1, <2>1, <2>2 DEF TypeOK
  <1>5. e.tx = DueByte(BytesSent + 1) /\ BytesSent' = BytesSent + 1
    <2>1. cmd.payload_off + (bi + 3) - 2 = cmd.payload_off + bi + 1
      BY <1>1 DEF Command_t
    <2>2. BytesSent + 1 = bi + 3 /\ BytesSent' = BytesSent + 1
      BY <1>1 DEF BytesSent
    <2>3. QED
      BY <1>1, <1>3, <2>1, <2>2 DEF DueByte, PayloadByte
  <1>6. TenureInv'
    BY <1>3, <1>5, NextByte DEF InTenure
  <1>7. QED
    BY <1>4, <1>6 DEF IInv

\* What a byte that is read leaves on the wires and the terminal.
LEMMA ReadByteDoes ==
    ASSUME TypeOK, ReadByte
    PROVE  /\ out' \in Seq(Seq(Item)) /\ Len(out') > 0
           /\ \E e \in Bus!Bytes : e.tx = 255 /\ e.mack = HostAck /\ wire' = Append(wire, e)
  <1>1. PICK b \in RX_BYTES, ack \in {0, 1} :
            /\ Exchange(255, HostAck, ack, b)
            /\ PutAll(<<Refused>>) \/ PutAll(<<Shown(b, cmd.rd_fmt), Refused>>)
    BY DEF ReadByte
  <1>2. b \in 0..255
    BY WireAssumption
  <1>3. <<Refused>> \in Seq(Item) /\ <<Shown(b, cmd.rd_fmt), Refused>> \in Seq(Item)
    <2>1. Refused \in Item /\ Shown(b, cmd.rd_fmt) \in Item
      BY <1>2, ItemTypes
    <2>2. QED
      BY <2>1, PairInSeq
  <1>4. out' \in Seq(Seq(Item)) /\ Len(out') > 0
    <2>1. CASE PutAll(<<Refused>>)
      BY <1>3, <2>1, PutAllType DEF TypeOK
    <2>2. CASE PutAll(<<Shown(b, cmd.rd_fmt), Refused>>)
      BY <1>3, <2>2, PutAllType DEF TypeOK
    <2>3. QED
      BY <1>1, <2>1, <2>2
  <1> DEFINE e == [op |-> "byte", tx |-> 255, mack |-> HostAck, ack |-> ack, rx |-> b]
  <1>5. e \in Bus!Bytes /\ e.tx = 255 /\ e.mack = HostAck /\ wire' = Append(wire, e)
    BY <1>1, <1>2 DEF Exchange, Bus!Bytes, HostAck
  <1>6. QED
    BY <1>4, <1>5

LEMMA ReadByteKeepsInv == IInv /\ ReadByte => IInv'
  <1> SUFFICES ASSUME IInv, ReadByte PROVE IInv'
    OBVIOUS
  <1>0. /\ at = "read" /\ bi < cmd.rd_len /\ bi' = bi + 1
        /\ UNCHANGED <<job, ci, at, gpio>>
    BY DEF ReadByte, MoreToRead
  <1>1. TypeOK /\ cmd \in Command_t /\ cmd.kind = "read" /\ bi \in Nat
    BY <1>0, CmdType DEF IInv, TypeOK, Command_t
  <1>2. PICK e \in Bus!Bytes : e.tx = 255 /\ e.mack = HostAck /\ wire' = Append(wire, e)
    BY <1>1, ReadByteDoes
  <1>3. out' \in Seq(Seq(Item)) /\ Len(out') > 0
    BY <1>1, ReadByteDoes
  <1>4. TypeOK'
    BY <1>0, <1>1, <1>3, SMTT(30) DEF TypeOK, Command_t, cmd
  <1>5. e.tx = DueByte(BytesSent + 1) /\ BytesSent' = BytesSent + 1
    BY <1>0, <1>1, <1>2 DEF DueByte, BytesSent
  <1>6. at' = "read" /\ bi' > 0 => e.mack = IF bi' = cmd.rd_len THEN 0 ELSE 1
    BY <1>0, <1>1, <1>2 DEF HostAck
  <1>7. TenureInv'
    BY <1>0, <1>2, <1>5, <1>6, NextByte DEF InTenure
  <1>8. QED
    BY <1>4, <1>7 DEF IInv

-----------------------------------------------------------------------------

\* While no tenure is open, an invariant trace is one that ends released.
LEMMA Released ==
    ASSUME TenureInv, at \notin InTenure
    PROVE  ~Bus!Held(wire) /\ wire \in Seq(Events)
  BY DEF TenureInv, InTenure, Events

LEMMA StillReleased ==
    ASSUME TenureInv, at \notin InTenure, at' \notin InTenure, UNCHANGED wire
    PROVE  TenureInv'
  BY DEF TenureInv, InTenure, Bus!Held, Bus!Bytes, Bus!Start, Bus!Stop

LEMMA EndLineKeepsType ==
    ASSUME TypeOK, at \notin {"idle", "command"}, EndLine, gpio' \in 0..255,
           out' \in Seq(Seq(Item)), Len(out') > 0
    PROVE  TypeOK'
  <1>1. ci \in 1..Len(job.cmds) /\ job \in TXNS /\ Len(job.cmds) \in Nat
    BY CmdType, JobType
  <1>2. QED
    BY <1>1 DEF TypeOK, EndLine

LEMMA RunKeepsInv == ASSUME IInv, NEW t \in TXNS, Run(t) PROVE IInv'
  <1>1. t.cmds \in Seq(Command_t)
    BY TxnsAssumption
  <1>2. TypeOK'
    BY <1>1 DEF IInv, TypeOK, Run
  <1>3. QED
    BY <1>2, StillReleased DEF IInv, Run, InTenure

LEMMA CommandKeepsInv == IInv /\ Command => IInv'
  <1> SUFFICES ASSUME IInv, Command PROVE IInv'
    OBVIOUS
  <1>1. TypeOK /\ TenureInv /\ at = "command" /\ UNCHANGED <<job, ci, bi, wire, gpio, out>>
    BY DEF IInv, Command
  <1>2. CASE ci > Len(job.cmds)
    <2>1. at' = "idle"
      BY <1>2 DEF Command
    <2>2. QED
      BY <1>1, <2>1, StillReleased DEF IInv, TypeOK, InTenure
  <1>3. CASE ~(ci > Len(job.cmds))
    <2>1. ci \in 1..Len(job.cmds) /\ job \in TXNS
      BY <1>1, <1>3, JobType DEF TypeOK, NoJob
    <2>2. cmd.kind \in {"write", "read", "gpio_out", "gpio_in", "help"} /\ cmd' = cmd
      <3>1. job.cmds \in Seq(Command_t)
        BY <2>1, TxnsAssumption
      <3>2. cmd \in Command_t
        BY <2>1, <3>1, ElementOfSeq DEF cmd
      <3>3. QED
        BY <1>1, <3>2 DEF cmd, Command_t
    <2>3. at' = IF cmd.kind \in {"write", "read"} THEN "start" ELSE cmd.kind
      BY <1>3 DEF Command
    <2>4. TypeOK'
      BY <1>1, <2>1, <2>2, <2>3 DEF TypeOK
    <2>5. at' \notin InTenure
      BY <2>2, <2>3 DEF InTenure
    <2>6. QED
      BY <1>1, <2>4, <2>5, StillReleased DEF IInv, InTenure
  <1>4. QED
    BY <1>2, <1>3

LEMMA TwiStartKeepsInv == IInv /\ TwiStart => IInv'
  <1> SUFFICES ASSUME IInv, TwiStart PROVE IInv'
    OBVIOUS
  <1>1. /\ TypeOK /\ wire \in Seq(Events) /\ at = "start" /\ at' = "ctrl"
        /\ wire' = Append(wire, Bus!Start) /\ UNCHANGED <<job, ci, bi, gpio, out>>
    BY DEF IInv, TwiStart, TenureInv, Events, Bus!Start
  <1>2. TypeOK'
    BY <1>1 DEF TypeOK, cmd
  <1>3. /\ wire' \in Seq(Events) /\ Len(wire') = Len(wire) + 1
        /\ wire'[Len(wire')] = Bus!Start
    BY <1>1, WireAppended DEF Events
  <1>4. BytesSent' = 0
    BY <1>1 DEF BytesSent
  <1>5. \E k \in 1..Len(wire') : wire'[k] = Bus!Start /\ Len(wire') = k + BytesSent'
    BY <1>1, <1>3, <1>4
  <1>6. TenureInv'
    BY <1>1, <1>3, <1>4, <1>5 DEF TenureInv, Events, Bus!Start, Bus!Stop, Bus!Bytes
  <1>7. QED
    BY <1>2, <1>6 DEF IInv

LEMMA TwiStopKeepsInv == IInv /\ TwiStop => IInv'
  <1> SUFFICES ASSUME IInv, TwiStop PROVE IInv'
    OBVIOUS
  <1>1. /\ TypeOK /\ wire \in Seq(Events) /\ at \in {"write", "read"} /\ at' = "command"
        /\ wire' = Append(wire, Bus!Stop) /\ out' = Append(out, <<>>)
        /\ EndLine /\ UNCHANGED gpio
    BY DEF IInv, TwiStop, DataDone, TenureInv, Events, Bus!Stop, EndLine
  <1>2. <<>> \in Seq(Item)
    OBVIOUS
  <1>3. out' \in Seq(Seq(Item)) /\ Len(out') > 0
    BY <1>1, <1>2, AppendProperties DEF TypeOK
  <1>4. TypeOK'
    BY <1>1, <1>3, EndLineKeepsType DEF TypeOK
  <1>5. /\ wire' \in Seq(Events) /\ Len(wire') > 0 /\ wire'[Len(wire')] = Bus!Stop
    BY <1>1, WireAppended DEF Events
  <1>6. TenureInv'
    BY <1>1, <1>5 DEF TenureInv, Events, Bus!Held, Bus!Start, Bus!Stop, Bus!Bytes
  <1>7. QED
    BY <1>4, <1>6 DEF IInv

\* The three commands that leave the bus alone.
LEMMA GpioOutKeepsInv == IInv /\ GpioOut => IInv'
  <1> SUFFICES ASSUME IInv, GpioOut PROVE IInv'
    OBVIOUS
  <1> USE DEF GpioOut
  <1>1. TypeOK /\ cmd \in Command_t
    BY CmdType DEF IInv
  <1>2. cmd.gpio_byte \in 0..255
    BY <1>1 DEF Command_t
  <1>3. <<Words("gpio <="), <<"bin", cmd.gpio_byte>>>> \in Seq(Item)
    <2>1. Words("gpio <=") \in Item /\ <<"bin", cmd.gpio_byte>> \in Item
      BY <1>2, ItemTypes
    <2>2. QED
      BY <2>1, PairInSeq
  <1>4. out' \in Seq(Seq(Item)) /\ Len(out') > 0
    BY <1>1, <1>3, PutLineType DEF TypeOK
  <1>5. QED
    BY <1>1, <1>2, <1>4, EndLineKeepsType, StillReleased DEF IInv, InTenure, EndLine

LEMMA GpioInKeepsInv == IInv /\ GpioIn => IInv'
  <1> SUFFICES ASSUME IInv, GpioIn PROVE IInv'
    OBVIOUS
  <1> USE DEF GpioIn
  <1>1. PICK v \in PINS : PutLine(<<Words("gpio =>"), <<"bin", v>>>>)
    OBVIOUS
  <1>2. <<Words("gpio =>"), <<"bin", v>>>> \in Seq(Item)
    <2>1. Words("gpio =>") \in Item /\ <<"bin", v>> \in Item
      BY WireAssumption, ItemTypes
    <2>2. QED
      BY <2>1, PairInSeq
  <1>3. out' \in Seq(Seq(Item)) /\ Len(out') > 0
    BY <1>1, <1>2, PutLineType DEF IInv, TypeOK
  <1>4. gpio' \in 0..255
    BY DEF IInv, TypeOK
  <1>5. QED
    BY <1>3, <1>4, EndLineKeepsType, StillReleased DEF IInv, InTenure, EndLine

LEMMA HelpKeepsInv == IInv /\ Help => IInv'
  <1> SUFFICES ASSUME IInv, Help PROVE IInv'
    OBVIOUS
  <1> USE DEF Help
  <1>1. <<Words("help")>> \in Seq(Item)
    <2>1. Words("help") \in Item
      BY ItemTypes
    <2>2. QED
      BY <2>1
  <1>2. out' \in Seq(Seq(Item)) /\ Len(out') > 0
    BY <1>1, PutLineType DEF IInv, TypeOK
  <1>3. gpio' \in 0..255
    BY DEF IInv, TypeOK
  <1>4. QED
    BY <1>2, <1>3, EndLineKeepsType, StillReleased DEF IInv, InTenure, EndLine

-----------------------------------------------------------------------------
(* The theorems. *)

LEMMA InitInv == Init => IInv
  <1> SUFFICES ASSUME Init PROVE IInv
    OBVIOUS
  <1>1. <<<<>>>> \in Seq(Seq(Item)) /\ Len(<<<<>>>>) > 0
    OBVIOUS
  <1>2. TypeOK
    BY <1>1 DEF Init, TypeOK, NoJob
  <1>3. TenureInv
    BY DEF Init, TenureInv, Bus!Held
  <1>4. QED
    BY <1>2, <1>3 DEF IInv

LEMMA StepKeepsInv == IInv /\ [Next]_vars => IInv'
  <1> SUFFICES ASSUME IInv, [Next]_vars PROVE IInv'
    OBVIOUS
  <1>1. CASE Step
    BY <1>1, CommandKeepsInv, TwiStartKeepsInv, SendCtrlKeepsInv, SendAddrKeepsInv,
       SendPayloadKeepsInv, ReadByteKeepsInv, TwiStopKeepsInv, GpioOutKeepsInv,
       GpioInKeepsInv, HelpKeepsInv DEF Step
  <1>2. CASE \E t \in TXNS : Run(t)
    BY <1>2, RunKeepsInv
  <1>3. CASE UNCHANGED vars
    BY <1>3, SMTT(30) DEF IInv, TypeOK, TenureInv, vars, cmd, DueByte, BytesSent,
                Bus!Held, Bus!Start, Bus!Stop, Bus!Bytes
  <1>4. QED
    BY <1>1, <1>2, <1>3 DEF Next

\* The executor is always where its command has brought the wires.
THEOREM InvAlways == Spec => []IInv
  BY InitInv, StepKeepsInv, PTL DEF Spec

\* neo_exec_run never leaves its transaction, its command or its payload.
THEOREM TypeCorrect == Spec => []TypeOK
  <1>1. IInv => TypeOK
    BY DEF IInv
  <1>2. QED
    BY <1>1, InvAlways, PTL

\* Whatever is run, no transaction leaves the bus held for the prompt.
THEOREM BusAlwaysReleased == Spec => []BusReleased
  <1>1. IInv => BusReleased
    BY DEF IInv, TypeOK, TenureInv, BusReleased
  <1>2. QED
    BY <1>1, InvAlways, PTL

\* One step of the executor is a legal event on the wires or none.
LEMMA StepIsLegal == IInv /\ [Next]_vars => [Bus!Next]_wire
  <1> SUFFICES ASSUME IInv, [Next]_vars, wire' # wire PROVE Bus!Next
    OBVIOUS
  <1> USE DEF IInv
  <1>1. wire \in Seq(Events)
    BY DEF TenureInv, Events
  <1>2. ASSUME NEW e \in Events, wire' = Append(wire, e), Bus!Allowed(wire, e)
        PROVE  Bus!Next
    BY <1>1, <1>2, WireAppended DEF Bus!Next
  <1>3. Bus!Start \in Events /\ Bus!Stop \in Events /\ Bus!Bytes \subseteq Events
    BY DEF Events
  <1>4. CASE TwiStart
    <2>1. ~Bus!Held(wire) /\ wire' = Append(wire, Bus!Start)
      BY <1>4 DEF TenureInv, TwiStart, Bus!Start
    <2>2. QED
      BY <1>2, <1>3, <2>1 DEF Bus!Allowed, Bus!MayStart
  <1>5. CASE SendCtrl
    <2>1. cmd.kind \in {"write", "read"} /\ at \notin {"idle", "command"} /\ TypeOK
      BY <1>5 DEF SendCtrl, TypeOK
    <2>2. cmd.ctrl_byte \in 160..163 /\ cmd.ctrl_byte \in 0..255
      BY <2>1, CmdType
    <2>3. PICK e \in Bus!Bytes : e.tx = cmd.ctrl_byte /\ e.mack = 0 /\ wire' = Append(wire, e)
      BY <1>5, <2>1, <2>2, SendByteDoes DEF SendCtrl
    <2>4. Bus!Held(wire) /\ Bus!Sent(wire) = 0
      BY <1>5, TenureSeen DEF SendCtrl, InTenure, BytesSent
    <2>5. QED
      BY <1>2, <1>3, <2>2, <2>3, <2>4 DEF Bus!Allowed, Bus!MaySend
  <1>6. CASE SendAddr
    <2>1. cmd \in Command_t /\ cmd.internal_addr \in 0..255
      BY <1>6, CmdType DEF SendAddr, Command_t
    <2>2. PICK e \in Bus!Bytes : e.mack = 0 /\ wire' = Append(wire, e)
      BY <1>6, <2>1, SendByteDoes DEF SendAddr
    <2>3. Bus!Held(wire) /\ Bus!Sent(wire) = 1
      BY <1>6, TenureSeen DEF SendAddr, InTenure, BytesSent
    <2>4. QED
      BY <1>2, <1>3, <2>2, <2>3 DEF Bus!Allowed, Bus!MaySend
  <1>7. CASE SendPayload
    <2>1. /\ cmd \in Command_t /\ cmd.kind = "write" /\ bi \in Nat
          /\ job.pool \in Seq(0..255) /\ cmd.payload_off + cmd.payload_len <= Len(job.pool)
      BY <1>7, CmdType DEF SendPayload, TypeOK, Command_t
    <2>2. cmd.payload_off + bi + 1 \in 1..Len(job.pool)
      BY <1>7, <2>1 DEF SendPayload, Command_t
    <2>3. PayloadByte \in 0..255
      BY <2>1, <2>2, ElementOfSeq DEF PayloadByte
    <2>4. PICK e \in Bus!Bytes : e.mack = 0 /\ wire' = Append(wire, e)
      BY <1>7, <2>3, SendByteDoes DEF SendPayload
    <2>5. Bus!Held(wire) /\ Bus!Sent(wire) = bi + 2 /\ ~Bus!IsReadTenure(wire)
      BY <1>7, <2>1, TenureSeen DEF SendPayload, InTenure, BytesSent
    <2>6. QED
      BY <1>2, <1>3, <2>1, <2>4, <2>5 DEF Bus!Allowed, Bus!MaySend
  <1>8. CASE ReadByte
    <2>1. PICK e \in Bus!Bytes : e.tx = 255 /\ wire' = Append(wire, e)
      BY <1>8, ReadByteDoes
    <2>2. at = "read" /\ cmd.kind = "read" /\ bi \in Nat /\ bi < cmd.rd_len
      BY <1>8, CmdType DEF ReadByte, MoreToRead, TypeOK, Command_t
    <2>3. /\ Bus!Held(wire) /\ Bus!Sent(wire) = bi + 2 /\ Bus!IsReadTenure(wire)
          /\ bi > 0 => wire[Len(wire)].mack = 1
      BY <2>2, TenureSeen DEF InTenure, BytesSent
    <2>4. ~Bus!ReadEnded(wire)
      BY <2>2, <2>3 DEF Bus!ReadEnded
    <2>5. QED
      BY <1>2, <1>3, <2>1, <2>2, <2>3, <2>4 DEF Bus!Allowed, Bus!MaySend
  <1>9. CASE TwiStop
    <2>1. at \in {"write", "read"} /\ cmd.kind = at /\ bi \in Nat
      BY <1>9, CmdType, SMTT(30) DEF TwiStop, DataDone, TypeOK, Command_t
    <2>2. at = "read" => bi = cmd.rd_len
      BY <1>9, <2>1, CmdType DEF TwiStop, DataDone, MoreToRead, TypeOK, Command_t
    <2>3. /\ Bus!Held(wire) /\ Bus!Sent(wire) = bi + 2
          /\ Bus!IsReadTenure(wire) => at = "read"
          /\ at = "read" /\ bi > 0 => wire[Len(wire)].mack = 0
      BY <2>1, <2>2, TenureSeen DEF InTenure, BytesSent
    <2>4. Bus!MayStop(wire)
      BY <2>1, <2>3 DEF Bus!MayStop, Bus!Complete, Bus!ReadEnded
    <2>5. wire' = Append(wire, Bus!Stop)
      BY <1>9 DEF TwiStop, Bus!Stop
    <2>6. QED
      BY <1>2, <1>3, <2>4, <2>5 DEF Bus!Allowed
  <1>10. QED
    BY <1>4, <1>5, <1>6, <1>7, <1>8, <1>9
       DEF Next, Step, vars, Run, Command, GpioOut, GpioIn, Help

\* On the wires the executor is a well-behaved I2C master, whatever it runs and
\* whatever the slave answers: header, direction, last acknowledge, STOP.
THEOREM BusAlwaysLegal == Spec => BusLegal
  <1>1. Init => Bus!Init
    BY DEF Init, Bus!Init
  <1>2. QED
    BY <1>1, InvAlways, StepIsLegal, PTL DEF Spec, BusLegal, Bus!Spec
-----------------------------------------------------------------------------
(* What has been sent.                                                       *)

\* A HAL call that moves the byte e, and what is printed with it.
ByteStep(e) ==
    /\ at \in InTenure /\ at' \in InTenure /\ UNCHANGED <<job, ci>>
    /\ wire' = Append(wire, e)
    /\ e.tx = DueByte(BytesSent + 1)
    /\ BytesSent' = BytesSent + 1
    /\ BytesSent < Len(OnWire(job, cmd))
    /\ \/ at # "read" /\ PutAll(<<<<"hex", e.tx>>, Mark(e.ack)>>)
       \/ at = "read" /\ PutAll(<<Refused>>)
       \/ at = "read" /\ \E b \in 0..255 : PutAll(<<Shown(b, cmd.rd_fmt), Refused>>)

\* The bytes of the current command, one by one.
LEMMA OnWireBytes ==
    ASSUME TypeOK, at \in InTenure
    PROVE  LET w == OnWire(job, cmd) IN
           /\ w \in Seq(0..255)
           /\ Len(w) = 2 + (IF cmd.kind = "write" THEN cmd.payload_len ELSE cmd.rd_len)
           /\ \A j \in 1..Len(w) : w[j] = DueByte(j)
  <1> DEFINE w == OnWire(job, cmd)
             h == <<cmd.ctrl_byte, cmd.internal_addr>>
  <1>1. /\ cmd \in Command_t /\ cmd.kind \in {"write", "read"}
        /\ job.pool \in Seq(0..255) /\ cmd.payload_off + cmd.payload_len <= Len(job.pool)
    BY CmdType DEF TypeOK, InTenure
  <1>2. /\ cmd.payload_off \in Nat /\ cmd.payload_len \in Nat /\ cmd.rd_len \in Nat
        /\ h \in Seq(0..255) /\ Len(h) = 2 /\ h[1] = cmd.ctrl_byte /\ h[2] = cmd.internal_addr
    BY <1>1 DEF Command_t
  <1> HIDE DEF h
  <1>3. CASE cmd.kind = "write"
    <2> DEFINE p == SubSeq(job.pool, cmd.payload_off + 1, cmd.payload_off + cmd.payload_len)
    <2>1. /\ p \in Seq(0..255) /\ Len(p) = cmd.payload_len
          /\ \A j \in 1..cmd.payload_len : p[j] = job.pool[cmd.payload_off + j]
      <3> DEFINE q == job.pool
                 a == cmd.payload_off
                 l == cmd.payload_len
      <3>1. q \in Seq(0..255) /\ a \in Nat /\ l \in Nat /\ a + l <= Len(q)
        BY <1>1, <1>2
      <3>2. p = SubSeq(q, a + 1, a + l)
        OBVIOUS
      <3> HIDE DEF p, q, a, l
      <3>3. /\ SubSeq(q, a + 1, a + l) \in Seq(0..255)
            /\ Len(SubSeq(q, a + 1, a + l)) = l
            /\ \A j \in 1..l : SubSeq(q, a + 1, a + l)[j] = q[a + j]
        BY <3>1, SliceMeans, ZenonT(60)
      <3>4. QED
        BY <3>2, <3>3 DEF q, a, l
    <2>2. w = h \o p
      BY <1>3 DEF OnWire, h
    <2> HIDE DEF p, w
    <2>3. /\ w \in Seq(0..255) /\ Len(w) = 2 + cmd.payload_len
          /\ \A j \in 1..(2 + cmd.payload_len) : w[j] = IF j <= 2 THEN h[j] ELSE p[j - 2]
      <3>1. /\ h \o p \in Seq(0..255) /\ Len(h \o p) = Len(h) + Len(p)
            /\ \A j \in 1..(Len(h) + Len(p)) :
                  (h \o p)[j] = IF j <= Len(h) THEN h[j] ELSE p[j - Len(h)]
        <4>1. h \in Seq(0..255) /\ p \in Seq(0..255)
          BY <1>2, <2>1
        <4>2. QED
          BY ONLY <4>1, ConcatProperties
      <3>2. QED
        BY <1>2, <2>1, <2>2, <3>1
    <2>4. ASSUME NEW j \in 1..Len(w)
          PROVE  w[j] = DueByte(j)
      <3>1. CASE j <= 2
        BY <1>2, <2>3, <3>1 DEF DueByte
      <3>2. CASE j > 2
        <4>1. j - 2 \in 1..cmd.payload_len /\ ~(j <= 2)
          BY <1>2, <2>3, <3>2
        <4>2. w[j] = job.pool[cmd.payload_off + (j - 2)]
          BY <2>1, <2>3, <4>1
        <4>3. cmd.payload_off + (j - 2) = cmd.payload_off + j - 2
          BY <1>2
        <4>4. QED
          BY <1>3, <3>2, <4>2, <4>3 DEF DueByte
      <3>3. QED
        BY <3>1, <3>2
    <2>5. QED
      BY <1>3, <2>3, <2>4 DEF w
  <1>4. CASE cmd.kind = "read"
    <2> DEFINE p == [k \in 1..cmd.rd_len |-> 255]
    <2>1. /\ p \in Seq(0..255) /\ Len(p) = cmd.rd_len
          /\ \A j \in 1..cmd.rd_len : p[j] = 255
      BY <1>2
    <2>2. w = h \o p
      BY <1>4 DEF OnWire, h
    <2> HIDE DEF p, w
    <2>3. /\ w \in Seq(0..255) /\ Len(w) = 2 + cmd.rd_len
          /\ \A j \in 1..(2 + cmd.rd_len) : w[j] = IF j <= 2 THEN h[j] ELSE p[j - 2]
      <3>1. /\ h \o p \in Seq(0..255) /\ Len(h \o p) = Len(h) + Len(p)
            /\ \A j \in 1..(Len(h) + Len(p)) :
                  (h \o p)[j] = IF j <= Len(h) THEN h[j] ELSE p[j - Len(h)]
        <4>1. h \in Seq(0..255) /\ p \in Seq(0..255)
          BY <1>2, <2>1
        <4>2. QED
          BY ONLY <4>1, ConcatProperties
      <3>2. QED
        BY <1>2, <2>1, <2>2, <3>1
    <2>4. ASSUME NEW j \in 1..Len(w)
          PROVE  w[j] = DueByte(j)
      <3>1. CASE j <= 2
        BY <1>2, <2>3, <3>1 DEF DueByte
      <3>2. CASE j > 2
        <4>1. j - 2 \in 1..cmd.rd_len /\ ~(j <= 2)
          BY <1>2, <2>3, <3>2
        <4>2. QED
          BY <1>4, <2>1, <2>3, <3>2, <4>1 DEF DueByte
      <3>3. QED
        BY <3>1, <3>2
    <2>5. QED
      BY <1>4, <2>3, <2>4 DEF w
  <1>5. QED
    BY <1>1, <1>3, <1>4

\* What exec_twi_byte sends, seen from both its sides.
LEMMA SendByteSeen ==
    ASSUME NEW v \in 0..255, SendByte(v)
    PROVE  \E e \in Bus!Bytes : /\ e.tx = v /\ wire' = Append(wire, e)
                                /\ PutAll(<<<<"hex", e.tx>>, Mark(e.ack)>>)
  <1>1. PICK ack \in {0, 1} : Exchange(v, 0, ack, v) /\ PutAll(<<<<"hex", v>>, Mark(ack)>>)
    BY DEF SendByte
  <1> DEFINE e == [op |-> "byte", tx |-> v, mack |-> 0, ack |-> ack, rx |-> v]
  <1>2. e \in Bus!Bytes /\ e.tx = v /\ e.ack = ack /\ wire' = Append(wire, e)
    BY <1>1 DEF Exchange, Bus!Bytes
  <1> HIDE DEF e
  <1>3. QED
    BY <1>1, <1>2

LEMMA ByteSteps ==
    ASSUME IInv, SendCtrl \/ SendAddr \/ SendPayload \/ ReadByte
    PROVE  \E e \in Bus!Bytes : ByteStep(e)
  <1>1. TypeOK /\ at \in InTenure
    BY DEF IInv, SendCtrl, SendAddr, SendPayload, ReadByte, InTenure
  <1>2. cmd \in Command_t /\ cmd.kind \in {"write", "read"}
    BY <1>1, CmdType DEF TypeOK, InTenure
  <1>3. Len(OnWire(job, cmd)) = 2 + (IF cmd.kind = "write" THEN cmd.payload_len ELSE cmd.rd_len)
    BY <1>1, OnWireBytes
  <1>4. cmd.payload_len \in Nat /\ cmd.rd_len \in Nat /\ cmd.payload_off \in Nat
    BY <1>2 DEF Command_t
  <1>5. CASE SendCtrl
    <2>1. PICK e \in Bus!Bytes : /\ e.tx = cmd.ctrl_byte /\ wire' = Append(wire, e)
                                 /\ PutAll(<<<<"hex", e.tx>>, Mark(e.ack)>>)
      BY <1>2, <1>5, SendByteSeen DEF SendCtrl, Command_t
    <2>2. e.tx = DueByte(BytesSent + 1) /\ BytesSent' = BytesSent + 1
      BY <1>5, <2>1 DEF SendCtrl, DueByte, BytesSent
    <2>3. BytesSent < Len(OnWire(job, cmd))
      BY <1>3, <1>4, <1>5 DEF SendCtrl, BytesSent
    <2>4. QED
      BY <1>5, <2>1, <2>2, <2>3 DEF SendCtrl, ByteStep, InTenure
  <1>6. CASE SendAddr
    <2>1. PICK e \in Bus!Bytes : /\ e.tx = cmd.internal_addr /\ wire' = Append(wire, e)
                                 /\ PutAll(<<<<"hex", e.tx>>, Mark(e.ack)>>)
      BY <1>2, <1>6, SendByteSeen DEF SendAddr, Command_t
    <2>2. e.tx = DueByte(BytesSent + 1) /\ BytesSent' = BytesSent + 1
      BY <1>2, <1>6, <2>1 DEF SendAddr, DueByte, BytesSent
    <2>3. BytesSent < Len(OnWire(job, cmd))
      BY <1>3, <1>4, <1>6 DEF SendAddr, BytesSent
    <2>4. QED
      BY <1>2, <1>6, <2>1, <2>2, <2>3 DEF SendAddr, ByteStep, InTenure
  <1>7. CASE SendPayload
    <2>1. /\ cmd.kind = "write" /\ bi \in Nat /\ bi < cmd.payload_len
          /\ job.pool \in Seq(0..255) /\ cmd.payload_off + cmd.payload_len <= Len(job.pool)
      BY <1>1, <1>4, <1>7, CmdType DEF SendPayload, TypeOK
    <2>2. cmd.payload_off + bi + 1 \in 1..Len(job.pool)
      BY <1>4, <2>1
    <2>3. PayloadByte \in 0..255
      BY <2>1, <2>2, ElementOfSeq DEF PayloadByte
    <2>4. PICK e \in Bus!Bytes : /\ e.tx = PayloadByte /\ wire' = Append(wire, e)
                                 /\ PutAll(<<<<"hex", e.tx>>, Mark(e.ack)>>)
      BY <1>7, <2>3, SendByteSeen DEF SendPayload
    <2>5. BytesSent + 1 = bi + 3 /\ BytesSent' = BytesSent + 1
      BY <1>7, <2>1 DEF SendPayload, BytesSent
    <2>6. e.tx = DueByte(BytesSent + 1)
      <3>1. cmd.payload_off + (bi + 3) - 2 = cmd.payload_off + bi + 1
        BY <1>4, <2>1
      <3>2. QED
        BY <2>1, <2>4, <2>5, <3>1 DEF DueByte, PayloadByte
    <2>7. BytesSent < Len(OnWire(job, cmd))
      BY <1>3, <1>4, <1>7, <2>1 DEF SendPayload, BytesSent
    <2>8. QED
      BY <1>7, <2>4, <2>5, <2>6, <2>7 DEF SendPayload, ByteStep, InTenure
  <1>8. CASE ReadByte
    <2>1. /\ at = "read" /\ at' = at /\ bi' = bi + 1 /\ bi < cmd.rd_len
          /\ UNCHANGED <<job, ci>> /\ cmd.kind = "read" /\ bi \in Nat
      BY <1>1, <1>4, <1>8 DEF ReadByte, MoreToRead, TypeOK
    <2>2. PICK b \in RX_BYTES, ack \in {0, 1} :
              /\ Exchange(255, HostAck, ack, b)
              /\ PutAll(<<Refused>>) \/ PutAll(<<Shown(b, cmd.rd_fmt), Refused>>)
      BY <1>8 DEF ReadByte
    <2>3. b \in 0..255
      BY WireAssumption
    <2> DEFINE e == [op |-> "byte", tx |-> 255, mack |-> HostAck, ack |-> ack, rx |-> b]
    <2>4. e \in Bus!Bytes /\ e.tx = 255 /\ wire' = Append(wire, e)
      BY <2>2, <2>3 DEF Exchange, Bus!Bytes, HostAck
    <2> HIDE DEF e
    <2>5. e.tx = DueByte(BytesSent + 1) /\ BytesSent' = BytesSent + 1
      BY <2>1, <2>4 DEF DueByte, BytesSent
    <2>6. BytesSent < Len(OnWire(job, cmd))
      BY <1>3, <1>4, <2>1 DEF BytesSent
    <2>7. QED
      BY <2>1, <2>2, <2>3, <2>4, <2>5, <2>6 DEF ByteStep, InTenure
  <1>9. QED
    BY <1>5, <1>6, <1>7, <1>8

\* An event on the wires adds to the column of bytes what it carries.
LEMMA ColumnGrows ==
    ASSUME NEW w \in Seq(Events), NEW e \in Events
    PROVE  /\ TxColumn(w) \in Seq(0..255)
           /\ TxColumn(Append(w, e)) = TxColumn(w) \o (IF IsByte(e) THEN <<e.tx>> ELSE <<>>)
  <1> DEFINE T(x) == IF IsByte(x) THEN <<x.tx>> ELSE <<>>
             v == Append(w, e)
             c == [k \in 1..Len(w) |-> T(w[k])]
             d == [k \in 1..Len(v) |-> T(v[k])]
  <1>1. \A x \in Events : T(x) \in Seq(0..255)
    <2> TAKE x \in Events
    <2>1. CASE x \in Bus!Bytes
      <3>1. x.tx \in 0..255
        BY <2>1 DEF Bus!Bytes
      <3>2. <<x.tx>> \in Seq(0..255) /\ <<>> \in Seq(0..255)
        BY <3>1
      <3>3. QED
        BY <3>2
    <2>2. CASE x \in {Bus!Start, Bus!Stop}
      <3>1. ~IsByte(x)
        BY <2>2 DEF IsByte, Bus!Start, Bus!Stop
      <3>2. QED
        BY <3>1
    <2>3. QED
      BY <2>1, <2>2 DEF Events
  <1>2. /\ v \in Seq(Events) /\ Len(v) = Len(w) + 1
        /\ \A i \in 1..Len(w) : v[i] = w[i]
        /\ v[Len(w) + 1] = e
    BY AppendProperties
  <1>3. TxColumn(w) = FlattenSeq(c) /\ TxColumn(v) = FlattenSeq(d)
    BY DEF TxColumn
  <1> HIDE DEF T, v
  <1>4. Len(w) \in Nat /\ Len(v) \in Nat
    BY <1>2
  <1>5. c \in Seq(Seq(0..255)) /\ Len(c) = Len(w) /\ \A k \in 1..Len(w) : c[k] = T(w[k])
    BY <1>1, <1>4
  <1>6. d \in Seq(Seq(0..255)) /\ Len(d) = Len(v) /\ \A k \in 1..Len(v) : d[k] = T(v[k])
    BY <1>1, <1>2, <1>4
  <1> HIDE DEF c, d
  <1>7. Agree(c, d, Len(c))
    <2>1. \A i \in 1..Len(c) : c[i] = d[i]
      BY <1>2, <1>4, <1>5, <1>6
    <2>2. QED
      BY <2>1 DEF Agree
  <1>8. d[Len(d)] = T(e)
    BY <1>2, <1>4, <1>6
  <1>9. FlattenSeq(d) = FlattenSeq(c) \o d[Len(d)]
    <2>1. c \in Seq(Seq(0..255)) /\ d \in Seq(Seq(0..255)) /\ Len(d) = Len(c) + 1
      BY <1>2, <1>5, <1>6
    <2>2. QED
      BY ONLY <1>7, <2>1, FlattenLonger
  <1>10. FlattenSeq(c) \in Seq(0..255)
    BY <1>5, FlattenType
  <1>11. QED
    BY <1>3, <1>8, <1>9, <1>10 DEF v, T

\* The bytes of the first n commands of t.
Parts(t, n) == [k \in 1..n |-> OnWire(t, t.cmds[k])]
Before(t, n) == FlattenSeq(Parts(t, n))

LEMMA OnWireType ==
    ASSUME NEW t \in TXNS, NEW k \in 1..Len(t.cmds)
    PROVE  OnWire(t, t.cmds[k]) \in Seq(0..255)
  <1> DEFINE c == t.cmds[k]
             q == t.pool
             a == c.payload_off
             l == c.payload_len
             h == <<c.ctrl_byte, c.internal_addr>>
             r == [i \in 1..c.rd_len |-> 255]
  <1>1. c \in Command_t /\ q \in Seq(0..255) /\ a + l <= Len(q)
    BY TxnsAssumption
  <1>2. a \in Nat /\ l \in Nat /\ h \in Seq(0..255)
    <2>1. a \in Nat /\ l \in Nat /\ c.ctrl_byte \in 0..255 /\ c.internal_addr \in 0..255
      BY <1>1 DEF Command_t
    <2> HIDE DEF c
    <2>2. h \in Seq(0..255)
      BY <2>1
    <2>3. QED
      BY <2>1, <2>2
  <1>3. r \in Seq(0..255)
    <2>1. c.rd_len \in Nat
      BY <1>1 DEF Command_t
    <2> HIDE DEF c
    <2>2. QED
      BY <2>1
  <1>4. OnWire(t, c) \in {h \o SubSeq(q, a + 1, a + l), h \o r, <<>>}
    BY DEF OnWire
  <1> HIDE DEF c, q, a, l, h, r
  <1>5. SubSeq(q, a + 1, a + l) \in Seq(0..255)
    BY <1>1, <1>2, SliceMeans
  <1>6. h \o SubSeq(q, a + 1, a + l) \in Seq(0..255)
    BY ONLY <1>2, <1>5, ConcatProperties
  <1>7. h \o r \in Seq(0..255)
    BY ONLY <1>2, <1>3, ConcatProperties
  <1>8. <<>> \in Seq(0..255)
    OBVIOUS
  <1>9. OnWire(t, c) \in Seq(0..255)
    BY ONLY <1>4, <1>6, <1>7, <1>8
  <1>10. QED
    BY <1>9 DEF c

LEMMA PartsType ==
    ASSUME TypeOK, NEW n \in Nat, n <= Len(job.cmds)
    PROVE  /\ Parts(job, n) \in Seq(Seq(0..255)) /\ Len(Parts(job, n)) = n
           /\ \A k \in 1..n : Parts(job, n)[k] = OnWire(job, job.cmds[k])
           /\ Before(job, n) \in Seq(0..255)
  <1>1. \A k \in 1..n : OnWire(job, job.cmds[k]) \in Seq(0..255)
    <2> TAKE k \in 1..n
    <2>1. k \in 1..Len(job.cmds)
      BY JobType
    <2>2. job \in TXNS
      BY <2>1 DEF TypeOK, NoJob
    <2>3. QED
      BY <2>1, <2>2, OnWireType
  <1>2. /\ Parts(job, n) \in Seq(Seq(0..255)) /\ Len(Parts(job, n)) = n
        /\ \A k \in 1..n : Parts(job, n)[k] = OnWire(job, job.cmds[k])
    BY <1>1 DEF Parts
  <1>3. QED
    BY <1>2, FlattenType DEF Before

LEMMA BeforeGrows ==
    ASSUME TypeOK, at \notin {"idle", "command"}
    PROVE  Before(job, ci) = Before(job, ci - 1) \o OnWire(job, cmd)
  <1>1. ci \in 1..Len(job.cmds) /\ ci \in Nat /\ ci - 1 \in Nat /\ Len(job.cmds) \in Nat
    BY CmdType, JobType
  <1>2. ci <= Len(job.cmds) /\ ci - 1 <= Len(job.cmds)
    BY <1>1
  <1> DEFINE c == Parts(job, ci - 1)
             d == Parts(job, ci)
  <1>3. c \in Seq(Seq(0..255)) /\ Len(c) = ci - 1 /\ \A k \in 1..(ci - 1) : c[k] = OnWire(job, job.cmds[k])
    BY <1>1, <1>2, PartsType
  <1>4. d \in Seq(Seq(0..255)) /\ Len(d) = ci /\ \A k \in 1..ci : d[k] = OnWire(job, job.cmds[k])
    BY <1>1, <1>2, PartsType
  <1> HIDE DEF c, d
  <1>5. Agree(c, d, Len(c))
    <2>1. \A i \in 1..Len(c) : c[i] = d[i]
      BY <1>1, <1>3, <1>4
    <2>2. QED
      BY <2>1 DEF Agree
  <1>6. Len(d) = Len(c) + 1 /\ d[Len(d)] = OnWire(job, cmd)
    BY <1>1, <1>3, <1>4 DEF cmd
  <1>7. FlattenSeq(d) = FlattenSeq(c) \o d[Len(d)]
    BY <1>3, <1>4, <1>5, <1>6, FlattenLonger
  <1>8. QED
    BY <1>6, <1>7 DEF Before, c, d

\* The column of bytes that are on the wires.
LEMMA ColumnType == ASSUME IInv PROVE TxColumn(wire) \in Seq(0..255)
  <1>1. wire \in Seq(Events) /\ Bus!Start \in Events
    BY DEF IInv, TenureInv, Events
  <1>2. QED
    BY <1>1, ColumnGrows

\* Before its first command nothing of a transaction is sent.
LEMMA NothingSent ==
    ASSUME at' = "command", ci' = 1
    PROVE  SentSoFar' = <<>>
  <1>1. [k \in 1..(ci - 1) |-> OnWire(job, job.cmds[k])]' = <<>>
    OBVIOUS
  <1>2. SentSoFar' = FlattenSeq([k \in 1..(ci - 1) |-> OnWire(job, job.cmds[k])]') \o <<>>
    BY DEF SentSoFar
  <1>3. QED
    BY <1>1, <1>2, FlattenEmpty

\* ByteSteps names what SentSoFar gains; the START and the STOP change no byte.  What a
\* call adds to the column of bytes on the wires it adds to what is sent of the
\* transaction, and the executor is idle only when it has come to the end of it.
LEMMA SentGrows ==
    ASSUME IInv, Step
    PROVE  /\ TxColumn(wire) \in Seq(0..255) /\ SentSoFar \in Seq(0..255)
           /\ \E x \in Seq(0..255) : /\ TxColumn(wire') = TxColumn(wire) \o x
                                     /\ SentSoFar' = SentSoFar \o x
           /\ at' = "idle" => ci' - 1 = Len(job'.cmds)
  <1> DEFINE W == OnWire(job, cmd)
             C == TxColumn(wire)
             S == SentSoFar
             P == IF at \in InTenure THEN SubSeq(W, 1, BytesSent) ELSE <<>>
  <1>1. TypeOK /\ wire \in Seq(Events)
    BY DEF IInv, TenureInv, Events
  <1>2. S = Before(job, ci - 1) \o P
    BY DEF SentSoFar, Before, Parts, InTenure
  <1>3. SentSoFar' = Before(job', ci' - 1) \o
                     (IF at' \in InTenure THEN SubSeq(OnWire(job', cmd'), 1, BytesSent') ELSE <<>>)
    BY DEF SentSoFar, Before, Parts, InTenure
  <1>4. C \in Seq(0..255)
    BY ColumnType
  <1>5. ci - 1 \in Nat /\ ci - 1 <= Len(job.cmds) /\ Before(job, ci - 1) \in Seq(0..255)
    <2>0. at # "idle"
      BY DEF Step, Command, TwiStart, SendCtrl, SendAddr, SendPayload, ReadByte, TwiStop, DataDone,
             GpioOut, GpioIn, Help
    <2>1. ci - 1 \in Nat /\ ci - 1 <= Len(job.cmds)
      BY <1>1, <2>0, JobType DEF TypeOK
    <2>2. QED
      BY <1>1, <2>1, PartsType
  <1>6. at \in InTenure => W \in Seq(0..255) /\ Len(W) \in Nat /\ \A j \in 1..Len(W) : W[j] = DueByte(j)
    BY <1>1, OnWireBytes
  <1> SUFFICES /\ S \in Seq(0..255)
               /\ \E x \in Seq(0..255) : TxColumn(wire') = C \o x /\ SentSoFar' = S \o x
               /\ at' = "idle" => ci' - 1 = Len(job'.cmds)
    BY <1>4
  <1>none. /\ <<>> \in Seq(0..255) /\ C \o <<>> = C
           /\ S \in Seq(0..255) => S \o <<>> = S
    BY <1>4, ConcatEmptySeq
  <1>7. CASE Command
    <2>0. at = "command" /\ UNCHANGED <<job, ci, wire>> /\ ci \in 0..(Len(job.cmds) + 1) /\ ci > 0
      BY <1>1, <1>7 DEF Command, TypeOK
    <2>1. /\ at' \notin InTenure
          /\ at' = "idle" => ci > Len(job.cmds)
      <3>1. CASE ci > Len(job.cmds)
        <4>1. at' = "idle"
          BY <1>7, <3>1 DEF Command
        <4>2. QED
          BY <3>1, <4>1 DEF InTenure
      <3>2. CASE ~(ci > Len(job.cmds))
        <4>1. ci \in 1..Len(job.cmds)
          BY <1>1, <2>0, <3>2, JobType
        <4>2. job \in TXNS
          BY <1>1, <4>1 DEF TypeOK, NoJob
        <4>3. cmd.kind \in {"write", "read", "gpio_out", "gpio_in", "help"}
          <5>1. job.cmds \in Seq(Command_t)
            BY <4>2, TxnsAssumption
          <5>2. cmd \in Command_t
            BY <4>1, <5>1, ElementOfSeq DEF cmd
          <5>3. QED
            BY <5>2 DEF Command_t
        <4>4. at' = IF cmd.kind \in {"write", "read"} THEN "start" ELSE cmd.kind
          BY <1>7, <3>2 DEF Command
        <4>5. QED
          BY <4>3, <4>4 DEF InTenure
      <3>3. QED
        BY <3>1, <3>2
    <2>2. SentSoFar' = S
      <3>1. at \notin InTenure /\ Before(job', ci' - 1) = Before(job, ci - 1)
        BY <2>0 DEF InTenure
      <3>2. QED
        BY <1>2, <1>3, <2>1, <3>1
    <2>3. at' = "idle" => ci - 1 = Len(job.cmds)
      BY <1>1, <2>0, <2>1, JobType
    <2>4. S \in Seq(0..255) /\ P = <<>>
      BY <1>2, <1>5, <2>0, ConcatEmptySeq DEF InTenure
    <2>5. QED
      BY <2>0, <2>2, <2>3, <2>4, <1>none
  <1>8. CASE TwiStart
    <2>1. at = "start" /\ at' = "ctrl" /\ UNCHANGED <<job, ci>> /\ wire' = Append(wire, Bus!Start)
      BY <1>8 DEF TwiStart, Bus!Start
    <2>2. SentSoFar' = S
      <3>1. BytesSent' = 0 /\ cmd' = cmd
        BY <2>1 DEF BytesSent, cmd
      <3>2. SubSeq(W, 1, 0) = <<>>
        BY SubSeqEmpty
      <3>3. QED
        BY <1>2, <1>3, <2>1, <3>1, <3>2 DEF InTenure
    <2>3. TxColumn(wire') = C \o <<>>
      <3>1. Bus!Start \in Events /\ ~IsByte(Bus!Start)
        BY DEF Events, IsByte, Bus!Start
      <3>2. QED
        BY <1>1, <2>1, <3>1, ColumnGrows
    <2>4. S \in Seq(0..255)
      BY <1>2, <1>5, <2>1, ConcatEmptySeq DEF InTenure
    <2>5. QED
      BY <1>4, <2>1, <2>2, <2>3, <2>4, <1>none
  <1>9. CASE SendCtrl \/ SendAddr \/ SendPayload \/ ReadByte
    <2>1. PICK e \in Bus!Bytes : ByteStep(e)
      BY <1>9, ByteSteps
    <2>2. /\ at \in InTenure /\ at' \in InTenure /\ UNCHANGED <<job, ci>>
          /\ wire' = Append(wire, e) /\ e.tx = DueByte(BytesSent + 1)
          /\ BytesSent' = BytesSent + 1 /\ BytesSent < Len(W)
      BY <2>1 DEF ByteStep
    <2>3. BytesSent \in Nat
      BY <1>1, <1>6, <2>2, CmdType, SMTT(30) DEF BytesSent, TypeOK, InTenure, Command_t
    <2>4. e.tx \in 0..255 /\ IsByte(e) /\ e \in Events
      BY DEF Bus!Bytes, IsByte, Events
    <2>5. SubSeq(W, 1, BytesSent + 1) = P \o <<e.tx>>
      <3>1. BytesSent + 1 \in 1..Len(W)
        BY <1>6, <2>2, <2>3
      <3>2. W[BytesSent + 1] = e.tx
        BY <1>6, <2>2, <3>1
      <3> DEFINE n == BytesSent
      <3>3. P = SubSeq(W, 1, n)
        BY <2>2
      <3>4. W \in Seq(0..255) /\ n \in Nat /\ n < Len(W)
        BY <1>6, <2>2, <2>3
      <3> HIDE DEF W, n, P
      <3>5. SubSeq(W, 1, n + 1) = SubSeq(W, 1, n) \o <<W[n + 1]>>
        BY <3>4, SliceGrows
      <3>6. QED
        BY <3>2, <3>3, <3>5 DEF n
    <2>6. P \in Seq(0..255) /\ <<e.tx>> \in Seq(0..255) /\ Before(job, ci - 1) \in Seq(0..255)
      <3>1. P = SubSeq(W, 1, BytesSent)
        BY <2>2
      <3>2. W \in Seq(0..255) /\ 0 \in Nat /\ 0 + BytesSent = BytesSent /\ 0 + 1 = 1 /\ BytesSent <= Len(W)
        BY <1>6, <2>2, <2>3
      <3> DEFINE n == BytesSent
      <3>3. SubSeq(W, 0 + 1, 0 + n) \in Seq(0..255)
        <4> HIDE DEF W, n
        <4>1. W \in Seq(0..255) /\ n \in Nat /\ 0 + n <= Len(W)
          BY <2>3, <3>2 DEF n
        <4>2. QED
          BY <4>1, SliceMeans
      <3>4. at # "idle"
        BY <2>2 DEF InTenure
      <3>5. <<e.tx>> \in Seq(0..255)
        BY <2>4
      <3>6. QED
        BY <1>5, <3>1, <3>2, <3>3, <3>4, <3>5
    <2>7. SentSoFar' = Before(job, ci - 1) \o SubSeq(W, 1, BytesSent + 1)
      <3>1. cmd' = cmd
        BY <2>2 DEF cmd
      <3>2. QED
        BY <1>3, <2>2, <3>1
    <2>8. TxColumn(wire') = C \o <<e.tx>>
      BY <1>1, <2>2, <2>4, ColumnGrows
    <2> DEFINE F == Before(job, ci - 1)
               x == <<e.tx>>
    <2>9. SentSoFar' = F \o (P \o x)
      BY <2>5, <2>7
    <2>10. S = F \o P
      BY <1>2
    <2>11. F \in Seq(0..255) /\ P \in Seq(0..255) /\ x \in Seq(0..255)
      BY <2>6
    <2> HIDE DEF F, P, x, S, C
    <2>12. F \o P \in Seq(0..255) /\ (F \o P) \o x = F \o (P \o x)
      BY ONLY <2>11, ConcatProperties, ConcatAssociative, SMTT(30)
    <2>13. SentSoFar' = S \o x /\ S \in Seq(0..255)
      BY <2>9, <2>10, <2>12
    <2>14. QED
      BY <2>2, <2>8, <2>11, <2>13 DEF x, InTenure
  <1>10. CASE TwiStop
    <2>1. /\ at \in {"write", "read"} /\ at' = "command" /\ job' = job /\ ci' = ci + 1
          /\ wire' = Append(wire, Bus!Stop)
      BY <1>10 DEF TwiStop, DataDone, EndLine, Bus!Stop
    <2>2. BytesSent = Len(W)
      <3>1. /\ bi \in Nat /\ cmd.payload_len \in Nat /\ cmd.rd_len \in Nat /\ cmd.kind = at
            /\ at = "write" => bi <= cmd.payload_len
            /\ at = "read" => bi <= cmd.rd_len
        BY <1>1, <2>1, CmdType DEF TypeOK, Command_t
      <3>2. Len(W) = 2 + (IF cmd.kind = "write" THEN cmd.payload_len ELSE cmd.rd_len)
        BY <1>1, <2>1, OnWireBytes DEF InTenure
      <3>3. at = "write" => bi = cmd.payload_len
        BY <1>10, <3>1 DEF TwiStop, DataDone
      <3>4. at = "read" => bi = cmd.rd_len
        BY <1>10, <3>1 DEF TwiStop, DataDone, MoreToRead
      <3>5. BytesSent = bi + 2
        BY <2>1 DEF BytesSent
      <3>6. QED
        BY <2>1, <3>1, <3>2, <3>3, <3>4, <3>5
    <2>3. P = W
      BY <1>6, <2>1, <2>2, SubSeqFull DEF InTenure
    <2>4. Before(job, ci) = S
      BY <1>1, <1>2, <2>1, <2>3, BeforeGrows
    <2>5. ci \in Nat /\ Before(job, ci) \in Seq(0..255)
      BY <1>1, <2>1, CmdType, PartsType
    <2>6. SentSoFar' = Before(job, ci) \o <<>>
      <3>1. ci' - 1 = ci /\ at' \notin InTenure /\ job' = job
        BY <2>1, <2>5 DEF InTenure
      <3>2. Before(job', ci' - 1) = Before(job, ci)
        BY ONLY <3>1
      <3>3. QED
        BY ONLY <1>3, <3>1, <3>2
    <2>7. SentSoFar' = S
      BY <2>4, <2>5, <2>6, ConcatEmptySeq
    <2>8. TxColumn(wire') = C \o <<>>
      <3>1. Bus!Stop \in Events /\ ~IsByte(Bus!Stop)
        BY DEF Events, IsByte, Bus!Stop
      <3>2. QED
        BY <1>1, <2>1, <3>1, ColumnGrows
    <2>9. QED
      BY <2>1, <2>4, <2>5, <2>7, <2>8, <1>none
  <1>11. CASE GpioOut \/ GpioIn \/ Help
    <2>1. at \in {"gpio_out", "gpio_in", "help"} /\ at' = "command" /\ job' = job /\ ci' = ci + 1 /\ wire' = wire
      BY <1>11 DEF GpioOut, GpioIn, Help, EndLine
    <2>2. W = <<>>
      BY <1>1, <2>1 DEF OnWire, TypeOK
    <2>3. P = <<>>
      BY <2>1 DEF InTenure
    <2>4. Before(job, ci) = S
      BY <1>1, <1>2, <2>1, <2>2, <2>3, BeforeGrows
    <2>5. ci \in Nat /\ Before(job, ci) \in Seq(0..255)
      BY <1>1, <2>1, CmdType, PartsType
    <2>6. SentSoFar' = Before(job, ci) \o <<>>
      <3>1. ci' - 1 = ci /\ at' \notin InTenure /\ job' = job
        BY <2>1, <2>5 DEF InTenure
      <3>2. Before(job', ci' - 1) = Before(job, ci)
        BY ONLY <3>1
      <3>3. QED
        BY ONLY <1>3, <3>1, <3>2
    <2>7. SentSoFar' = S
      BY <2>4, <2>5, <2>6, ConcatEmptySeq
    <2>8. QED
      BY <2>1, <2>4, <2>5, <2>7, <1>none
  <1>12. QED
    BY <1>7, <1>8, <1>9, <1>10, <1>11 DEF Step

LEMMA ProgressKept == IInv /\ ProgressInv /\ [Next]_vars => ProgressInv'
  <1> SUFFICES ASSUME IInv, ProgressInv, [Next]_vars
               PROVE  ProgressInv'
    OBVIOUS
  <1>1. CASE \E t \in TXNS : Run(t)
    <2>1. at' = "command" /\ ci' = 1 /\ wire' = wire
      BY <1>1 DEF Run
    <2>2. SentSoFar' = <<>>
      BY <2>1, NothingSent
    <2>3. TxColumn(wire) \in Seq(0..255)
      BY ColumnType
    <2>4. QED
      BY <2>1, <2>2, <2>3, SuffixEmpty DEF ProgressInv
  <1>2. CASE Step
    <2>1. PICK x \in Seq(0..255) : TxColumn(wire') = TxColumn(wire) \o x /\ SentSoFar' = SentSoFar \o x
      BY <1>2, SentGrows
    <2>2. TxColumn(wire) \in Seq(0..255) /\ SentSoFar \in Seq(0..255)
      BY <1>2, SentGrows
    <2>3. IsSuffix(SentSoFar \o x, TxColumn(wire) \o x)
      BY <2>2, SuffixGrows DEF ProgressInv
    <2>4. at' = "idle" => ci' - 1 = Len(job'.cmds)
      BY <1>2, SentGrows
    <2>5. QED
      BY <2>1, <2>3, <2>4 DEF ProgressInv
  <1>3. CASE UNCHANGED vars
    BY <1>3 DEF vars, SentSoFar, BytesSent, cmd, ProgressInv
  <1>4. QED
    BY <1>1, <1>2, <1>3 DEF Next

\* A finished transaction put on the bus the bytes of its commands, all of them, in
\* order and none of an earlier transaction again, however long it was.
THEOREM TransactionAlwaysSent == Spec => []TransactionSent
  <1>1. Init => ProgressInv
    <2>1. ASSUME Init
          PROVE  ProgressInv
      <3>1. at = "idle" /\ ci = 0 /\ wire = <<>> /\ Len(job.cmds) = 0
        BY <2>1 DEF Init, NoJob
      <3>2. [k \in 1..(ci - 1) |-> OnWire(job, job.cmds[k])] = <<>>
        BY <3>1
      <3>3. SentSoFar = <<>> \o <<>>
        BY <3>1, <3>2, FlattenEmpty DEF SentSoFar
      <3>4. SentSoFar = <<>>
        BY <3>3
      <3>5. wire \in Seq(Events) /\ Bus!Start \in Events
        BY <3>1 DEF Events
      <3>6. TxColumn(wire) \in Seq(0..255)
        BY <3>5, ColumnGrows
      <3>7. IsSuffix(SentSoFar, TxColumn(wire))
        BY <3>4, <3>6, SuffixEmpty
      <3>8. QED
        BY <3>1, <3>7 DEF ProgressInv
    <2>2. QED
      BY <2>1
  <1>2. IInv /\ ProgressInv => TransactionSent
    <2>1. ASSUME IInv, ProgressInv, at = "idle"
          PROVE  IsSuffix(FlattenSeq([k \in 1..Len(job.cmds) |-> OnWire(job, job.cmds[k])]), TxColumn(wire))
      <3> DEFINE c == [k \in 1..Len(job.cmds) |-> OnWire(job, job.cmds[k])]
      <3>1. c = [k \in 1..(ci - 1) |-> OnWire(job, job.cmds[k])]
        BY <2>1 DEF ProgressInv
      <3>2. SentSoFar = FlattenSeq(c) \o <<>>
        BY <2>1, <3>1 DEF SentSoFar
      <3>3. FlattenSeq(c) \in Seq(0..255)
        <4>1. TypeOK /\ Len(job.cmds) \in Nat /\ Len(job.cmds) <= Len(job.cmds)
          BY <2>1, JobType DEF IInv
        <4>2. QED
          BY <4>1, PartsType DEF Before, Parts
      <3>4. SentSoFar = FlattenSeq(c)
        BY <3>2, <3>3, ConcatEmptySeq
      <3>5. QED
        BY <2>1, <3>4 DEF ProgressInv
    <2>2. QED
      BY <2>1 DEF TransactionSent
  <1>3. QED
    BY <1>1, <1>2, InvAlways, ProgressKept, PTL DEF Spec
-----------------------------------------------------------------------------
(* What the terminal shows of it.                                            *)

\* A byte the master has put on the bus itself, after what w shows.
OwnByte(w, e) == IsByte(e) /\ ~(Bus!Sent(w) >= 2 /\ Bus!IsReadTenure(w))

LEMMA AckedGrows ==
    ASSUME NEW w \in Seq(Events), NEW e \in Events
    PROVE  /\ AckedIn(w) \in Seq(Item)
           /\ AckedIn(Append(w, e)) =
                  AckedIn(w) \o (IF OwnByte(w, e) /\ e.ack = 0 THEN <<<<"hex", e.tx>>>> ELSE <<>>)
  <1> DEFINE T(h, x) == IF OwnByte(h, x) /\ x.ack = 0 THEN <<<<"hex", x.tx>>>> ELSE <<>>
             v == Append(w, e)
             c == [k \in 1..Len(w) |-> T(SubSeq(w, 1, k - 1), w[k])]
             d == [k \in 1..Len(v) |-> T(SubSeq(v, 1, k - 1), v[k])]
  <1>1. \A h : \A x \in Events : T(h, x) \in Seq(Item)
    <2> TAKE h
    <2> TAKE x \in Events
    <2>1. CASE x \in Bus!Bytes
      <3>1. x.tx \in 0..255
        BY <2>1 DEF Bus!Bytes
      <3>2. <<"hex", x.tx>> \in Item
        BY <3>1, ItemTypes
      <3>3. <<<<"hex", x.tx>>>> \in Seq(Item) /\ <<>> \in Seq(Item)
        BY <3>2
      <3>4. QED
        BY <3>3
    <2>2. CASE x \in {Bus!Start, Bus!Stop}
      <3>1. ~OwnByte(h, x)
        BY <2>2 DEF OwnByte, IsByte, Bus!Start, Bus!Stop
      <3>2. QED
        BY <3>1
    <2>3. QED
      BY <2>1, <2>2 DEF Events
  <1>2. /\ v \in Seq(Events) /\ Len(v) = Len(w) + 1
        /\ \A i \in 1..Len(w) : v[i] = w[i]
        /\ v[Len(w) + 1] = e
    BY AppendProperties
  <1>3. AckedIn(w) = FlattenSeq(c) /\ AckedIn(v) = FlattenSeq(d)
    BY DEF AckedIn, IsSent, OwnByte
  <1> HIDE DEF T, v
  <1>4. Len(w) \in Nat /\ Len(v) \in Nat
    BY <1>2
  <1>5. /\ c \in Seq(Seq(Item)) /\ Len(c) = Len(w)
        /\ \A k \in 1..Len(w) : c[k] = T(SubSeq(w, 1, k - 1), w[k])
    BY <1>1, <1>4
  <1>6. /\ d \in Seq(Seq(Item)) /\ Len(d) = Len(v)
        /\ \A k \in 1..Len(v) : d[k] = T(SubSeq(v, 1, k - 1), v[k])
    BY <1>1, <1>2, <1>4
  <1> HIDE DEF c, d
  <1>7. \A n \in 0..Len(w) : SubSeq(v, 1, n) = SubSeq(w, 1, n)
    <2> TAKE n \in 0..Len(w)
    <2>1. n \in Nat /\ n <= Len(w) /\ n <= Len(v)
      BY <1>2, <1>4
    <2>2. Agree(v, w, n)
      <3>1. \A i \in 1..n : v[i] = w[i]
        BY <1>2, <1>4
      <3>2. QED
        BY <3>1 DEF Agree
    <2>3. QED
      BY <1>2, <2>1, <2>2, SliceAgree
  <1>8. Agree(c, d, Len(c))
    <2>1. ASSUME NEW i \in 1..Len(c)
          PROVE  c[i] = d[i]
      <3>1. i \in 1..Len(w) /\ i \in 1..Len(v) /\ i - 1 \in 0..Len(w)
        BY <1>2, <1>4, <1>5
      <3>2. SubSeq(v, 1, i - 1) = SubSeq(w, 1, i - 1)
        BY <1>7, <3>1
      <3>3. v[i] = w[i] /\ c[i] = T(SubSeq(w, 1, i - 1), w[i]) /\ d[i] = T(SubSeq(v, 1, i - 1), v[i])
        BY <1>2, <1>5, <1>6, <3>1
      <3>4. QED
        BY <3>2, <3>3
    <2>2. QED
      BY <2>1 DEF Agree
  <1>9. d[Len(d)] = T(w, e)
    <2>1. Len(d) \in 1..Len(v) /\ Len(d) - 1 = Len(w) /\ Len(w) \in 0..Len(w)
      BY <1>2, <1>4, <1>6
    <2>2. d[Len(d)] = T(SubSeq(v, 1, Len(d) - 1), v[Len(d)]) /\ v[Len(d)] = e
      BY <1>2, <1>6, <2>1
    <2>3. SubSeq(v, 1, Len(w)) = w
      BY <1>7, <2>1, SubSeqFull
    <2>4. QED
      BY <2>1, <2>2, <2>3
  <1>10. FlattenSeq(d) = FlattenSeq(c) \o d[Len(d)]
    <2>1. c \in Seq(Seq(Item)) /\ d \in Seq(Seq(Item)) /\ Len(d) = Len(c) + 1
      BY <1>2, <1>5, <1>6
    <2>2. QED
      BY ONLY <1>8, <2>1, FlattenLonger
  <1>11. FlattenSeq(c) \in Seq(Item)
    BY <1>5, FlattenType
  <1>12. QED
    BY <1>3, <1>9, <1>10, <1>11 DEF v, T

\* One more item on the terminal.
LEMMA MarksGrow ==
    ASSUME NEW p \in Seq(Item), NEW x \in Item
    PROVE  /\ MarksIn(p) \in Seq(Item)
           /\ MarksIn(Append(p, x)) = MarksIn(p) \o (IF x \in {Acked, Refused} THEN <<x>> ELSE <<>>)
  <1> DEFINE T(y) == IF y \in {Acked, Refused} THEN <<y>> ELSE <<>>
             q == Append(p, x)
             c == [k \in 1..Len(p) |-> T(p[k])]
             d == [k \in 1..Len(q) |-> T(q[k])]
  <1>1. \A y \in Item : T(y) \in Seq(Item)
    OBVIOUS
  <1>2. /\ q \in Seq(Item) /\ Len(q) = Len(p) + 1
        /\ \A i \in 1..Len(p) : q[i] = p[i]
        /\ q[Len(p) + 1] = x
    BY AppendProperties
  <1>3. MarksIn(p) = FlattenSeq(c) /\ MarksIn(q) = FlattenSeq(d)
    BY DEF MarksIn
  <1> HIDE DEF T, q
  <1>4. Len(p) \in Nat /\ Len(q) \in Nat
    BY <1>2
  <1>5. c \in Seq(Seq(Item)) /\ Len(c) = Len(p) /\ \A k \in 1..Len(p) : c[k] = T(p[k])
    BY <1>1, <1>4
  <1>6. d \in Seq(Seq(Item)) /\ Len(d) = Len(q) /\ \A k \in 1..Len(q) : d[k] = T(q[k])
    BY <1>1, <1>2, <1>4
  <1> HIDE DEF c, d
  <1>7. Agree(c, d, Len(c))
    <2>1. \A i \in 1..Len(c) : c[i] = d[i]
      BY <1>2, <1>4, <1>5, <1>6
    <2>2. QED
      BY <2>1 DEF Agree
  <1>8. d[Len(d)] = T(x)
    BY <1>2, <1>4, <1>6
  <1>9. FlattenSeq(d) = FlattenSeq(c) \o d[Len(d)]
    <2>1. c \in Seq(Seq(Item)) /\ d \in Seq(Seq(Item)) /\ Len(d) = Len(c) + 1
      BY <1>2, <1>5, <1>6
    <2>2. QED
      BY ONLY <1>7, <2>1, FlattenLonger
  <1>10. FlattenSeq(c) \in Seq(Item)
    BY <1>5, FlattenType
  <1>11. QED
    BY <1>3, <1>8, <1>9, <1>10 DEF q, T

LEMMA MarkedGrows ==
    ASSUME NEW p \in Seq(Item), NEW x \in Item
    PROVE  /\ MarkedIn(p) \in Seq(Item)
           /\ MarkedIn(Append(p, x)) =
                  MarkedIn(p) \o (IF Len(p) > 0 /\ x = Acked THEN <<p[Len(p)]>> ELSE <<>>)
  <1> DEFINE T(y, k) == IF k > 1 /\ y[k] = Acked THEN <<y[k - 1]>> ELSE <<>>
             q == Append(p, x)
             c == [k \in 1..Len(p) |-> T(p, k)]
             d == [k \in 1..Len(q) |-> T(q, k)]
  <1>1. \A y \in Seq(Item) : \A k \in 1..Len(y) : T(y, k) \in Seq(Item)
    <2> TAKE y \in Seq(Item)
    <2> TAKE k \in 1..Len(y)
    <2>1. k > 1 => y[k - 1] \in Item
      <3>1. k > 1 => k - 1 \in 1..Len(y)
        OBVIOUS
      <3>2. QED
        BY <3>1, ElementOfSeq
    <2>2. QED
      BY <2>1
  <1>2. /\ q \in Seq(Item) /\ Len(q) = Len(p) + 1
        /\ \A i \in 1..Len(p) : q[i] = p[i]
        /\ q[Len(p) + 1] = x
    BY AppendProperties
  <1>3. MarkedIn(p) = FlattenSeq(c) /\ MarkedIn(q) = FlattenSeq(d)
    BY DEF MarkedIn
  <1> HIDE DEF T, q
  <1>4. Len(p) \in Nat /\ Len(q) \in Nat
    BY <1>2
  <1>5. c \in Seq(Seq(Item)) /\ Len(c) = Len(p) /\ \A k \in 1..Len(p) : c[k] = T(p, k)
    BY <1>1, <1>4
  <1>6. d \in Seq(Seq(Item)) /\ Len(d) = Len(q) /\ \A k \in 1..Len(q) : d[k] = T(q, k)
    BY <1>1, <1>2, <1>4
  <1> HIDE DEF c, d
  <1>7. Agree(c, d, Len(c))
    <2>1. ASSUME NEW i \in 1..Len(c)
          PROVE  c[i] = d[i]
      <3>1. i \in 1..Len(p) /\ i \in 1..Len(q) /\ (i > 1 => i - 1 \in 1..Len(p))
        BY <1>2, <1>4, <1>5
      <3>2. q[i] = p[i] /\ (i > 1 => q[i - 1] = p[i - 1])
        BY <1>2, <3>1
      <3>3. T(p, i) = T(q, i)
        BY <3>2 DEF T
      <3>4. QED
        BY <1>5, <1>6, <3>1, <3>3
    <2>2. QED
      BY <2>1 DEF Agree
  <1>8. d[Len(d)] = IF Len(p) > 0 /\ x = Acked THEN <<p[Len(p)]>> ELSE <<>>
    <2>1. Len(d) = Len(p) + 1 /\ d[Len(d)] = T(q, Len(p) + 1)
      BY <1>2, <1>4, <1>6
    <2>2. Len(p) + 1 - 1 = Len(p) /\ (Len(p) + 1 > 1 <=> Len(p) > 0)
      BY <1>4
    <2>3. Len(p) > 0 => q[Len(p)] = p[Len(p)]
      BY <1>2, <1>4
    <2>4. QED
      BY <1>2, <2>1, <2>2, <2>3 DEF T
  <1>9. FlattenSeq(d) = FlattenSeq(c) \o d[Len(d)]
    <2>1. c \in Seq(Seq(Item)) /\ d \in Seq(Seq(Item)) /\ Len(d) = Len(c) + 1
      BY <1>2, <1>5, <1>6
    <2>2. QED
      BY ONLY <1>7, <2>1, FlattenLonger
  <1>10. FlattenSeq(c) \in Seq(Item)
    BY <1>5, FlattenType
  <1>11. QED
    BY <1>3, <1>8, <1>9, <1>10 DEF q

\* A byte with its mark, and a mark alone.
LEMMA MarksOfPair ==
    ASSUME NEW p \in Seq(Item), NEW x \in Item, NEW y \in Item, x \notin {Acked, Refused}
    PROVE  /\ MarkedIn(p \o <<x, y>>) = MarkedIn(p) \o (IF y = Acked THEN <<x>> ELSE <<>>)
           /\ Len(MarksIn(p \o <<x, y>>)) =
                  Len(MarksIn(p)) + (IF y \in {Acked, Refused} THEN 1 ELSE 0)
  <1> DEFINE q == Append(p, x)
             r == Append(q, y)
  <1>1. q \in Seq(Item) /\ Len(q) > 0 /\ q[Len(q)] = x
    BY AppendProperties
  <1>2. p \o <<x, y>> = r
    BY ConcatPair
  <1>3. MarkedIn(p) \in Seq(Item) /\ MarkedIn(q) = MarkedIn(p) \o <<>>
    BY MarkedGrows
  <1>4. MarkedIn(q) = MarkedIn(p)
    BY <1>3, ConcatEmptySeq
  <1>5. MarksIn(p) \in Seq(Item) /\ MarksIn(q) = MarksIn(p) \o <<>>
    BY MarksGrow
  <1>6. MarksIn(q) = MarksIn(p)
    BY <1>5, ConcatEmptySeq
  <1> HIDE DEF q
  <1>7. MarkedIn(r) = MarkedIn(q) \o (IF Len(q) > 0 /\ y = Acked THEN <<q[Len(q)]>> ELSE <<>>)
    BY <1>1, MarkedGrows
  <1>8. MarksIn(r) = MarksIn(q) \o (IF y \in {Acked, Refused} THEN <<y>> ELSE <<>>)
    BY <1>1, MarksGrow
  <1> HIDE DEF r
  <1>9. MarkedIn(r) = MarkedIn(p) \o (IF y = Acked THEN <<x>> ELSE <<>>)
    BY <1>1, <1>4, <1>7
  <1>10. Len(MarksIn(r)) = Len(MarksIn(p)) + (IF y \in {Acked, Refused} THEN 1 ELSE 0)
    <2> DEFINE m == MarksIn(p)
               e == IF y \in {Acked, Refused} THEN <<y>> ELSE <<>>
    <2>1. m \in Seq(Item) /\ e \in Seq(Item) /\ Len(e) = IF y \in {Acked, Refused} THEN 1 ELSE 0
      BY <1>5
    <2>2. MarksIn(r) = m \o e
      BY <1>6, <1>8
    <2> HIDE DEF m, e
    <2>3. Len(m \o e) = Len(m) + Len(e)
      BY ONLY <2>1, ConcatProperties
    <2>4. QED
      BY <2>1, <2>2, <2>3 DEF m
  <1>11. QED
    BY <1>2, <1>9, <1>10

LEMMA MarksOfOne ==
    ASSUME NEW p \in Seq(Item), NEW x \in Item, x # Acked
    PROVE  /\ MarkedIn(p \o <<x>>) = MarkedIn(p)
           /\ Len(MarksIn(p \o <<x>>)) = Len(MarksIn(p)) + (IF x = Refused THEN 1 ELSE 0)
  <1> DEFINE q == Append(p, x)
  <1>1. p \o <<x>> = q
    BY AppendIsConcat
  <1>2. MarkedIn(p) \in Seq(Item) /\ MarkedIn(q) = MarkedIn(p) \o <<>>
    BY MarkedGrows
  <1>3. MarkedIn(q) = MarkedIn(p)
    BY <1>2, ConcatEmptySeq
  <1>4. /\ MarksIn(p) \in Seq(Item)
        /\ MarksIn(q) = MarksIn(p) \o (IF x \in {Acked, Refused} THEN <<x>> ELSE <<>>)
    BY MarksGrow
  <1> HIDE DEF q
  <1>5. Len(MarksIn(q)) = Len(MarksIn(p)) + (IF x = Refused THEN 1 ELSE 0)
    <2> DEFINE m == MarksIn(p)
               e == IF x \in {Acked, Refused} THEN <<x>> ELSE <<>>
    <2>1. m \in Seq(Item) /\ e \in Seq(Item) /\ Len(e) = IF x = Refused THEN 1 ELSE 0
      BY <1>4
    <2>2. MarksIn(q) = m \o e
      BY <1>4
    <2> HIDE DEF m, e
    <2>3. Len(m \o e) = Len(m) + Len(e)
      BY ONLY <2>1, ConcatProperties
    <2>4. QED
      BY <2>1, <2>2, <2>3 DEF m
  <1>6. QED
    BY <1>1, <1>3, <1>5

LEMMA PrintedGrows ==
    ASSUME TypeOK
    PROVE  /\ Printed \in Seq(Item)
           /\ \A s \in Seq(Item) : PutAll(s) \/ PutLine(s) => Printed' = Printed \o s
           /\ out' = Append(out, <<>>) => Printed' = Printed
  <1>1. out \in Seq(Seq(Item)) /\ Len(out) > 0 /\ out # <<>>
    BY DEF TypeOK
  <1>2. Printed \in Seq(Item)
    BY <1>1, FlattenType DEF Printed
  <1>3. <<>> \in Seq(Item)
    OBVIOUS
  <1>4. ASSUME NEW s \in Seq(Item)
        PROVE  FlattenSeq([out EXCEPT ![Len(out)] = @ \o s]) = Printed \o s
    BY <1>1, FlattenGrow DEF Printed
  <1>5. ASSUME NEW s \in Seq(Item), PutAll(s)
        PROVE  Printed' = Printed \o s
    BY <1>4, <1>5 DEF PutAll, Printed
  <1>6. ASSUME NEW s \in Seq(Item), PutLine(s)
        PROVE  Printed' = Printed \o s
    <2> DEFINE o == [out EXCEPT ![Len(out)] = @ \o s]
    <2>1. out' = Append(o, <<>>) /\ FlattenSeq(o) = Printed \o s
      BY <1>4, <1>6 DEF PutLine
    <2>2. o \in Seq(Seq(Item))
      <3>1. out[Len(out)] \in Seq(Item)
        BY <1>1, ElementOfSeq
      <3>2. out[Len(out)] \o s \in Seq(Item)
        BY <3>1, ConcatProperties
      <3>3. QED
        BY <1>1, <3>2
    <2> HIDE DEF o
    <2>3. FlattenSeq(Append(o, <<>>)) = FlattenSeq(o) \o <<>> /\ FlattenSeq(o) \in Seq(Item)
      BY <1>3, <2>2, FlattenAppend, FlattenType
    <2>4. FlattenSeq(o) \o <<>> = FlattenSeq(o)
      BY <2>3, ConcatEmptySeq
    <2>5. QED
      BY <2>1, <2>3, <2>4 DEF Printed
  <1>7. ASSUME out' = Append(out, <<>>)
        PROVE  Printed' = Printed
    <2>1. FlattenSeq(Append(out, <<>>)) = FlattenSeq(out) \o <<>>
      BY <1>1, <1>3, FlattenAppend
    <2>2. QED
      BY <1>2, <1>7, <2>1, ConcatEmptySeq DEF Printed
  <1>8. QED
    BY <1>2, <1>5, <1>6, <1>7

\* Each byte adds one mark, and with '+' what it adds before it is the byte that was
\* acknowledged; the rest of what is printed has no marks.
LEMMA MarksKept == IInv /\ MarksAreTrue /\ [Next]_vars => MarksAreTrue'
  <1> SUFFICES ASSUME IInv, MarksAreTrue, [Next]_vars
               PROVE  MarksAreTrue'
    OBVIOUS
  <1>1. TypeOK /\ wire \in Seq(Events) /\ Printed \in Seq(Item)
    BY PrintedGrows DEF IInv, TenureInv, Events
  <1>2. MarkedIn(Printed) = AckedIn(wire) /\ Len(MarksIn(Printed)) = Len(TxColumn(wire))
    BY DEF MarksAreTrue
  <1>3. MarksAreTrue' <=> /\ MarkedIn(Printed') = AckedIn(wire')
                          /\ Len(MarksIn(Printed')) = Len(TxColumn(wire'))
    BY DEF MarksAreTrue
  <1>4. AckedIn(wire) \in Seq(Item) /\ TxColumn(wire) \in Seq(0..255)
    <2>1. Bus!Start \in Events
      BY DEF Events
    <2>2. QED
      BY <1>1, <2>1, AckedGrows, ColumnGrows
  <1>5. Len(TxColumn(wire)) + 0 = Len(TxColumn(wire))
    BY <1>4
  <1>6. ASSUME wire' = wire, Printed' = Printed
        PROVE  MarksAreTrue'
    BY <1>2, <1>3, <1>6
  <1>7. ASSUME NEW e \in {Bus!Start, Bus!Stop}, wire' = Append(wire, e), Printed' = Printed
        PROVE  MarksAreTrue'
    <2>1. e \in Events /\ ~IsByte(e)
      BY <1>7 DEF Events, IsByte, Bus!Start, Bus!Stop
    <2>2. AckedIn(wire') = AckedIn(wire) \o <<>>
      BY <1>1, <1>7, <2>1, AckedGrows DEF OwnByte
    <2>3. TxColumn(wire') = TxColumn(wire) \o <<>>
      BY <1>1, <1>7, <2>1, ColumnGrows
    <2>4. AckedIn(wire') = AckedIn(wire) /\ TxColumn(wire') = TxColumn(wire)
      BY <1>4, <2>2, <2>3, ConcatEmptySeq
    <2>5. QED
      BY <1>2, <1>3, <1>7, <2>4
  <1>8. CASE \E t \in TXNS : Run(t)
    BY <1>6, <1>8 DEF Run, Printed
  <1>9. CASE Command
    BY <1>6, <1>9 DEF Command, Printed
  <1>10. CASE TwiStart
    BY <1>7, <1>10 DEF TwiStart, Printed, Bus!Start
  <1>11. CASE SendCtrl \/ SendAddr \/ SendPayload \/ ReadByte
    <2>1. PICK e \in Bus!Bytes : ByteStep(e)
      BY <1>11, ByteSteps
    <2>2. at \in InTenure /\ wire' = Append(wire, e)
      BY <2>1 DEF ByteStep
    <2>3. e.tx \in 0..255 /\ e.ack \in {0, 1} /\ IsByte(e) /\ e \in Events
      BY DEF Bus!Bytes, IsByte, Events
    <2>4. OwnByte(wire, e) <=> at # "read"
      <3>1. /\ Bus!Sent(wire) = BytesSent /\ BytesSent \in Nat
            /\ BytesSent > 0 => (Bus!IsReadTenure(wire) <=> cmd.kind = "read")
        BY <2>2, TenureSeen
      <3>2. /\ at = "read" => BytesSent = bi + 2 /\ cmd.kind = "read" /\ bi \in Nat
            /\ at = "write" => cmd.kind = "write"
            /\ at \in {"ctrl", "addr"} => BytesSent < 2
        BY <1>1, CmdType DEF TypeOK, BytesSent, Command_t
      <3>3. CASE at = "read"
        BY <3>1, <3>2, <3>3 DEF OwnByte
      <3>4. CASE at = "write"
        <4>1. ~(Bus!Sent(wire) >= 2 /\ Bus!IsReadTenure(wire))
          BY <3>1, <3>2, <3>4
        <4>2. QED
          BY <2>3, <3>4, <4>1 DEF OwnByte
      <3>5. CASE at \in {"ctrl", "addr"}
        <4>1. ~(Bus!Sent(wire) >= 2)
          BY <3>1, <3>2, <3>5
        <4>2. QED
          BY <2>3, <3>5, <4>1 DEF OwnByte
      <3>6. QED
        BY <2>2, <3>3, <3>4, <3>5 DEF InTenure
    <2>5. Len(TxColumn(wire')) = Len(TxColumn(wire)) + 1
      <3> DEFINE m == TxColumn(wire)
                 x == <<e.tx>>
      <3>1. m \in Seq(0..255) /\ x \in Seq(0..255) /\ Len(x) = 1
        BY <1>4, <2>3
      <3>2. TxColumn(wire') = m \o x
        BY <1>1, <2>2, <2>3, ColumnGrows
      <3> HIDE DEF m, x
      <3>3. Len(m \o x) = Len(m) + Len(x)
        BY ONLY <3>1, ConcatProperties, ZenonT(60)
      <3>4. QED
        BY <3>1, <3>2, <3>3 DEF m
    <2>6. AckedIn(wire') =
              AckedIn(wire) \o (IF at # "read" /\ e.ack = 0 THEN <<<<"hex", e.tx>>>> ELSE <<>>)
      BY <1>1, <2>2, <2>3, <2>4, AckedGrows
    <2>7. CASE at # "read"
      <3> DEFINE x == <<"hex", e.tx>>
                 y == Mark(e.ack)
      <3>1. PutAll(<<x, y>>)
        BY <2>1, <2>7 DEF ByteStep
      <3>2. x \in Item /\ y \in Item
        BY <2>3, ItemTypes
      <3>3. x \notin {Acked, Refused}
        BY DEF Acked, Refused
      <3>4. y \in {Acked, Refused} /\ (y = Acked <=> e.ack = 0)
        BY <2>3 DEF Mark, Acked, Refused
      <3> HIDE DEF x, y
      <3>5. <<x, y>> \in Seq(Item)
        BY <3>2
      <3>6. Printed' = Printed \o <<x, y>>
        BY <1>1, <3>1, <3>5, PrintedGrows
      <3>7. /\ MarkedIn(Printed') = MarkedIn(Printed) \o (IF y = Acked THEN <<x>> ELSE <<>>)
            /\ Len(MarksIn(Printed')) = Len(MarksIn(Printed)) + (IF y \in {Acked, Refused} THEN 1 ELSE 0)
        BY <1>1, <3>2, <3>3, <3>6, MarksOfPair
      <3>8. MarkedIn(Printed') = AckedIn(wire')
        BY <1>2, <2>6, <2>7, <3>4, <3>7 DEF x
      <3>9. Len(MarksIn(Printed')) = Len(TxColumn(wire'))
        BY <1>2, <2>5, <3>4, <3>7
      <3>10. QED
        BY <1>3, <3>8, <3>9
    <2>8. CASE at = "read"
      <3>1. AckedIn(wire') = AckedIn(wire)
        BY <1>4, <2>6, <2>8, ConcatEmptySeq
      <3>2. Refused \in Item /\ Refused # Acked
        BY ItemTypes DEF Refused, Acked
      <3>3. CASE PutAll(<<Refused>>)
        <4>1. <<Refused>> \in Seq(Item)
          BY <3>2
        <4>2. Printed' = Printed \o <<Refused>>
          BY <1>1, <3>3, <4>1, PrintedGrows
        <4>3. MarkedIn(Printed') = MarkedIn(Printed) /\ Len(MarksIn(Printed')) = Len(MarksIn(Printed)) + 1
          BY <1>1, <3>2, <4>2, MarksOfOne
        <4>4. QED
          BY <1>2, <1>3, <2>5, <3>1, <4>3
      <3>4. CASE \E b \in 0..255 : PutAll(<<Shown(b, cmd.rd_fmt), Refused>>)
        <4>1. PICK b \in 0..255 : PutAll(<<Shown(b, cmd.rd_fmt), Refused>>)
          BY <3>4
        <4> DEFINE x == Shown(b, cmd.rd_fmt)
                   y == Refused
        <4>2. x \in Item /\ y \in Item
          BY <3>2, ItemTypes
        <4>3. x \notin {Acked, Refused}
          <5>1. x[1] \in {"bin", "chr", "hex"}
            BY DEF Shown
          <5>2. Acked[1] = "mark" /\ Refused[1] = "mark"
            BY DEF Acked, Refused
          <5> HIDE DEF x
          <5>3. QED
            BY <5>1, <5>2
        <4>4. y = Refused /\ y # Acked
          BY <3>2
        <4>5. PutAll(<<x, y>>)
          BY <4>1
        <4> HIDE DEF x, y
        <4>6. <<x, y>> \in Seq(Item)
          BY <4>2
        <4>7. Printed' = Printed \o <<x, y>>
          BY <1>1, <4>5, <4>6, PrintedGrows
        <4>8. /\ MarkedIn(Printed') = MarkedIn(Printed) \o <<>>
              /\ Len(MarksIn(Printed')) = Len(MarksIn(Printed)) + 1
          BY <1>1, <4>2, <4>3, <4>4, <4>7, MarksOfPair
        <4>9. MarkedIn(Printed') = MarkedIn(Printed)
          BY <1>2, <1>4, <4>8, ConcatEmptySeq
        <4>10. QED
          BY <1>2, <1>3, <2>5, <3>1, <4>8, <4>9
      <3>5. QED
        BY <2>1, <2>8, <3>3, <3>4 DEF ByteStep
    <2>9. QED
      BY <2>7, <2>8
  <1>12. CASE TwiStop
    <2>1. wire' = Append(wire, Bus!Stop) /\ out' = Append(out, <<>>)
      BY <1>12 DEF TwiStop, Bus!Stop
    <2>2. QED
      BY <1>1, <1>7, <2>1, PrintedGrows
  <1>13. CASE GpioOut \/ GpioIn
    <2>1. wire' = wire
      BY <1>13 DEF GpioOut, GpioIn
    <2>2. PICK s \in {"gpio <=", "gpio =>"}, b \in 0..255 : PutLine(<<Words(s), <<"bin", b>>>>)
      <3>1. CASE GpioOut
        <4>1. cmd.gpio_byte \in 0..255
          BY <1>1, <3>1, CmdType DEF GpioOut, Command_t
        <4>2. PutLine(<<Words("gpio <="), <<"bin", cmd.gpio_byte>>>>)
          BY <3>1 DEF GpioOut
        <4>3. QED
          BY <4>1, <4>2
      <3>2. CASE GpioIn
        <4>1. PICK v \in PINS : PutLine(<<Words("gpio =>"), <<"bin", v>>>>)
          BY <3>2 DEF GpioIn
        <4>2. v \in 0..255
          BY WireAssumption
        <4>3. QED
          BY <4>1, <4>2
      <3>3. QED
        BY <1>13, <3>1, <3>2
    <2> DEFINE x == Words(s)
               y == <<"bin", b>>
    <2>3. x \in Item /\ y \in Item
      BY <2>2, ItemTypes
    <2>4. x \notin {Acked, Refused} /\ y \notin {Acked, Refused}
      BY DEF Words, Acked, Refused
    <2>5. PutLine(<<x, y>>)
      BY <2>2
    <2> HIDE DEF x, y
    <2>6. <<x, y>> \in Seq(Item)
      BY <2>3, PairInSeq
    <2>7. Printed' = Printed \o <<x, y>>
      BY <1>1, <2>5, <2>6, PrintedGrows
    <2>8. /\ MarkedIn(Printed') = MarkedIn(Printed) \o <<>>
          /\ Len(MarksIn(Printed')) = Len(MarksIn(Printed)) + 0
      BY <1>1, <2>3, <2>4, <2>7, MarksOfPair
    <2>9. MarkedIn(Printed') = MarkedIn(Printed)
      BY <1>2, <1>4, <2>8, ConcatEmptySeq
    <2>10. QED
      BY <1>2, <1>3, <1>5, <2>1, <2>8, <2>9
  <1>14. CASE Help
    <2> DEFINE x == Words("help")
    <2>1. wire' = wire /\ PutLine(<<x>>)
      BY <1>14 DEF Help
    <2>2. x \in Item
      BY ItemTypes
    <2>3. x # Acked /\ x # Refused
      BY DEF Words, Acked, Refused
    <2> HIDE DEF x
    <2>4. <<x>> \in Seq(Item)
      BY <2>2
    <2>5. Printed' = Printed \o <<x>>
      BY <1>1, <2>1, <2>4, PrintedGrows
    <2>6. MarkedIn(Printed') = MarkedIn(Printed) /\ Len(MarksIn(Printed')) = Len(MarksIn(Printed)) + 0
      BY <1>1, <2>2, <2>3, <2>5, MarksOfOne
    <2>7. QED
      BY <1>2, <1>3, <1>5, <2>1, <2>6
  <1>15. CASE UNCHANGED vars
    BY <1>6, <1>15 DEF vars, Printed
  <1>16. QED
    BY <1>8, <1>9, <1>10, <1>11, <1>12, <1>13, <1>14, <1>15 DEF Next, Step

\* The terminal tells the truth about the slave, whatever it answers: '+' follows the
\* bytes it acknowledged, in order and no others, and every byte has its mark.
THEOREM MarksAlwaysTrue == Spec => []MarksAreTrue
  <1>1. Init => MarksAreTrue
    <2>1. ASSUME Init
          PROVE  MarksAreTrue
      <3>1. wire = <<>> /\ out = <<<<>>>>
        BY <2>1 DEF Init
      <3>2. Printed = <<>>
        <4>1. <<>> \in Seq(Item)
          OBVIOUS
        <4>2. QED
          BY <3>1, <4>1, FlattenOne DEF Printed
      <3>3. AckedIn(<<>>) = <<>>
        <4>1. AckedIn(<<>>) = FlattenSeq(<<>>)
          BY DEF AckedIn
        <4>2. QED
          BY <4>1, FlattenEmpty
      <3>4. TxColumn(<<>>) = <<>>
        <4>1. TxColumn(<<>>) = FlattenSeq(<<>>)
          BY DEF TxColumn
        <4>2. QED
          BY <4>1, FlattenEmpty
      <3>5. MarksIn(<<>>) = <<>>
        <4>1. MarksIn(<<>>) = FlattenSeq(<<>>)
          BY DEF MarksIn
        <4>2. QED
          BY <4>1, FlattenEmpty
      <3>6. MarkedIn(<<>>) = <<>>
        <4>1. MarkedIn(<<>>) = FlattenSeq(<<>>)
          BY DEF MarkedIn
        <4>2. QED
          BY <4>1, FlattenEmpty
      <3>7. QED
        BY <3>1, <3>2, <3>3, <3>4, <3>5, <3>6 DEF MarksAreTrue
    <2>2. QED
      BY <2>1
  <1>2. QED
    BY <1>1, InvAlways, MarksKept, PTL DEF Spec
===============================================================================
