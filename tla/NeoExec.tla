------------------------------- MODULE NeoExec -------------------------------
(***************************************************************************)
(* The executor of src/neo_exec.c: neo_exec_run carries out the commands   *)
(* of an accepted transaction, in order, through the HAL's START, STOP and *)
(* byte exchange, and prints each byte as it goes.  A step is one HAL call *)
(* with the printing that follows it, so that the slave answers between    *)
(* any two of them.                                                        *)
(***************************************************************************)
EXTENDS Integers, Sequences, SequencesExt

CONSTANTS
    TXNS,       \* accepted transactions: [cmds |-> neo_cmd_t's, pool |-> bytes]
    RX_BYTES,   \* what may be sampled on SDA while a byte is read
    PINS,       \* what the GPIO input port may show
    OUT_MAX     \* bound: no further call once so many lines are printed

FMT_NONE == 0
ch_h == 104
ch_b == 98
ch_a == 97
Selector == {ch_h, ch_b, ch_a}

\* neo_cmd_t
Command_t ==
    [kind : {"write", "read", "gpio_out", "gpio_in", "help"},
     ctrl_byte : 0..255, internal_addr : 0..255, rd_len : Nat, rd_fmt : Selector \cup {FMT_NONE},
     payload_off : Nat, payload_len : Nat, gpio_byte : 0..255]

\* What neo_parser.c guarantees of a transaction it accepts.
ASSUME TxnsAssumption ==
    \A t \in TXNS :
        /\ t \in [cmds : Seq(Command_t), pool : Seq(0..255)]
        /\ \A k \in 1..Len(t.cmds) :
            LET c == t.cmds[k] IN
            /\ c.payload_off + c.payload_len <= Len(t.pool)
            /\ c.kind = "write" => c.ctrl_byte \in {160, 162}
            /\ c.kind = "read"  => c.ctrl_byte \in {161, 163}

ASSUME WireAssumption == RX_BYTES \subseteq 0..255 /\ PINS \subseteq 0..255

VARIABLES
    job,    \* the transaction being run
    ci,     \* the loop variable i of neo_exec_run, from 1
    bi,     \* bytes of the current command's data phase that are done
    at,     \* where the executor is
    wire,   \* what happened on the bus, oldest first
    gpio,   \* the output port
    out     \* lines printed, oldest first; the last one is still open

vars == <<job, ci, bi, at, wire, gpio, out>>

NoJob == [cmds |-> <<>>, pool |-> <<>>]
cmd == job.cmds[ci]

-----------------------------------------------------------------------------
(* Printing. *)

PutAll(s) == out' = [out EXCEPT ![Len(out)] = @ \o s]
PutLine(s)  == out' = Append([out EXCEPT ![Len(out)] = @ \o s], <<>>)

\* What is printed is a sequence of pairs: a form and the byte shown in it, or
\* the word of a fixed text.
Acked   == <<"mark", "+">>
Refused == <<"mark", "-">>
Words(s) == <<"text", s>>

MarkInverted(ack) == IF ack = 0 THEN Refused ELSE Acked            \* mutant

Mark(ack) == IF ack = 0 THEN Acked ELSE Refused

\* print_byte_in_fmt: an unprintable byte is shown as '.' in ASCII.
Shown(b, f) ==
    CASE f = ch_b -> <<"bin", b>>
      [] f = ch_a -> <<"chr", IF b \in 32..126 THEN b ELSE 46>>
      [] OTHER    -> <<"hex", b>>

-----------------------------------------------------------------------------
(* The HAL.  The slave decides the sampled acknowledge bit; while a byte is *)
(* read it also decides the byte.                                          *)

Exchange(v, mack, ack, b) ==
    wire' = Append(wire, [op |-> "byte", tx |-> v, mack |-> mack, ack |-> ack, rx |-> b])

\* exec_twi_byte
SendByte(v) ==
    \E ack \in {0, 1} :
        /\ Exchange(v, 0, ack, v)
        /\ PutAll(<<<<"hex", v>>, Mark(ack)>>)

-----------------------------------------------------------------------------
(* neo_exec_run. *)

Init ==
    /\ job = NoJob
    /\ ci = 0
    /\ bi = 0
    /\ at = "idle"
    /\ wire = <<>>
    /\ gpio = 0
    /\ out = <<<<>>>>

Run(t) ==
    /\ at = "idle"
    /\ Len(out) <= OUT_MAX
    /\ job' = t
    /\ ci' = 1
    /\ bi' = 0
    /\ at' = "command"
    /\ UNCHANGED <<wire, gpio, out>>

Command ==
    /\ at = "command"
    /\ at' = IF ci > Len(job.cmds) THEN "idle"
             ELSE IF cmd.kind \in {"write", "read"} THEN "start" ELSE cmd.kind
    /\ UNCHANGED <<job, ci, bi, wire, gpio, out>>

TwiStart ==
    /\ at = "start"
    /\ wire' = Append(wire, [op |-> "start"])
    /\ at' = "ctrl"
    /\ UNCHANGED <<job, ci, bi, gpio, out>>

SendCtrl ==
    /\ at = "ctrl"
    /\ SendByte(cmd.ctrl_byte)
    /\ at' = "addr"
    /\ UNCHANGED <<job, ci, bi, gpio>>

SendAddr ==
    /\ at = "addr"
    /\ SendByte(cmd.internal_addr)
    /\ bi' = 0
    /\ at' = cmd.kind
    /\ UNCHANGED <<job, ci, gpio>>

PayloadByteFromZero == job.pool[bi + 1]                             \* mutant

\* A command's bytes start at its own offset into the shared pool.
PayloadByte == job.pool[cmd.payload_off + bi + 1]

\* The body of exec_write's loop.
SendPayload ==
    /\ at = "write"
    /\ bi < cmd.payload_len
    /\ SendByte(PayloadByte)
    /\ bi' = bi + 1
    /\ UNCHANGED <<job, ci, at, gpio>>

HostAckAlways == 1                                                  \* mutant

\* Only the last byte of a read is not acknowledged by the host.
HostAck == IF bi + 1 = cmd.rd_len THEN 0 ELSE 1

MoreToReadOffByOne == bi <= cmd.rd_len                              \* mutant
MoreToRead == bi < cmd.rd_len

\* The body of exec_read's loop; SDA is released for the byte.  The bit sampled
\* after it is whatever the HAL reports, the host's own acknowledge included.
ReadByte ==
    /\ at = "read"
    /\ MoreToRead
    /\ \E b \in RX_BYTES, ack \in {0, 1} :
          /\ Exchange(255, HostAck, ack, b)
          /\ \/ HostAck = 1 /\ ack # 0 /\ PutAll(<<Refused>>)
             \/ ~(HostAck = 1 /\ ack # 0) /\ PutAll(<<Shown(b, cmd.rd_fmt), Refused>>)
    /\ bi' = bi + 1
    /\ UNCHANGED <<job, ci, at, gpio>>

\* Mutant: the loops test after the byte, so they wait for one.
DataDoneAfterOne ==
    \/ at = "write" /\ bi > 0 /\ bi >= cmd.payload_len
    \/ at = "read"  /\ bi > 0 /\ ~MoreToRead

DataDone ==
    \/ at = "write" /\ bi >= cmd.payload_len
    \/ at = "read"  /\ ~MoreToRead

\* The loop of neo_exec_run goes on after a command that ends its line.
EndLine ==
    /\ ci' = ci + 1
    /\ at' = "command"
    /\ UNCHANGED <<job, bi>>

\* Mutant: the STOP is left to somebody else.
TwiNoStop == DataDone /\ out' = Append(out, <<>>) /\ EndLine /\ UNCHANGED <<wire, gpio>>

TwiStop ==
    /\ DataDone
    /\ wire' = Append(wire, [op |-> "stop"])
    /\ out' = Append(out, <<>>)
    /\ EndLine
    /\ UNCHANGED gpio

GpioOut ==
    /\ at = "gpio_out"
    /\ gpio' = cmd.gpio_byte
    /\ PutLine(<<Words("gpio <="), <<"bin", cmd.gpio_byte>>>>)
    /\ EndLine
    /\ UNCHANGED wire

GpioIn ==
    /\ at = "gpio_in"
    /\ \E v \in PINS : PutLine(<<Words("gpio =>"), <<"bin", v>>>>)
    /\ EndLine
    /\ UNCHANGED <<wire, gpio>>

\* The help text ends its own line.
Help ==
    /\ at = "help"
    /\ PutLine(<<Words("help")>>)
    /\ EndLine
    /\ UNCHANGED <<wire, gpio>>

Step ==
    \/ Command \/ TwiStart \/ SendCtrl \/ SendAddr \/ SendPayload
    \/ ReadByte \/ TwiStop \/ GpioOut \/ GpioIn \/ Help

Next == Step \/ \E t \in TXNS : Run(t)

Spec == Init /\ [][Next]_vars

\* Every HAL call returns: the bus engine runs on its own clock.
FairSpec == Spec /\ WF_vars(Step)

-----------------------------------------------------------------------------
(* Properties. *)

Fixed == {"mark", "text"} \X {"+", "-", "gpio <=", "gpio =>", "help"}
ByteShown == {<<form, b>> : form \in {"hex", "bin", "chr"}, b \in 0..255}
Item == Fixed \cup ByteShown

TypeOK ==
    /\ job \in TXNS \cup {NoJob}
    /\ ci \in 0..(Len(job.cmds) + 1) /\ (at # "idle" => ci > 0)
    /\ at \in {"idle", "command", "start", "ctrl", "addr", "write", "read",
               "gpio_out", "gpio_in", "help"}
    /\ at \notin {"idle", "command"} => ci \in 1..Len(job.cmds)
    /\ at \in {"start", "ctrl", "addr"} => cmd.kind \in {"write", "read"}
    /\ at \in {"write", "read", "gpio_out", "gpio_in", "help"} => cmd.kind = at
    /\ at = "write" => bi \in 0..cmd.payload_len
    /\ at = "read"  => bi \in 0..cmd.rd_len
    /\ gpio \in 0..255
    /\ out \in Seq(Seq(Item)) /\ Len(out) > 0

\* On the wires the executor is a well-behaved I2C master, whatever is run and
\* whatever the slave answers: header first, one direction per tenure, the last
\* byte of a read refused, and no START or STOP before a tenure is complete.
Bus == INSTANCE TwiBus
BusLegal == Bus!Spec

\* A transaction that is over has released the bus, the last tenure of its chain
\* included.  Whether the tenures before it end with STOP or with the next START
\* is left open: the code does one, its comments promise the other.
BusReleased == at = "idle" => ~Bus!Held(wire)

\* The j-th byte of the current command on the bus.
DueByte(j) ==
    CASE j = 1 -> cmd.ctrl_byte
      [] j = 2 -> cmd.internal_addr
      [] OTHER -> IF cmd.kind = "write" THEN job.pool[cmd.payload_off + j - 2] ELSE 255

\* The bytes that are out since the START at k.
BytesSent == CASE at = "ctrl" -> 0 [] at = "addr" -> 1 [] OTHER -> bi + 2

\* What the proofs need besides: in a tenure, the wires have seen START and then the
\* first bytes of the command, as many as the executor has come to, and its last
\* acknowledge told the slave whether another byte is wanted.
TenureInv ==
    /\ wire \in Seq(Bus!Bytes \cup {Bus!Start, Bus!Stop})
    /\ at \notin {"ctrl", "addr", "write", "read"} => ~Bus!Held(wire)
    /\ at \in {"ctrl", "addr", "write", "read"} =>
          \E k \in 1..Len(wire) :
              /\ wire[k] = Bus!Start
              /\ Len(wire) = k + BytesSent
              /\ \A j \in 1..BytesSent : wire[k + j] \in Bus!Bytes /\ wire[k + j].tx = DueByte(j)
              /\ at = "read" /\ bi > 0 => wire[Len(wire)].mack = IF bi = cmd.rd_len THEN 0 ELSE 1

IInv == TypeOK /\ TenureInv

\* What the bytes of a command are on the bus, from the text it was decoded from.
OnWire(t, c) ==
    CASE c.kind = "write" -> <<c.ctrl_byte, c.internal_addr>>
                             \o SubSeq(t.pool, c.payload_off + 1, c.payload_off + c.payload_len)
      [] c.kind = "read"  -> <<c.ctrl_byte, c.internal_addr>> \o [k \in 1..c.rd_len |-> 255]
      [] OTHER            -> <<>>

IsByte(e) == e.op = "byte"
TxColumn(w) == FlattenSeq([k \in 1..Len(w) |-> IF IsByte(w[k]) THEN <<w[k].tx>> ELSE <<>>])

\* A finished transaction put on the bus the bytes of its commands, all of them,
\* in order, and nothing of the transactions before it again.
TransactionSent ==
    at = "idle" =>
        IsSuffix(FlattenSeq([k \in 1..Len(job.cmds) |-> OnWire(job, job.cmds[k])]), TxColumn(wire))

\* What its proof needs: at any moment these bytes of it are out.
SentSoFar == FlattenSeq([k \in 1..(ci - 1) |-> OnWire(job, job.cmds[k])])
             \o (IF at \in {"ctrl", "addr", "write", "read"}
                 THEN SubSeq(OnWire(job, cmd), 1, BytesSent) ELSE <<>>)
ProgressInv ==
    /\ IsSuffix(SentSoFar, TxColumn(wire))
    /\ at = "idle" => 1..(ci - 1) = 1..Len(job.cmds)

\* The bytes the master has put on the bus itself and the slave acknowledged: all
\* but those after the header of a read.
IsSent(w, k) == LET v == SubSeq(w, 1, k - 1) IN
                IsByte(w[k]) /\ ~(Bus!Sent(v) >= 2 /\ Bus!IsReadTenure(v))
AckedIn(w) == FlattenSeq([k \in 1..Len(w) |->
                  IF IsSent(w, k) /\ w[k].ack = 0 THEN <<<<"hex", w[k].tx>>>> ELSE <<>>])

\* The marks of what is printed, and what stands before each '+'.
Printed == FlattenSeq(out)
MarksIn(p) == FlattenSeq([k \in 1..Len(p) |-> IF p[k] \in {Acked, Refused} THEN <<p[k]>> ELSE <<>>])
MarkedIn(p) == FlattenSeq([k \in 1..Len(p) |-> IF k > 1 /\ p[k] = Acked THEN <<p[k - 1]>> ELSE <<>>])

\* The terminal tells the truth about the slave: what is marked '+' is the sent
\* bytes it acknowledged, in order and none else, and every byte that crossed
\* the bus has left its mark, whichever way it went.
MarksAreTrue ==
    /\ MarkedIn(Printed) = AckedIn(wire)
    /\ Len(MarksIn(Printed)) = Len(TxColumn(wire))

\* Every call of neo_exec_run returns.
Returns == (at = "command") ~> (at = "idle")
=============================================================================
