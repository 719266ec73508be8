------------------------------- MODULE NeoRepl -------------------------------
(***************************************************************************)
(* neo_app_run with its parser and its executor in place: a user means     *)
(* something, types it, NeoParser decodes the line into the one static     *)
(* transaction, and NeoExec carries that out.  The console between user    *)
(* and parser is NeoShell's business.                                      *)
(***************************************************************************)
EXTENDS NeoGrammar

CONSTANTS
    OUTS,       \* bytes the user puts on the output port
    RX_BYTES, PINS, OUT_MAX     \* NeoExec's; OUT_MAX also bounds the lines typed

ASSUME BytesAssumption == OUTS \subseteq Byte /\ RX_BYTES \subseteq Byte /\ PINS \subseteq Byte

VARIABLES
    turn,               \* "prompt", "parse" or "exec"
    sends, drives,      \* history: what the lines typed so far should put on bus and port
    slave,              \* the bit it answers every byte with, 1 when it is absent
    job, ci, bi, at, wire, gpio, out    \* NeoExec's

Exec == INSTANCE NeoExec WITH TXNS <- {}

xvars == <<job, ci, bi, at, wire, gpio, out>>
rvars == <<gvars, turn, sends, drives, slave, xvars>>

-----------------------------------------------------------------------------
(* The prompt loop. *)

RInit ==
    /\ GInit
    /\ Exec!Init
    /\ turn = "prompt"
    /\ sends = <<>>
    /\ drives = <<>>
    /\ slave \in {0, 1}

\* The bytes of a command on SDA; it is released while the slave sends.
BusBytes(c) ==
    <<c.ctrl_byte, c.internal_addr>> \o
    (IF c.kind = "read" THEN [k \in 1..c.rd_len |-> 255]
     ELSE Data(c))

\* neo_read_line returns the line s; it should send and drive what is given.
ReadLine(s, bytes, pins) ==
    /\ turn = "prompt"
    /\ Len(out) <= OUT_MAX
    /\ Parse(s)
    /\ turn' = "parse"
    /\ sends' = sends \o bytes
    /\ drives' = drives \o pins
    /\ UNCHANGED <<slave, xvars>>

TypeTransaction ==
    \E t \in INTENTS :
        /\ ReadLine(SpellTxn(t), FlattenSeq([k \in DOMAIN t |-> BusBytes(t[k])]), <<>>)
        /\ intent' = t

TypeOut == \E b \in OUTS : ReadLine(word_out \o Bin8(b, FALSE), <<>>, <<b>>) /\ intent' = <<>>

\* Lines that are wrong, and commands that only print.
TypeOther == \E l \in LINES : ReadLine(l, <<>>, <<>>) /\ intent' = <<>>

Decode == turn = "parse" /\ Step /\ UNCHANGED <<intent, turn, sends, drives, slave, xvars>>

Rejected ==
    /\ turn = "parse"
    /\ pc = "rejected"
    /\ turn' = "prompt"
    /\ UNCHANGED <<gvars, sends, drives, slave, xvars>>

\* Mutant: the result of neo_parse_transaction is not looked at.
AcceptedAnyway ==
    /\ turn = "parse"
    /\ pc \in {"accepted", "rejected"}
    /\ Exec!Run([cmds |-> cmds, pool |-> pool])
    /\ turn' = "exec"
    /\ UNCHANGED <<gvars, sends, drives, slave>>

Accepted ==
    /\ turn = "parse"
    /\ pc = "accepted"
    /\ Exec!Run([cmds |-> cmds, pool |-> pool])
    /\ turn' = "exec"
    /\ UNCHANGED <<gvars, sends, drives, slave>>

\* NeoExec has checked every answer to every byte; here the slave is either
\* there or not.
Execute ==
    /\ turn = "exec"
    /\ Exec!Step
    /\ wire' # wire /\ Exec!IsByte(Last(wire')) => Last(wire').ack = slave
    /\ UNCHANGED <<gvars, turn, sends, drives, slave>>

Executed ==
    /\ turn = "exec"
    /\ at = "idle"
    /\ turn' = "prompt"
    /\ UNCHANGED <<gvars, sends, drives, slave, xvars>>

Work == Decode \/ Rejected \/ Accepted \/ Execute \/ Executed

RNext == Work \/ TypeTransaction \/ TypeOut \/ TypeOther

\* The CPU runs and HAL calls return (SerialHal); nobody has to type.
RSpec == RInit /\ [][RNext]_rvars /\ WF_rvars(Work)

-----------------------------------------------------------------------------
(* Properties. *)

\* At every prompt the bus and the port have seen what the user meant with all
\* lines so far: the spelled bytes, once each and in order, nothing for a line
\* that was rejected, and nothing left in s_txn from an earlier line.
DoneAsMeant ==
    turn = "prompt" =>
        /\ Exec!TxColumn(wire) = sends
        /\ gpio = (IF drives = <<>> THEN 0 ELSE Last(drives))

\* What neo_exec.c takes for granted about a transaction (NeoExec's
\* TxnsAssumption) the parser has established for the one it is running.
PromisesKept ==
    turn = "exec" =>
        \A k \in 1..Len(job.cmds) :
            LET c == job.cmds[k] IN
            /\ c.kind \in {"write", "read", "gpio_out", "gpio_in", "help"}
            /\ c.payload_off + c.payload_len <= Len(job.pool)
            /\ c.kind = "write" => c.ctrl_byte \in {160, 162}
            /\ c.kind = "read"  => c.ctrl_byte \in {161, 163} /\ (c.rd_len > 0 => c.rd_fmt # FMT_NONE)

\* Every line comes to its end, and the prompt back.
PromptReturns == (turn = "parse") ~> (turn = "prompt")
=============================================================================
