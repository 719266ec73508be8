------------------------------ MODULE SerialHal ------------------------------
(***************************************************************************)
(* The polling functions of neorv32_twi.c and neorv32_spi.c over their     *)
(* controllers (neorv32_twi.vhd, neorv32_spi.vhd), whose FIFOs hold one    *)
(* entry as the processor configures them by default.  The CPU makes one   *)
(* call at a time; a step of it is one access to a controller's register.  *)
(* The controllers are clocked on their own, and at least once between two *)
(* accesses.                                                               *)
(***************************************************************************)
EXTENDS Integers, Sequences

CONSTANTS
    CALLS,      \* calls: [port : {"twi", "spi"}, op, data, mack]
    BYTES,      \* what may be sampled on the data line
    CLKSTR,     \* the last argument of neorv32_twi_setup
    MAX_CALLS   \* bound: calls the program makes

ASSUME CallsAssumption ==
    \A c \in CALLS :
        \/ c.port = "twi" /\ c.op \in {"start", "stop", "data"} /\ c.mack \in {0, 1}
        \/ c.port = "spi" /\ c.op \in {"cs_en", "cs_dis", "data"}

ASSUME ClkstrAssumption == CLKSTR \in BOOLEAN

VARIABLES
    pc,         \* where the CPU is in the call
    call,       \* its last call
    ret,        \* the last answer: <<status of ..._twi_get, byte>>
    tx, rx,     \* the FIFOs of each port, None when empty
    engine,     \* the operation each engine is busy with
    tx_re,      \* the TWI engine's strobe that pops the transmit FIFO
    rx_we,      \* the word each engine's strobe pushes into the receive FIFO, or None
    due,        \* controllers without a clock since the last access
    bus,        \* events on the wires, oldest first
    held,       \* an I2C device keeps SCL low
    made        \* calls made

cpu == <<pc, call, ret, made>>
strobes == <<tx_re, rx_we>>
vars == <<cpu, tx, rx, engine, strobes, due, bus, held>>

Port == {"twi", "spi"}
None == [port |-> "none"]

Idle(p) == engine[p] = None

BusyIsEngine(p) == ~Idle(p)                                         \* mutant

\* The busy flag of the control register.
Busy(p) == ~Idle(p) \/ tx[p] # None

-----------------------------------------------------------------------------
(* A clock of a controller. *)

Event(c, ack, b) == [call |-> c, ack |-> ack, rx |-> b]

\* The TWI engine's strobe is a register: it pops the entry a clock after the engine
\* has become busy with it.  The SPI engine pops whenever it is idle.
Pops(p) == IF p = "twi" THEN tx_re ELSE Idle(p)

\* What the FIFOs do.  The push of a word comes a clock after the engine is idle
\* again; a full FIFO drops it.
FifoClock(p) ==
    /\ tx' = IF Pops(p) THEN [tx EXCEPT ![p] = None] ELSE tx
    /\ rx' = IF rx_we[p] # None /\ rx[p] = None THEN [rx EXCEPT ![p] = rx_we[p]] ELSE rx
    /\ due' = due \ {p}
    /\ UNCHANGED <<cpu, held>>

\* An engine takes the next entry, TWI with a tick of its bus clock; the SPI engine
\* carries out a chip-select command in the same clock.
Take(p) ==
    /\ Idle(p)
    /\ tx[p] # None
    /\ FifoClock(p)
    /\ tx_re' = (p = "twi" \/ tx_re)
    /\ rx_we' = [rx_we EXCEPT ![p] = None]
    /\ IF tx[p].op \in {"cs_en", "cs_dis"}
       THEN /\ \E ack \in {0, 1}, b \in BYTES : bus' = Append(bus, Event(tx[p], ack, b))
            /\ UNCHANGED engine
       ELSE engine' = [engine EXCEPT ![p] = tx[p]] /\ UNCHANGED bus

StretchedAnyway == held                                             \* mutant

\* The clock phases stand still for a device that holds SCL, if this is enabled.
Stretched == CLKSTR /\ held

PushesAlways(c) == TRUE                                             \* mutant

\* Only an exchange of data leaves a word in the receive FIFO.
Pushes(c) == c.op = "data"

\* An operation takes more than one clock.  The ninth bit is wired-and: the master's
\* own acknowledge is sampled, too.
Finish(p) ==
    /\ ~Idle(p)
    /\ p = "twi" => ~Stretched /\ ~tx_re
    /\ FifoClock(p)
    /\ \E ack \in {0, 1}, b \in BYTES :
          /\ p = "twi" /\ engine[p].mack = 1 => ack = 0
          /\ bus' = Append(bus, Event(engine[p], ack, b))
          /\ rx_we' = [rx_we EXCEPT ![p] = IF Pushes(engine[p])
                                           THEN [port |-> p, ack |-> ack, data |-> b] ELSE None]
    /\ engine' = [engine EXCEPT ![p] = None]
    /\ UNCHANGED tx_re

\* The engine goes on with what it does.  An idle SPI engine leaves no entry waiting.
Wait(p) ==
    /\ p = "spi" /\ Idle(p) => tx[p] = None
    /\ FifoClock(p)
    /\ tx_re' = (p # "twi" /\ tx_re)
    /\ rx_we' = [rx_we EXCEPT ![p] = None]
    /\ UNCHANGED <<engine, bus>>

Clock(p) == Take(p) \/ Finish(p) \/ Wait(p)

Scl(level) == held' = level /\ UNCHANGED <<cpu, tx, rx, engine, strobes, due, bus>>
HoldScl == ~held /\ Scl(TRUE)
ReleaseScl == held /\ Scl(FALSE)

-----------------------------------------------------------------------------
(* The functions. *)

\* A controller acknowledges an access in the clock after it, which the CPU waits for
\* before it goes on; so there is a clock between any two accesses, and this is all
\* that is assumed of their timing.
Acknowledged == due = {}
Access == due' = Port

Init ==
    /\ pc = "ready"
    /\ call = None
    /\ ret = <<>>
    /\ tx = [p \in Port |-> None]
    /\ rx = [p \in Port |-> None]
    /\ engine = [p \in Port |-> None]
    /\ tx_re = FALSE
    /\ rx_we = [p \in Port |-> None]
    /\ due = {}
    /\ bus = <<>>
    /\ held = FALSE
    /\ made = 0

\* neorv32_spi_transfer writes at once, the others look for room first.
First(c) == IF c.port = "spi" /\ c.op = "data" THEN "put" ELSE "room"

Call(c) ==
    /\ pc = "ready"
    /\ made < MAX_CALLS
    /\ Acknowledged
    /\ call' = c
    /\ pc' = First(c)
    /\ made' = made + 1
    /\ UNCHANGED <<ret, tx, rx, engine, strobes, due, bus, held>>

\* The poll of TX_FULL lets the call go on.
Room ==
    /\ pc = "room"
    /\ Acknowledged /\ Access
    /\ tx[call.port] = None
    /\ pc' = "put"
    /\ UNCHANGED <<call, ret, tx, rx, engine, strobes, bus, held, made>>

\* The chip-select functions return as soon as the command is queued.
AfterPut(c) == IF c.op \in {"cs_en", "cs_dis"} THEN "ready" ELSE "busy"

\* The write of the data register.  A full FIFO drops it.
Put ==
    /\ pc = "put"
    /\ Acknowledged /\ Access
    /\ tx' = IF tx[call.port] = None THEN [tx EXCEPT ![call.port] = call] ELSE tx
    /\ pc' = AfterPut(call)
    /\ UNCHANGED <<call, ret, rx, engine, strobes, bus, held, made>>

\* The poll of BUSY lets the call go on.
NotBusy ==
    /\ pc = "busy"
    /\ Acknowledged /\ Access
    /\ ~Busy(call.port)
    /\ pc' = IF call.op = "data" THEN "get" ELSE "ready"
    /\ UNCHANGED <<call, ret, tx, rx, engine, strobes, bus, held, made>>

\* neorv32_twi_get, neorv32_spi_get_nonblocking: TWI tells an empty FIFO by -1 and
\* leaves the byte alone; an empty SPI FIFO reads as what it last held.  TWI's test
\* and its read are one step: nothing fills the FIFO in between.
Get ==
    /\ pc = "get"
    /\ Acknowledged /\ Access
    /\ LET w == rx[call.port] IN
       \/ w # None /\ ret' = <<IF call.port = "twi" THEN w.ack ELSE 0, w.data>>
       \/ w = None /\ call.port = "twi" /\ ret' = <<-1, call.data>>
       \/ w = None /\ call.port = "spi" /\ \E b \in BYTES : ret' = <<0, b>>
    /\ rx' = [rx EXCEPT ![call.port] = None]
    /\ pc' = "ready"
    /\ UNCHANGED <<call, tx, engine, strobes, bus, held, made>>

Cpu == Room \/ Put \/ NotBusy \/ Get

Next ==
    \/ Cpu \/ HoldScl \/ ReleaseScl
    \/ \E c \in CALLS : Call(c)
    \/ \E p \in Port : Clock(p)

Spec == Init /\ [][Next]_vars

\* The processor runs and the controllers are clocked; a bus clock ticks.  Nothing
\* makes a device let go of SCL.
FairSpec ==
    /\ Spec
    /\ WF_vars(Cpu)
    /\ \A p \in Port : WF_vars(Take(p)) /\ WF_vars(Finish(p)) /\ WF_vars(Wait(p))

-----------------------------------------------------------------------------
(* Properties. *)

\* No word is left in a receive FIFO when a call returns, where the next call
\* would take it for its own answer, and nothing of a TWI call is still to come.
NothingLeftOver ==
    pc = "ready" => /\ \A p \in Port : rx[p] = None
                    /\ ~Busy("twi")
                    /\ Idle("spi")

\* What is left of the call: its event, its answer or nothing.
EventDue ==
    call # None /\ (pc \in {"room", "put"} \/ tx[call.port] # None \/ ~Idle(call.port))
AnswerDue == ~EventDue /\ (pc = "get" \/ (pc = "busy" /\ call.op = "data"))
Todo ==
    CASE EventDue  -> call
      [] AnswerDue -> [port |-> "sampled"]
      [] OTHER     -> None

Abs == INSTANCE SerialBus WITH todo <- Todo

\* Each call is one event on the wires and returns what that event sampled.
Atomic == Abs!Spec

\* What the proof of these needs besides: types first.
Command == {"cs_en", "cs_dis"}
TypeOK ==
    /\ pc \in {"ready", "room", "put", "busy", "get"}
    /\ call \in CALLS \cup {None} /\ (pc # "ready" => call # None)
    /\ tx \in [Port -> CALLS \cup {None}] /\ engine \in [Port -> CALLS \cup {None}]
    /\ DOMAIN rx = Port /\ DOMAIN rx_we = Port
    /\ tx_re \in BOOLEAN /\ due \subseteq Port
    /\ bus \in Seq([call : CALLS, ack : {0, 1}, rx : BYTES])

\* A word w is what the last event has sampled.
Sampled(p, w) ==
    LET e == bus[Len(bus)] IN
    /\ bus # <<>> /\ e.call = call
    /\ w = [port |-> p, ack |-> e.ack, data |-> e.rx]

\* No operation of p is queued or running, and no word is there or on its way.
Quiet(p) == tx[p] = None /\ Idle(p) /\ ~(p = "twi" /\ tx_re)
NoWord(p) == rx[p] = None /\ rx_we[p] = None
Empty(p) == Quiet(p) /\ NoWord(p)

\* The word of the last event is in the FIFO, or it is pushed with the next clock.
WordThere(p) ==
    /\ Quiet(p)
    /\ \/ rx[p] = None /\ Sampled(p, rx_we[p])
       \/ Sampled(p, rx[p]) /\ rx_we[p] = None

\* A call is in one place at a time (the FIFO, the engine, the answer), and nothing
\* else is anywhere; the TWI engine is busy before its entry leaves the FIFO.  A
\* chip-select command stays behind for a clock.
PlaceInv ==
    /\ \A p \in Port : pc # "ready" /\ p # call.port => Empty(p)
    /\ pc \in {"room", "put"} => Empty(call.port)
    /\ pc = "busy" =>
          /\ call.op \notin Command
          /\ \/ /\ tx[call.port] = call /\ Idle(call.port) /\ NoWord(call.port)
                /\ ~(call.port = "twi" /\ tx_re)
             \/ /\ engine[call.port] = call /\ NoWord(call.port)
                /\ tx[call.port] = IF call.port = "twi" /\ tx_re THEN call ELSE None
             \/ IF call.op = "data" THEN WordThere(call.port) ELSE Empty(call.port)
    /\ pc = "get" =>
          /\ call.op = "data" /\ WordThere(call.port)
          /\ call.port \notin due => Sampled(call.port, rx[call.port])
    /\ pc = "ready" =>
          /\ \A p \in Port : Idle(p) /\ NoWord(p)
          /\ tx["twi"] = None /\ ~tx_re
          /\ tx["spi"] # None => tx["spi"] = call /\ call.op \in Command /\ "spi" \in due

IInv == TypeOK /\ PlaceInv

\* Every call returns, whatever a device does with SCL.
Returns == (pc # "ready") ~> (pc = "ready")
=============================================================================
