------------------------------- MODULE TwiBus -------------------------------
(***************************************************************************)
(* What an observer of the I2C wires may see a master do, for the slaves   *)
(* this firmware talks to: a tenure of the bus opens with START, sends a   *)
(* control byte A0..A3 and an internal address, moves data one way, and    *)
(* ends with STOP or with the repeated START of the next tenure.  Stated   *)
(* over the trace of the wires alone, with no transaction, parser or       *)
(* terminal in sight.                                                      *)
(***************************************************************************)
EXTENDS Integers, Sequences, SequencesExt

VARIABLE wire       \* events seen on SCL and SDA, oldest first

\* mack and ack: the level of the ninth bit the master drives and the one that
\* is sampled; mack = 1 means the master pulls it low.
Start == [op |-> "start"]
Stop  == [op |-> "stop"]
Bytes == [op : {"byte"}, tx : 0..255, mack : {0, 1}, ack : {0, 1}, rx : 0..255]

-----------------------------------------------------------------------------
(* The tenure that is open: what was seen since the last START. *)

LastStart(w) == CHOOSE k \in 1..Len(w) : /\ w[k].op = "start"
                                         /\ \A j \in (k + 1)..Len(w) : w[j].op # "start"

Held(w) == Len(w) > 0 /\ w[Len(w)].op # "stop"
Sent(w) == Len(w) - LastStart(w)
IsReadTenure(w) == w[LastStart(w) + 1].tx \in {161, 163}

\* A master that has not acknowledged a data byte has told the slave to stop.
ReadEnded(w) == Sent(w) > 2 /\ w[Len(w)].mack = 0

\* STOP and a repeated START need SDA: a slave that was promised another byte
\* may hold it low.
Complete(w) ==
    /\ Held(w)
    /\ Sent(w) >= 2
    /\ Sent(w) > 2 /\ IsReadTenure(w) => ReadEnded(w)

MayStart(w) == ~Held(w) \/ Complete(w)
MayStop(w)  == Complete(w)

\* The header goes out with SDA released in the ninth bit; so does a data byte
\* that is written, while one that is read is acknowledged until the last.
MaySend(w, e) ==
    /\ Held(w)
    /\ Sent(w) = 0 => e.tx \in 160..163
    /\ Sent(w) < 2 \/ ~IsReadTenure(w) => e.mack = 0
    /\ Sent(w) >= 2 /\ IsReadTenure(w) => e.tx = 255 /\ ~ReadEnded(w)

Init == wire = <<>>

Allowed(w, e) ==
    \/ e = Start /\ MayStart(w)
    \/ e \in Bytes /\ MaySend(w, e)
    \/ e = Stop /\ MayStop(w)

\* The trace grows by one event at a time.
Next ==
    /\ wire' # <<>>
    /\ Front(wire') = wire
    /\ Allowed(wire, Last(wire'))

Spec == Init /\ [][Next]_wire
=============================================================================
