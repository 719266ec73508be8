------------------------------ MODULE SerialBus ------------------------------
(***************************************************************************)
(* What the callers of the TWI and SPI functions count on: a call is one   *)
(* event on the wires, the one that was asked for, and what it returns is  *)
(* what was sampled in that event and not in another.                      *)
(***************************************************************************)
EXTENDS Integers, Sequences, SequencesExt

CONSTANTS CALLS, BYTES

VARIABLES
    todo,       \* the call in progress, None, or Sampled: only its answer is due
    bus,        \* events on the wires, oldest first
    ret         \* the last answer: <<acknowledge bit, byte>>

None == [port |-> "none"]
Sampled == [port |-> "sampled"]

\* Event e is what call c asks for; the other side decides what is sampled.
Fulfils(e, c) == e.call = c /\ e.ack \in {0, 1} /\ e.rx \in BYTES

Init == todo = None /\ bus = <<>> /\ ret = <<>>

Invoke(c) == todo = None /\ todo' = c /\ UNCHANGED <<bus, ret>>

Happen ==
    /\ todo \in CALLS
    /\ bus' # <<>> /\ Front(bus') = bus /\ Fulfils(Last(bus'), todo)
    /\ todo' = IF todo.op = "data" THEN Sampled ELSE None
    /\ UNCHANGED ret

\* SPI has no acknowledge bit.
Answer(e) == <<IF e.call.port = "twi" THEN e.ack ELSE 0, e.rx>>

Return ==
    /\ todo = Sampled
    /\ ret' = Answer(Last(bus))
    /\ todo' = None
    /\ UNCHANGED bus

Next == Happen \/ Return \/ \E c \in CALLS : Invoke(c)

Spec == Init /\ [][Next]_<<todo, bus, ret>>
=============================================================================
