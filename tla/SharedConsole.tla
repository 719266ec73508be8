--------------------------- MODULE SharedConsole ---------------------------
(***************************************************************************)
(* What the two cores' users of UART0 may rely on: one core at a time      *)
(* holds the console, and only the holder prints, except for a core that   *)
(* stands apart and prints without asking; it does not hold the console.   *)
(***************************************************************************)
EXTENDS Naturals, Sequences

CONSTANT Core

VARIABLES
    holder,     \* the cores that hold the console: one at most
    apart,      \* the cores that print without it
    screen      \* which core printed each character

Init == holder = {} /\ apart = {} /\ screen = <<>>

Acquire(c) == holder = {} /\ c \notin apart /\ holder' = {c} /\ UNCHANGED <<apart, screen>>
PutChar(c) == holder = {c} /\ screen' = Append(screen, c) /\ UNCHANGED <<holder, apart>>
Release(c) == holder = {c} /\ holder' = {} /\ UNCHANGED <<apart, screen>>

\* What a core prints apart may be its last word there.
StandApart(c) == c \notin holder /\ apart' = apart \cup {c} /\ UNCHANGED <<holder, screen>>
Interject(c) ==
    /\ c \in apart
    /\ screen' = Append(screen, c)
    /\ apart' \in {apart, apart \ {c}}
    /\ UNCHANGED holder

Next ==
    \E c \in Core :
        Acquire(c) \/ PutChar(c) \/ Release(c) \/ StandApart(c) \/ Interject(c)

Spec == Init /\ [][Next]_<<holder, apart, screen>>
=============================================================================
