------------------------------ MODULE DualCore ------------------------------
(***************************************************************************)
(* Two cores: the launch of core 1 by neorv32_smp_launch and the start-up  *)
(* code it sleeps in, then sw/example/demo_dual_core, whose cores share    *)
(* UART0 under a spinlock made of LR and SC, on the bus's reservation      *)
(* station.  A step is one access to what the cores share.  The granule of *)
(* the lock holds nothing else that is written.                            *)
(***************************************************************************)
EXTENDS Integers, Sequences

CONSTANTS
    STACKS,     \* bound: the stack given to each call of neorv32_smp_launch
    LENGTH      \* characters of a message

\* The demo calls it once; a longer sequence is a caller that tries again.
ASSUME StacksAssumption == STACKS \in Seq(Nat) /\ Len(STACKS) > 0
ASSUME LengthAssumption == LENGTH \in Nat \ {0}

Core == {0, 1}
Unlocked == 0
Locked == -1

VARIABLES
    pc,         \* pc[c]: where core c is
    msi,        \* CLINT.MSWI[1]
    cmp,        \* CLINT.MTIMECMP[1]: low and high word
    sp, entry,  \* core 1's x2 and x12
    image,      \* whose crt0 core 1 is in: the bootloader's or the application's
    call,       \* index of the current call of neorv32_smp_launch
    rc,         \* what the last one returned
    spin_locked,
    reg,        \* reg[c]: what LR loaded
    rsv, turn,  \* the reservation station
    chars,      \* chars[c]: characters core c has printed of the message it is at
    screen      \* which core printed what, once core 1 may be running

launch == <<msi, cmp, sp, entry, image, call, rc>>
lock == <<spin_locked, reg, rsv, turn>>
vars == <<pc, launch, lock, chars, screen>>

Goto(c, l) == pc' = [pc EXCEPT ![c] = l]

-----------------------------------------------------------------------------
(* The reservation station of neorv32_bus_amo_rvs. *)

\* Mutant: a reservation is nobody else's, whoever's turn it is.
LrAllowedFirst(c) == ~rsv.set \/ rsv.id = c
LrAllowed(c) == ~rsv.set \/ rsv.id = c \/ turn = c

\* Mutant: whatever reservation there is will do.
ScValidForAll(c) == rsv.set
ScValid(c) == rsv.set /\ rsv.id = c

LR(c) ==
    /\ reg' = [reg EXCEPT ![c] = spin_locked]
    /\ rsv' = IF LrAllowed(c) THEN [set |-> TRUE, id |-> c] ELSE rsv
    /\ UNCHANGED <<spin_locked, turn>>

\* A failed SC of the owner would drop its reservation; with one address the
\* owner's does not fail.
SC(c, v) ==
    /\ IF ScValid(c)
       THEN spin_locked' = v /\ rsv' = [rsv EXCEPT !.set = FALSE] /\ turn' = 1 - turn
       ELSE UNCHANGED <<spin_locked, rsv, turn>>
    /\ UNCHANGED reg

-----------------------------------------------------------------------------
(* spinlock.c; a core goes on at `next`. *)

SpinLock(c, next) ==
    \/ pc[c] = "lock" /\ LR(c) /\ Goto(c, "lock.test")
    \/ /\ pc[c] = "lock.test"
       /\ Goto(c, IF reg[c] = Unlocked THEN "lock.sc" ELSE "lock")
       /\ UNCHANGED lock
    \/ /\ pc[c] = "lock.sc"
       /\ SC(c, Locked)
       /\ Goto(c, IF ScValid(c) THEN next ELSE "lock")

SpinUnlock(c, next) ==
    \/ pc[c] = "unlock" /\ LR(c) /\ Goto(c, "unlock.sc")
    \/ /\ pc[c] = "unlock.sc"
       /\ SC(c, Unlocked)
       /\ Goto(c, IF ScValid(c) THEN next ELSE "unlock")

\* One character of neorv32_uart0_printf.
PutChar(c) ==
    /\ pc[c] = "print"
    /\ screen' = Append(screen, c)
    /\ chars' = [chars EXCEPT ![c] = @ + 1]
    /\ Goto(c, IF chars[c] + 1 = LENGTH THEN "unlock" ELSE "print")

\* What either core does under the lock.
Talk(c, next) ==
    /\ UNCHANGED launch
    /\ \/ (SpinLock(c, "print") \/ SpinUnlock(c, next)) /\ UNCHANGED <<chars, screen>>
       \/ PutChar(c) /\ UNCHANGED lock

-----------------------------------------------------------------------------
(* Core 0: crt0, main, neorv32_smp_launch. *)

Init ==
    /\ pc = [c \in Core |-> "crt0"]
    /\ msi = 0
    /\ cmp = [lo |-> 0, hi |-> "none"]
    /\ sp = 0
    /\ entry = "none"
    /\ image = "rom"
    /\ call = 0
    /\ rc = 1
    /\ spin_locked \in {Unlocked, Locked}      \* memory after power-up
    /\ reg = [c \in Core |-> 0]
    /\ rsv = [set |-> FALSE, id |-> 0]
    /\ turn = 0
    /\ chars = [c \in Core |-> 0]
    /\ screen = <<>>

\* .bss is cleared before main.
BssClear ==
    /\ pc[0] = "crt0"
    /\ spin_locked' = Unlocked
    /\ Goto(0, "launch")
    /\ UNCHANGED <<launch, reg, rsv, turn, chars, screen>>

Launch ==
    /\ pc[0] = "launch"
    /\ call' = call + 1
    /\ Goto(0, "boot1.sp")
    /\ UNCHANGED <<msi, cmp, sp, entry, image, rc, lock, chars, screen>>

\* Both requests of a launch: the application's crt0 first, then main_core1.
Request(at) == IF at \in {"boot1.sp", "boot1.entry", "boot1.msi", "boot1.poll"} THEN "crt0" ELSE "main"

PutSp ==
    /\ pc[0] \in {"boot1.sp", "boot2.sp"}
    /\ cmp' = [cmp EXCEPT !.lo = STACKS[call]]
    /\ Goto(0, IF pc[0] = "boot1.sp" THEN "boot1.entry" ELSE "boot2.entry")
    /\ UNCHANGED <<msi, sp, entry, image, call, rc, lock, chars, screen>>

PutEntry ==
    /\ pc[0] \in {"boot1.entry", "boot2.entry"}
    /\ cmp' = [cmp EXCEPT !.hi = Request(pc[0])]
    /\ Goto(0, IF pc[0] = "boot1.entry" THEN "boot1.msi" ELSE "boot2.msi")
    /\ UNCHANGED <<msi, sp, entry, image, call, rc, lock, chars, screen>>

SetMsi ==
    /\ pc[0] \in {"boot1.msi", "boot2.msi"}
    /\ msi' = 1
    /\ Goto(0, IF pc[0] = "boot1.msi" THEN "boot1.poll" ELSE "boot2.poll")
    /\ UNCHANGED <<cmp, sp, entry, image, call, rc, lock, chars, screen>>

\* The poll that finds the request acknowledged.
Acknowledged ==
    /\ pc[0] \in {"boot1.poll", "boot2.poll"}
    /\ msi = 0
    /\ IF pc[0] = "boot1.poll" THEN Goto(0, "boot2.sp") /\ UNCHANGED rc
                               ELSE Goto(0, "lock") /\ rc' = 0
    /\ UNCHANGED <<msi, cmp, sp, entry, image, call, lock, chars, screen>>

\* The last poll, core 1 being as slow as it likes.
TimedOut ==
    /\ pc[0] \in {"boot1.poll", "boot2.poll"}
    /\ msi = 1
    /\ rc' = -2
    /\ Goto(0, "report")
    /\ UNCHANGED <<msi, cmp, sp, entry, image, call, lock, chars, screen>>

\* One character of the message about the failed launch, which asks for no lock.  The
\* demo ends after it.
Report ==
    /\ pc[0] = "report"
    /\ screen' = Append(screen, 0)
    /\ IF chars[0] + 1 < LENGTH
       THEN chars' = [chars EXCEPT ![0] = @ + 1] /\ UNCHANGED pc
       ELSE /\ chars' = [chars EXCEPT ![0] = 0]
            /\ Goto(0, IF call < Len(STACKS) THEN "launch" ELSE "halt")
    /\ UNCHANGED <<launch, lock>>

\* while(spin_check());
SpinCheck ==
    /\ pc[0] = "check"
    /\ LR(0)
    /\ Goto(0, IF spin_locked = Unlocked THEN "halt" ELSE "check")
    /\ UNCHANGED <<launch, chars, screen>>

Core0 ==
    \/ BssClear \/ Launch \/ PutSp \/ PutEntry \/ SetMsi \/ Acknowledged \/ TimedOut
    \/ Report \/ Talk(0, "check") \/ SpinCheck

-----------------------------------------------------------------------------
(* Core 1: crt0 and main_core1. *)

SmpSetup ==
    /\ pc[1] = "crt0"
    /\ Goto(1, "sleep")
    /\ UNCHANGED <<launch, lock, chars, screen>>

\* The software interrupt, pending or not when it is enabled.
Wakeup ==
    /\ pc[1] = "sleep"
    /\ msi = 1
    /\ Goto(1, "wake.sp")
    /\ UNCHANGED <<launch, lock, chars, screen>>

\* Mutant: the request is acknowledged before it is read.
GetSpAcks ==
    /\ pc[1] = "wake.sp"
    /\ sp' = cmp.lo
    /\ msi' = 0
    /\ Goto(1, "wake.entry")
    /\ UNCHANGED <<cmp, entry, image, call, rc, lock, chars, screen>>

GetSp ==
    /\ pc[1] = "wake.sp"
    /\ sp' = cmp.lo
    /\ Goto(1, "wake.entry")
    /\ UNCHANGED <<msi, cmp, entry, image, call, rc, lock, chars, screen>>

GetEntry ==
    /\ pc[1] = "wake.entry"
    /\ entry' = cmp.hi
    /\ Goto(1, "wake.clear")
    /\ UNCHANGED <<msi, cmp, sp, image, call, rc, lock, chars, screen>>

ClearMsi ==
    /\ pc[1] = "wake.clear"
    /\ msi' = 0
    /\ Goto(1, "jump")
    /\ UNCHANGED <<cmp, sp, entry, image, call, rc, lock, chars, screen>>

\* Mutant: the bootloader's start-up code is left by nothing but main.
JumpMain ==
    /\ pc[1] = "jump"
    /\ Goto(1, "lock")
    /\ UNCHANGED <<launch, lock, chars, screen>>

\* __crt0_main_entry, with no interrupt enabled any more.
Jump ==
    /\ pc[1] = "jump"
    /\ IF entry = "crt0" THEN Goto(1, "crt0") /\ image' = "app"
                         ELSE Goto(1, "lock") /\ UNCHANGED image
    /\ UNCHANGED <<msi, cmp, sp, entry, call, rc, lock, chars, screen>>

Core1 ==
    \/ SmpSetup \/ Wakeup \/ GetSp \/ GetEntry \/ ClearMsi \/ Jump
    \/ Talk(1, "halt")

Next == Core0 \/ Core1

Spec == Init /\ [][Next]_vars

\* Both cores run; a poll that is not answered ends.
FairSpec == Spec /\ WF_vars(Core0) /\ WF_vars(Core1)

-----------------------------------------------------------------------------
(* Properties. *)

Running == {"lock", "lock.test", "lock.sc", "print", "unlock", "unlock.sc", "check", "halt"}

\* A launch that returns 0 has core 1 on its way into main_core1, on the stack of
\* that very call, whatever earlier calls timed out and however late core 1
\* answered them.
LaunchTruthful ==
    rc = 0 => entry = "main" /\ sp = STACKS[call] /\ pc[1] \in Running \cup {"jump"}

\* Core 1 only enters main_core1 from the application's own crt0, and only reads
\* .bss after core 0 has cleared it.
SharedDataReady ==
    pc[1] \in Running => image = "app" /\ pc[0] # "crt0"

\* The spinlock gives the console to one core at a time: while a core holds it, no
\* other one takes it, and nobody prints but the core that holds it.  The exception is
\* the report of a failed launch, which goes past the lock: a core that makes it does
\* not hold the console, and prints into the message of one that does.
Holds(c) == pc[c] \in {"print", "unlock", "unlock.sc"}
Console == INSTANCE SharedConsole WITH holder <- {c \in Core : Holds(c)},
                                       apart <- {c \in Core : pc[c] = "report"}
Exclusive == Console!Spec

\* What the proof of these needs besides.  Every variable keeps to its type, and a
\* request is only made with the stack of a call.
Starting == {"crt0", "sleep", "wake.sp", "wake.entry", "wake.clear", "jump"}
Launching == {"boot1.sp", "boot1.entry", "boot1.msi", "boot1.poll",
              "boot2.sp", "boot2.entry", "boot2.msi", "boot2.poll"}
TypeOK ==
    /\ pc \in [Core -> {"crt0", "launch", "report"} \cup Launching \cup Starting \cup Running]
    /\ pc[0] \in {"crt0", "launch", "report"} \cup Launching \cup Running
    /\ pc[1] \in Starting \cup (Running \ {"check"})
    /\ msi \in {0, 1}
    /\ cmp \in [lo : Nat, hi : {"none", "crt0", "main"}]
    /\ sp \in Nat /\ entry \in {"none", "crt0", "main"}
    /\ image \in {"rom", "app"}
    /\ call \in 0..Len(STACKS) /\ rc \in {1, 0, -2}
    /\ pc[0] \in Launching => call > 0
    /\ pc[0] \in {"crt0", "launch"} => call < Len(STACKS)
    /\ spin_locked \in {Unlocked, Locked} /\ reg \in [Core -> {Unlocked, Locked}]
    /\ rsv \in [set : BOOLEAN, id : Core] /\ turn \in Core
    /\ chars \in [Core -> Nat] /\ screen \in Seq(Core)

\* Core 1 reads a request while it stands, and core 0 makes the second one only
\* when core 1 has left the first behind.
RequestInv ==
    /\ pc[1] \in {"wake.sp", "wake.entry", "wake.clear"} => msi = 1
    /\ pc[0] \in {"boot2.sp", "boot2.entry", "boot2.msi"} => msi = 0
    /\ pc[0] \in {"boot2.entry", "boot2.msi", "boot2.poll"} => cmp.lo = STACKS[call]
    /\ pc[0] \in {"boot2.msi", "boot2.poll"} => cmp.hi = "main"
    /\ pc[0] = "boot2.poll" =>
          /\ pc[1] \in {"wake.entry", "wake.clear"} => sp = STACKS[call]
          /\ pc[1] = "wake.clear" => entry = "main"
          /\ msi = 0 => /\ entry = "main" /\ sp = STACKS[call]
                        /\ pc[1] \in Running \cup {"jump"}
    /\ rc = 0 => pc[0] \in Running /\ msi = 0

\* The start-up code of the bootloader is only left for the application's.
ImageInv ==
    /\ pc[0] = "crt0" => pc[1] \in {"crt0", "sleep"} /\ image = "rom" /\ msi = 0
    /\ image = "rom" /\ pc[1] # "jump" =>
          /\ pc[0] \in {"crt0", "launch", "boot1.sp", "boot1.entry", "boot1.msi", "boot1.poll",
                       "report", "halt"}
          /\ cmp.hi # "main" /\ rc # 0
          /\ pc[0] = "boot1.msi" \/ msi = 1 => cmp.hi = "crt0"
          /\ pc[0] = "boot1.poll" => msi = 1
          /\ pc[1] = "wake.clear" => entry = "crt0"
    /\ image = "rom" /\ pc[1] = "jump" => entry = "crt0"

\* The lock's word says whether a core holds the console, and a reservation that
\* stands says that the word is still what its owner has read.
LockInv ==
    /\ pc[0] = "crt0" => ~rsv.set
    /\ pc[0] # "crt0" => (spin_locked = Locked <=> \E c \in Core : Holds(c))
    /\ ~(Holds(0) /\ Holds(1))
    /\ rsv.set => reg[rsv.id] = spin_locked
    /\ \A c \in Core : pc[c] = "lock.sc" => reg[c] = Unlocked

IInv == TypeOK /\ LaunchTruthful /\ SharedDataReady /\ RequestInv /\ ImageInv /\ LockInv

\* Core 1 can always give the lock back, however often core 0 reserves it.
Core1Unlocks == (pc[1] = "unlock") ~> ~Holds(1)

\* soc.adoc: "mutually exclusive access without starvation".  A core that asks
\* for the lock gets it, and gives it back.
NoStarvation == \A c \in Core : (pc[c] = "lock") ~> (pc[c] \in {"check", "halt"})
=============================================================================
