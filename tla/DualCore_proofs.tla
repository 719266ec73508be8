--------------------------- MODULE DualCore_proofs ---------------------------
(* Proofs about DualCore for every sequence of launches and every length of   *)
(* the messages.  A step of a core is either one of the launch protocol, which *)
(* leaves the lock alone, or one of the lock, which leaves the protocol alone; *)
(* a lemma for each kind says what such a step keeps.                          *)
EXTENDS DualCore, SequenceTheorems, TLAPS

USE DEF Core, Unlocked, Locked, Running, Starting, Launching, Goto, launch, lock

-----------------------------------------------------------------------------
(* What steps of one kind keep. *)

\* SC keeps the types of what it writes.
LEMMA ScType ==
    ASSUME NEW c \in Core, NEW v \in {Unlocked, Locked}, SC(c, v),
           spin_locked \in {Unlocked, Locked}, rsv \in [set : BOOLEAN, id : Core], turn \in Core
    PROVE  /\ spin_locked' \in {Unlocked, Locked} /\ UNCHANGED reg
           /\ rsv' \in [set : BOOLEAN, id : Core] /\ turn' \in Core
  <1>1. CASE ScValid(c)
    <2>1. rsv' = [rsv EXCEPT !.set = FALSE] /\ turn' = 1 - turn
      BY <1>1 DEF SC
    <2>2. rsv' \in [set : BOOLEAN, id : Core]
      BY <2>1
    <2>3. QED
      BY <1>1, <2>1, <2>2 DEF SC
  <1>2. CASE ~ScValid(c)
    BY <1>2 DEF SC
  <1>3. QED
    BY <1>1, <1>2

\* A core that runs and goes on running keeps what the launch protocol relies on.
LEMMA RunningKeepsProtocol ==
    ASSUME IInv, NEW c \in Core, pc[c] \in Running \ {"halt"}, NEW l \in Running,
           c = 1 => l # "check", Goto(c, l), UNCHANGED launch
    PROVE  LaunchTruthful' /\ SharedDataReady' /\ RequestInv' /\ ImageInv'
  <1> USE DEF IInv, TypeOK
  <1>1. LaunchTruthful'
    BY DEF LaunchTruthful
  <1>2. SharedDataReady'
    BY DEF SharedDataReady
  <1>3. RequestInv'
    BY DEF RequestInv
  <1>4. ImageInv'
    BY DEF ImageInv, SharedDataReady
  <1>5. QED
    BY <1>1, <1>2, <1>3, <1>4

\* LR leaves the word alone, and takes a reservation of what it has read.
LEMMA ReserveKeepsLock ==
    ASSUME IInv, pc[0] # "crt0", NEW c \in Core, LR(c), NEW l, Goto(c, l),
           \/ ~Holds(c) /\ l \in {"lock.test", "check", "halt"}
           \/ Holds(c) /\ l = "unlock.sc"
    PROVE  LockInv'
  <1> USE DEF IInv, TypeOK, LockInv, Holds, LR
  <1>1. \A d \in Core : Holds(d)' <=> Holds(d)
    OBVIOUS
  <1>2. (rsv.set => reg[rsv.id] = spin_locked)'
    BY DEF LrAllowed
  <1>3. QED
    BY <1>1, <1>2

\* A successful SC to free the lock's word is the holder's, one to take it finds
\* it free: the reservation is as old as the value read.
LEMMA ConditionalKeepsLock ==
    ASSUME IInv, pc[0] # "crt0", NEW c \in Core, NEW next \in {"check", "halt"},
           \/ pc[c] = "lock.sc" /\ SC(c, Locked) /\ Goto(c, IF ScValid(c) THEN "print" ELSE "lock")
           \/ pc[c] = "unlock.sc" /\ SC(c, Unlocked) /\ Goto(c, IF ScValid(c) THEN next ELSE "unlock")
    PROVE  LockInv'
  <1> USE DEF IInv, TypeOK, LockInv, Holds, SC
  <1>1. CASE pc[c] = "lock.sc" /\ ScValid(c)
    <2>1. spin_locked = Unlocked /\ \A d \in Core : ~Holds(d)
      BY <1>1 DEF ScValid
    <2>2. QED
      BY <1>1, <2>1
  <1>2. CASE pc[c] = "unlock.sc" /\ ScValid(c)
    <2>1. \A d \in Core : Holds(d) <=> d = c
      BY <1>2
    <2>2. QED
      BY <1>2, <2>1
  <1>3. CASE ~ScValid(c)
    BY <1>3
  <1>4. QED
    BY <1>1, <1>2, <1>3

-----------------------------------------------------------------------------
(* Core 0 launches core 1. *)

LEMMA BssClearKeepsInv == IInv /\ BssClear => IInv'
  <1> SUFFICES ASSUME IInv, BssClear
               PROVE  IInv'
    OBVIOUS
  <1> USE DEF IInv, TypeOK, BssClear
  <1>1. TypeOK'
    OBVIOUS
  <1>2. LaunchTruthful' /\ SharedDataReady'
    BY DEF LaunchTruthful, SharedDataReady, RequestInv, ImageInv
  <1>3. RequestInv'
    BY DEF RequestInv
  <1>4. ImageInv'
    BY DEF ImageInv, SharedDataReady
  <1>5. LockInv'
    BY DEF LockInv, Holds, ImageInv
  <1>6. QED
    BY <1>1, <1>2, <1>3, <1>4, <1>5

LEMMA LaunchKeepsInv == IInv /\ Launch => IInv'
  <1> SUFFICES ASSUME IInv, Launch
               PROVE  IInv'
    OBVIOUS
  <1> USE DEF IInv, TypeOK, Launch
  <1>1. TypeOK'
    OBVIOUS
  <1>2. LaunchTruthful' /\ SharedDataReady'
    BY DEF LaunchTruthful, SharedDataReady, RequestInv
  <1>3. RequestInv'
    BY DEF RequestInv
  <1>4. ImageInv'
    BY DEF ImageInv
  <1>5. LockInv'
    BY DEF LockInv, Holds
  <1>6. QED
    BY <1>1, <1>2, <1>3, <1>4, <1>5

LEMMA PutSpKeepsInv == IInv /\ PutSp => IInv'
  <1> SUFFICES ASSUME IInv, PutSp
               PROVE  IInv'
    OBVIOUS
  <1> USE DEF IInv, TypeOK, PutSp, Request
  <1>1. TypeOK'
    <2>1. STACKS[call] \in Nat
      BY StacksAssumption, ElementOfSeq
    <2>2. QED
      BY <2>1
  <1>2. LaunchTruthful' /\ SharedDataReady'
    BY DEF LaunchTruthful, SharedDataReady
  <1>3. RequestInv'
    BY DEF RequestInv
  <1>4. ImageInv'
    BY DEF ImageInv
  <1>5. LockInv'
    BY DEF LockInv, Holds
  <1>6. QED
    BY <1>1, <1>2, <1>3, <1>4, <1>5

LEMMA PutEntryKeepsInv == IInv /\ PutEntry => IInv'
  <1> SUFFICES ASSUME IInv, PutEntry
               PROVE  IInv'
    OBVIOUS
  <1> USE DEF IInv, TypeOK, PutEntry, Request
  <1>1. TypeOK'
    OBVIOUS
  <1>2. LaunchTruthful' /\ SharedDataReady'
    BY DEF LaunchTruthful, SharedDataReady
  <1>3. RequestInv'
    BY DEF RequestInv
  <1>4. ImageInv'
    BY DEF ImageInv
  <1>5. LockInv'
    BY DEF LockInv, Holds
  <1>6. QED
    BY <1>1, <1>2, <1>3, <1>4, <1>5

LEMMA SetMsiKeepsInv == IInv /\ SetMsi => IInv'
  <1> SUFFICES ASSUME IInv, SetMsi
               PROVE  IInv'
    OBVIOUS
  <1> USE DEF IInv, TypeOK, SetMsi
  <1>1. TypeOK'
    OBVIOUS
  <1>2. LaunchTruthful' /\ SharedDataReady'
    BY DEF LaunchTruthful, SharedDataReady
  <1>3. RequestInv'
    BY DEF RequestInv, ImageInv
  <1>4. ImageInv'
    BY DEF ImageInv
  <1>5. LockInv'
    BY DEF LockInv, Holds
  <1>6. QED
    BY <1>1, <1>2, <1>3, <1>4, <1>5

LEMMA AcknowledgedKeepsInv == IInv /\ Acknowledged => IInv'
  <1> SUFFICES ASSUME IInv, Acknowledged
               PROVE  IInv'
    OBVIOUS
  <1> USE DEF IInv, TypeOK, Acknowledged
  <1>1. TypeOK'
    OBVIOUS
  <1>2. LaunchTruthful' /\ SharedDataReady'
    BY DEF LaunchTruthful, SharedDataReady, RequestInv
  <1>3. RequestInv'
    BY DEF RequestInv, LaunchTruthful
  <1>4. ImageInv'
    BY DEF ImageInv, RequestInv
  <1>5. LockInv'
    BY DEF LockInv, Holds
  <1>6. QED
    BY <1>1, <1>2, <1>3, <1>4, <1>5

LEMMA TimedOutKeepsInv == IInv /\ TimedOut => IInv'
  <1> SUFFICES ASSUME IInv, TimedOut
               PROVE  IInv'
    OBVIOUS
  <1> USE DEF IInv, TypeOK, TimedOut
  <1>1. TypeOK'
    OBVIOUS
  <1>2. LaunchTruthful' /\ SharedDataReady'
    BY DEF LaunchTruthful, SharedDataReady
  <1>3. RequestInv'
    BY DEF RequestInv
  <1>4. ImageInv'
    BY DEF ImageInv
  <1>5. LockInv'
    BY DEF LockInv, Holds
  <1>6. QED
    BY <1>1, <1>2, <1>3, <1>4, <1>5

LEMMA ReportKeepsInv == IInv /\ Report => IInv'
  <1> SUFFICES ASSUME IInv, Report
               PROVE  IInv'
    OBVIOUS
  <1> USE DEF IInv, TypeOK, Report
  <1>1. TypeOK'
    <2>1. chars' \in [Core -> Nat] /\ screen' \in Seq(Core)
      BY AppendProperties
    <2>2. pc' = pc \/ pc' = [pc EXCEPT ![0] = IF call < Len(STACKS) THEN "launch" ELSE "halt"]
      OBVIOUS
    <2>3. QED
      BY <2>1, <2>2, StacksAssumption
  <1>2. LaunchTruthful' /\ SharedDataReady'
    BY DEF LaunchTruthful, SharedDataReady
  <1>3. RequestInv'
    BY DEF RequestInv
  <1>4. ImageInv'
    BY DEF ImageInv
  <1>5. LockInv'
    BY DEF LockInv, Holds
  <1>6. QED
    BY <1>1, <1>2, <1>3, <1>4, <1>5

LEMMA SpinCheckKeepsInv == IInv /\ SpinCheck => IInv'
  <1> SUFFICES ASSUME IInv, SpinCheck
               PROVE  IInv'
    OBVIOUS
  <1> USE DEF IInv, TypeOK, SpinCheck
  <1>1. TypeOK'
    BY DEF LR, LrAllowed
  <1>2. LaunchTruthful' /\ SharedDataReady' /\ RequestInv' /\ ImageInv'
    BY RunningKeepsProtocol DEF LR
  <1>3. LockInv'
    BY ReserveKeepsLock DEF Holds
  <1>4. QED
    BY <1>1, <1>2, <1>3

-----------------------------------------------------------------------------
(* Core 1 starts up. *)

LEMMA SmpSetupKeepsInv == IInv /\ SmpSetup => IInv'
  <1> SUFFICES ASSUME IInv, SmpSetup
               PROVE  IInv'
    OBVIOUS
  <1> USE DEF IInv, TypeOK, SmpSetup
  <1>1. TypeOK'
    OBVIOUS
  <1>2. LaunchTruthful' /\ SharedDataReady'
    BY DEF LaunchTruthful, SharedDataReady
  <1>3. RequestInv'
    BY DEF RequestInv, LaunchTruthful
  <1>4. ImageInv'
    BY DEF ImageInv
  <1>5. LockInv'
    BY DEF LockInv, Holds, ImageInv
  <1>6. QED
    BY <1>1, <1>2, <1>3, <1>4, <1>5

LEMMA WakeupKeepsInv == IInv /\ Wakeup => IInv'
  <1> SUFFICES ASSUME IInv, Wakeup
               PROVE  IInv'
    OBVIOUS
  <1> USE DEF IInv, TypeOK, Wakeup
  <1>1. TypeOK'
    OBVIOUS
  <1>2. LaunchTruthful' /\ SharedDataReady'
    BY DEF LaunchTruthful, SharedDataReady, RequestInv
  <1>3. RequestInv'
    BY DEF RequestInv, LaunchTruthful
  <1>4. ImageInv'
    BY DEF ImageInv
  <1>5. LockInv'
    BY DEF LockInv, Holds, ImageInv, RequestInv
  <1>6. QED
    BY <1>1, <1>2, <1>3, <1>4, <1>5

LEMMA GetSpKeepsInv == IInv /\ GetSp => IInv'
  <1> SUFFICES ASSUME IInv, GetSp
               PROVE  IInv'
    OBVIOUS
  <1> USE DEF IInv, TypeOK, GetSp
  <1>1. TypeOK'
    OBVIOUS
  <1>2. LaunchTruthful' /\ SharedDataReady'
    BY DEF LaunchTruthful, SharedDataReady, RequestInv
  <1>3. RequestInv'
    BY DEF RequestInv, LaunchTruthful
  <1>4. ImageInv'
    BY DEF ImageInv
  <1>5. LockInv'
    BY DEF LockInv, Holds, ImageInv, RequestInv
  <1>6. QED
    BY <1>1, <1>2, <1>3, <1>4, <1>5

LEMMA GetEntryKeepsInv == IInv /\ GetEntry => IInv'
  <1> SUFFICES ASSUME IInv, GetEntry
               PROVE  IInv'
    OBVIOUS
  <1> USE DEF IInv, TypeOK, GetEntry
  <1>1. TypeOK'
    OBVIOUS
  <1>2. LaunchTruthful' /\ SharedDataReady'
    BY DEF LaunchTruthful, SharedDataReady, RequestInv
  <1>3. RequestInv'
    BY DEF RequestInv, LaunchTruthful
  <1>4. ImageInv'
    BY DEF ImageInv, RequestInv
  <1>5. LockInv'
    BY DEF LockInv, Holds, ImageInv, RequestInv
  <1>6. QED
    BY <1>1, <1>2, <1>3, <1>4, <1>5

LEMMA ClearMsiKeepsInv == IInv /\ ClearMsi => IInv'
  <1> SUFFICES ASSUME IInv, ClearMsi
               PROVE  IInv'
    OBVIOUS
  <1> USE DEF IInv, TypeOK, ClearMsi
  <1>1. TypeOK'
    OBVIOUS
  <1>2. LaunchTruthful' /\ SharedDataReady'
    BY DEF LaunchTruthful, SharedDataReady, RequestInv
  <1>3. RequestInv'
    BY DEF RequestInv, LaunchTruthful
  <1>4. ImageInv'
    BY DEF ImageInv
  <1>5. LockInv'
    BY DEF LockInv, Holds, ImageInv, RequestInv
  <1>6. QED
    BY <1>1, <1>2, <1>3, <1>4, <1>5

LEMMA JumpKeepsInv == IInv /\ Jump => IInv'
  <1> SUFFICES ASSUME IInv, Jump
               PROVE  IInv'
    OBVIOUS
  <1> USE DEF IInv, TypeOK, Jump
  <1>1. TypeOK'
    OBVIOUS
  <1>2. LaunchTruthful' /\ SharedDataReady'
    BY DEF LaunchTruthful, SharedDataReady, RequestInv, ImageInv
  <1>3. RequestInv'
    BY DEF RequestInv, LaunchTruthful
  <1>4. ImageInv'
    BY DEF ImageInv, RequestInv
  <1>5. LockInv'
    BY DEF LockInv, Holds, ImageInv, RequestInv
  <1>6. QED
    BY <1>1, <1>2, <1>3, <1>4, <1>5

-----------------------------------------------------------------------------
(* The lock and the message. *)

LEMMA TalkKeepsInv ==
    ASSUME IInv, NEW c \in Core, NEW next \in {"check", "halt"}, c = 1 => next = "halt",
           Talk(c, next)
    PROVE  IInv'
  <1> USE DEF IInv, TypeOK
  <1>1. pc[c] \in Running \ {"halt"} /\ pc[0] # "crt0" /\ UNCHANGED launch
    BY DEF Talk, SpinLock, SpinUnlock, PutChar, SharedDataReady
  <1>2. PICK l \in Running : Goto(c, l) /\ (c = 1 => l # "check")
    BY DEF Talk, SpinLock, SpinUnlock, PutChar
  <1>3. LaunchTruthful' /\ SharedDataReady' /\ RequestInv' /\ ImageInv'
    BY <1>1, <1>2, RunningKeepsProtocol, ZenonT(60)
  <1>4. TypeOK' /\ LockInv'
    <2>1. CASE pc[c] = "lock" /\ LR(c) /\ Goto(c, "lock.test") /\ UNCHANGED <<chars, screen>>
      <3>1. TypeOK'
        BY <1>1, <2>1 DEF LR, LrAllowed
      <3>2. QED
        BY <1>1, <2>1, <3>1, ReserveKeepsLock DEF Holds
    <2>2. CASE /\ pc[c] = "lock.test" /\ UNCHANGED <<lock, chars, screen>>
               /\ Goto(c, IF reg[c] = Unlocked THEN "lock.sc" ELSE "lock")
      BY <1>1, <2>2 DEF LockInv, Holds
    <2>3. CASE /\ pc[c] = "lock.sc" /\ SC(c, Locked) /\ UNCHANGED <<chars, screen>>
               /\ Goto(c, IF ScValid(c) THEN "print" ELSE "lock")
      <3>1. /\ spin_locked' \in {Unlocked, Locked} /\ UNCHANGED <<reg, chars, screen>>
            /\ rsv' \in [set : BOOLEAN, id : Core] /\ turn' \in Core
        BY <2>3, ScType
      <3>2. TypeOK'
        BY <1>1, <1>2, <3>1
      <3>3. QED
        BY <1>1, <2>3, <3>2, ConditionalKeepsLock
    <2>4. CASE /\ pc[c] = "unlock.sc" /\ SC(c, Unlocked) /\ UNCHANGED <<chars, screen>>
               /\ Goto(c, IF ScValid(c) THEN next ELSE "unlock")
      <3>1. /\ spin_locked' \in {Unlocked, Locked} /\ UNCHANGED <<reg, chars, screen>>
            /\ rsv' \in [set : BOOLEAN, id : Core] /\ turn' \in Core
        BY <2>4, ScType
      <3>2. TypeOK'
        BY <1>1, <1>2, <3>1
      <3>3. QED
        BY <1>1, <2>4, <3>2, ConditionalKeepsLock
    <2>5. CASE pc[c] = "unlock" /\ LR(c) /\ Goto(c, "unlock.sc") /\ UNCHANGED <<chars, screen>>
      <3>1. TypeOK'
        BY <1>1, <2>5 DEF LR, LrAllowed
      <3>2. QED
        BY <1>1, <2>5, <3>1, ReserveKeepsLock DEF Holds
    <2>6. CASE PutChar(c) /\ UNCHANGED lock
      BY <1>1, <2>6 DEF PutChar, LockInv, Holds
    <2>7. QED
      BY <2>1, <2>2, <2>3, <2>4, <2>5, <2>6 DEF Talk, SpinLock, SpinUnlock
  <1>5. QED
    BY <1>3, <1>4

-----------------------------------------------------------------------------
(* The invariant. *)

LEMMA InitInv == Init => IInv
  <1> SUFFICES ASSUME Init
               PROVE  IInv
    OBVIOUS
  <1> USE DEF Init
  <1>1. TypeOK
    BY StacksAssumption DEF TypeOK
  <1>2. LaunchTruthful /\ SharedDataReady /\ RequestInv /\ ImageInv
    BY DEF LaunchTruthful, SharedDataReady, RequestInv, ImageInv
  <1>3. LockInv
    BY DEF LockInv, Holds
  <1>4. QED
    BY <1>1, <1>2, <1>3 DEF IInv

LEMMA StutterKeepsInv == IInv /\ UNCHANGED vars => IInv'
  BY DEF vars, IInv, TypeOK, LaunchTruthful, SharedDataReady, RequestInv, ImageInv, LockInv, Holds

LEMMA NextKeepsInv == IInv /\ [Next]_vars => IInv'
  <1> SUFFICES ASSUME IInv, [Next]_vars
               PROVE  IInv'
    OBVIOUS
  <1>1. CASE BssClear \/ Launch \/ PutSp \/ PutEntry \/ SetMsi \/ Acknowledged \/ TimedOut \/ Report
    BY <1>1, BssClearKeepsInv, LaunchKeepsInv, PutSpKeepsInv, PutEntryKeepsInv, SetMsiKeepsInv,
       AcknowledgedKeepsInv, TimedOutKeepsInv, ReportKeepsInv
  <1>2. CASE SmpSetup \/ Wakeup \/ GetSp \/ GetEntry \/ ClearMsi \/ Jump
    BY <1>2, SmpSetupKeepsInv, WakeupKeepsInv, GetSpKeepsInv, GetEntryKeepsInv, ClearMsiKeepsInv,
       JumpKeepsInv
  <1>3. CASE Talk(0, "check") \/ Talk(1, "halt") \/ SpinCheck
    BY <1>3, TalkKeepsInv, SpinCheckKeepsInv
  <1>4. CASE UNCHANGED vars
    BY <1>4, StutterKeepsInv
  <1>5. QED
    BY <1>1, <1>2, <1>3, <1>4 DEF Next, Core0, Core1

-----------------------------------------------------------------------------
(* The abstract console. *)

Holders == {c \in Core : Holds(c)}
Reporters == {c \in Core : pc[c] = "report"}

\* Outside the lock's own steps nobody's hold changes, and nothing is printed but the
\* report of a failed launch.
LEMMA ProtocolStutters ==
    ASSUME IInv,
           \/ BssClear \/ Launch \/ PutSp \/ PutEntry \/ SetMsi \/ Acknowledged
           \/ SpinCheck \/ SmpSetup \/ Wakeup \/ GetSp \/ GetEntry \/ ClearMsi \/ Jump
    PROVE  UNCHANGED <<Holders, Reporters, screen>>
  <1>1. \A c \in Core : Holds(c)' <=> Holds(c)
    BY DEF IInv, TypeOK, Holds, BssClear, Launch, PutSp, PutEntry, SetMsi, Acknowledged,
           SpinCheck, SmpSetup, Wakeup, GetSp, GetEntry, ClearMsi, Jump
  <1>2. \A c \in Core : (pc[c] = "report")' <=> pc[c] = "report"
    BY DEF IInv, TypeOK, BssClear, Launch, PutSp, PutEntry, SetMsi, Acknowledged,
           SpinCheck, SmpSetup, Wakeup, GetSp, GetEntry, ClearMsi, Jump
  <1>3. UNCHANGED screen
    BY DEF BssClear, Launch, PutSp, PutEntry, SetMsi, Acknowledged, SpinCheck,
           SmpSetup, Wakeup, GetSp, GetEntry, ClearMsi, Jump
  <1>4. QED
    BY <1>1, <1>2, <1>3 DEF Holders, Reporters

\* Core 0 stands apart for its report, and does not hold the console meanwhile.
LEMMA ReportSimulates ==
    ASSUME IInv, TimedOut \/ Report
    PROVE  Console!Next
  <1> USE DEF IInv, TypeOK
  <1>1. UNCHANGED Holders /\ 0 \notin Holders
    BY DEF Holders, Holds, TimedOut, Report
  <1>2. CASE TimedOut
    <2>1. Reporters' = Reporters \cup {0} /\ UNCHANGED screen
      BY <1>2 DEF Reporters, TimedOut
    <2>2. Console!StandApart(0)
      BY <1>1, <2>1 DEF Console!StandApart, Holders, Reporters
    <2>3. QED
      BY <2>2 DEF Console!Next
  <1>3. CASE Report
    <2>1. Reporters' \in {Reporters, Reporters \ {0}} /\ 0 \in Reporters
      BY <1>3 DEF Reporters, Report
    <2>2. Console!Interject(0)
      BY <1>1, <1>3, <2>1 DEF Console!Interject, Holders, Reporters, Report
    <2>3. QED
      BY <2>2 DEF Console!Next
  <1>4. QED
    BY <1>2, <1>3

\* A step under the lock takes it, prints, gives it back, or changes nothing.
LEMMA TalkSimulates ==
    ASSUME IInv, NEW c \in Core, NEW next \in {"check", "halt"}, Talk(c, next)
    PROVE  Console!Next \/ UNCHANGED <<Holders, Reporters, screen>>
  <1> USE DEF IInv, TypeOK
  <1>1. pc[0] # "crt0"
    BY DEF Talk, SpinLock, SpinUnlock, PutChar, SharedDataReady
  <1>2. UNCHANGED Reporters /\ c \notin Reporters
    BY DEF Reporters, Talk, SpinLock, SpinUnlock, PutChar
  <1>3. CASE pc[c] = "lock.sc" /\ SC(c, Locked) /\ Goto(c, "print") /\ ScValid(c) /\ UNCHANGED screen
    <2>1. \A d \in Core : ~Holds(d) /\ (Holds(d)' <=> d = c)
      BY <1>1, <1>3 DEF LockInv, Holds, ScValid
    <2>2. Console!Acquire(c)
      BY <1>3, <1>2, <2>1 DEF Console!Acquire, Reporters
    <2>3. QED
      BY <2>2 DEF Console!Next
  <1>4. CASE PutChar(c)
    <2>1. \A d \in Core : (Holds(d) <=> d = c) /\ (Holds(d)' <=> d = c)
      BY <1>4 DEF LockInv, Holds, PutChar
    <2>2. Console!PutChar(c)
      BY <1>4, <1>2, <2>1 DEF Console!PutChar, Reporters, PutChar
    <2>3. QED
      BY <2>2 DEF Console!Next
  <1>5. CASE pc[c] = "unlock.sc" /\ Goto(c, next) /\ ScValid(c) /\ UNCHANGED screen
    <2>1. \A d \in Core : (Holds(d) <=> d = c) /\ ~Holds(d)'
      BY <1>5 DEF LockInv, Holds
    <2>2. Console!Release(c)
      BY <1>5, <1>2, <2>1 DEF Console!Release, Reporters
    <2>3. QED
      BY <2>2 DEF Console!Next
  <1>6. CASE /\ UNCHANGED screen
             /\ \/ pc[c] = "lock" /\ Goto(c, "lock.test")
                \/ pc[c] = "lock.test" /\ Goto(c, IF reg[c] = Unlocked THEN "lock.sc" ELSE "lock")
                \/ pc[c] = "lock.sc" /\ Goto(c, "lock")
                \/ pc[c] = "unlock" /\ Goto(c, "unlock.sc")
                \/ pc[c] = "unlock.sc" /\ Goto(c, "unlock")
    <2>1. \A d \in Core : Holds(d)' <=> Holds(d)
      BY <1>6 DEF Holds
    <2>2. QED
      BY <1>6, <1>2, <2>1 DEF Holders
  <1>7. QED
    BY <1>3, <1>4, <1>5, <1>6 DEF Talk, SpinLock, SpinUnlock

LEMMA NextSimulates == IInv /\ [Next]_vars => [Console!Next]_<<Holders, Reporters, screen>>
  <1> SUFFICES ASSUME IInv, [Next]_vars
               PROVE  Console!Next \/ UNCHANGED <<Holders, Reporters, screen>>
    OBVIOUS
  <1>1. CASE Talk(0, "check") \/ Talk(1, "halt")
    BY <1>1, TalkSimulates
  <1>2. CASE UNCHANGED vars
    BY <1>2 DEF vars, Holders, Holds, Reporters
  <1>3. CASE TimedOut \/ Report
    BY <1>3, ReportSimulates
  <1>4. CASE ~(Talk(0, "check") \/ Talk(1, "halt") \/ TimedOut \/ Report \/ UNCHANGED vars)
    BY <1>4, ProtocolStutters DEF Next, Core0, Core1
  <1>5. QED
    BY <1>1, <1>2, <1>3, <1>4

-----------------------------------------------------------------------------
(* The theorems. *)

\* The inductive invariant holds throughout, for every sequence of launches.
THEOREM InvAlways == Spec => []IInv
  <1>1. QED
    BY InitInv, NextKeepsInv, PTL DEF Spec

\* neorv32_smp_launch returns 0 only when core 1 is on its way into the given
\* function on the given stack, however often launches timed out before and
\* however late core 1 answered those.
THEOREM LaunchAlwaysTruthful == Spec => []LaunchTruthful
  <1>1. IInv => LaunchTruthful
    BY DEF IInv
  <1>2. QED
    BY <1>1, InvAlways, PTL

\* Core 1 runs main_core1 in the application's image, behind core 0's clearing
\* of .bss.
THEOREM SharedDataAlwaysReady == Spec => []SharedDataReady
  <1>1. IInv => SharedDataReady
    BY DEF IInv
  <1>2. QED
    BY <1>1, InvAlways, PTL

\* The spinlock made of LR and SC implements the console that one core at a time holds
\* and nobody but its holder prints on, except for core 0's report of a failed launch,
\* for messages of every length.
THEOREM SpinlockExclusive == Spec => Exclusive
  <1>1. Init => Console!Init
    BY DEF Init, Console!Init, Holds
  <1>2. IInv /\ [Next]_vars => [Console!Next]_<<{c \in Core : Holds(c)}, {c \in Core : pc[c] = "report"}, screen>>
    BY NextSimulates DEF Holders, Reporters
  <1>3. QED
    BY <1>1, <1>2, InvAlways, PTL DEF Spec, Exclusive, Console!Spec
=============================================================================
