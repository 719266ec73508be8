--------------------------- MODULE SerialHal_proofs ---------------------------
(* Proofs about SerialHal for every set of calls, every sequence of them, and  *)
(* with clock stretching enabled or not: a call is in one place at a time, so   *)
(* it is one event on the wires and returns what that event sampled.           *)
EXTENDS SerialHal, SequenceTheorems, TLAPS

USE DEF Port, None, Command, Idle, cpu

Events == [call : CALLS, ack : {0, 1}, rx : BYTES]

-----------------------------------------------------------------------------
(* Calls and events. *)

\* None is no call.
LEMMA CallType ==
    ASSUME NEW c \in CALLS
    PROVE  /\ c # None /\ c.port \in Port
           /\ c.op \in {"start", "stop", "data", "cs_en", "cs_dis"}
           /\ c.op \in Command => c.port = "spi"
           /\ c.op \notin {"data"} \cup Command => c.port = "twi"
  BY CallsAssumption

\* The trace after one more event.
LEMMA EventAppended ==
    ASSUME bus \in Seq(Events), NEW c \in CALLS, NEW ack \in {0, 1}, NEW b \in BYTES,
           bus' = Append(bus, Event(c, ack, b))
    PROVE  /\ bus' \in Seq(Events) /\ bus' # <<>> /\ Len(bus') = Len(bus) + 1
           /\ bus'[Len(bus')] = Event(c, ack, b)
           /\ Abs!Front(bus') = bus
  <1>1. Event(c, ack, b) \in Events
    BY DEF Events, Event
  <1>2. /\ bus' \in Seq(Events) /\ bus' # <<>> /\ Len(bus') = Len(bus) + 1
        /\ bus'[Len(bus')] = Event(c, ack, b)
    BY <1>1, AppendProperties
  <1>3. SubSeq(bus', 1, Len(bus') - 1) = bus
    BY <1>1, <1>2, HeadTailAppend
  <1>4. QED
    BY <1>2, <1>3 DEF Abs!Front

-----------------------------------------------------------------------------
(* The clocks of the controllers. *)

\* An entry that waits is the last call, and its event is still to come.
LEMMA QueuedIsCall ==
    ASSUME IInv, NEW p \in Port, tx[p] # None, Idle(p)
    PROVE  /\ call \in CALLS /\ tx[p] = call /\ p = call.port
           /\ NoWord(p) /\ ~(p = "twi" /\ tx_re)
           /\ IF call.op \in Command THEN pc = "ready" /\ p = "spi" ELSE pc = "busy"
  <1> USE DEF IInv, TypeOK
  <1>1. pc \in {"busy", "ready"} /\ tx[p] = call /\ call \in CALLS /\ NoWord(p)
    BY DEF PlaceInv, Empty, Quiet, WordThere
  <1>2. CASE pc = "ready"
    BY <1>1, <1>2, CallType DEF PlaceInv
  <1>3. CASE pc = "busy"
    BY <1>1, <1>3, CallType DEF PlaceInv, Empty, Quiet, WordThere
  <1>4. QED
    BY <1>1, <1>2, <1>3

\* An engine that works, works for the last call.
LEMMA EngineIsCall ==
    ASSUME IInv, NEW p \in Port, ~Idle(p)
    PROVE  /\ call \in CALLS /\ engine[p] = call /\ p = call.port /\ pc = "busy"
           /\ call.op \notin Command /\ NoWord(p)
           /\ tx[p] = IF p = "twi" /\ tx_re THEN call ELSE None
  BY DEF IInv, TypeOK, PlaceInv, Empty, Quiet, WordThere

LEMMA TakeKeepsInv ==
    ASSUME IInv, NEW p \in Port, Take(p)
    PROVE  IInv'
  <1> USE DEF IInv, Take, FifoClock, Pops
  <1>1. /\ call \in CALLS /\ tx[p] = call /\ p = call.port /\ NoWord(p)
        /\ ~(p = "twi" /\ tx_re)
        /\ IF call.op \in Command THEN pc = "ready" /\ p = "spi" ELSE pc = "busy"
    BY QueuedIsCall
  <1>2. bus' \in Seq(Events)
    BY <1>1, EventAppended DEF TypeOK, Events
  <1>3. TypeOK'
    BY <1>1, <1>2 DEF TypeOK, Events
  <1>4. CASE call.op \in Command
    <2>1. tx' = [tx EXCEPT !["spi"] = None] /\ UNCHANGED <<pc, call, engine, rx>>
      BY <1>1, <1>4 DEF NoWord
    <2>2. rx_we' = [rx_we EXCEPT !["spi"] = None] /\ ~tx_re'
      BY <1>1, <1>4 DEF PlaceInv
    <2>3. PlaceInv'
      BY <1>1, <1>4, <2>1, <2>2 DEF TypeOK, PlaceInv, NoWord
    <2>4. QED
      BY <1>3, <2>3
  <1>5. CASE call.op \notin Command
    <2>1. \A q \in Port : q # p => Empty(q)'
      BY <1>1, <1>5 DEF TypeOK, PlaceInv, Empty, Quiet, NoWord
    <2>2. /\ engine'[p] = call /\ NoWord(p)' /\ UNCHANGED <<pc, call>>
          /\ tx'[p] = IF p = "twi" /\ tx_re' THEN call ELSE None
      BY <1>1, <1>5 DEF TypeOK, NoWord
    <2>3. PlaceInv'
      BY <1>1, <1>5, <2>1, <2>2 DEF PlaceInv
    <2>4. QED
      BY <1>3, <2>3
  <1>6. QED
    BY <1>4, <1>5

LEMMA FinishKeepsInv ==
    ASSUME IInv, NEW p \in Port, Finish(p)
    PROVE  IInv'
  <1> USE DEF IInv, Finish, FifoClock, Pops
  <1>1. /\ pc = "busy" /\ p = call.port /\ call \in CALLS /\ call.op \notin Command
        /\ tx[p] = None /\ NoWord(p) /\ engine[p] = call /\ ~(p = "twi" /\ tx_re)
    BY EngineIsCall
  <1>2. PICK ack \in {0, 1}, b \in BYTES :
            /\ bus' = Append(bus, Event(call, ack, b))
            /\ rx_we' = [rx_we EXCEPT ![p] = IF call.op = "data"
                                             THEN [port |-> p, ack |-> ack, data |-> b] ELSE None]
    BY <1>1 DEF Pushes
  <1>3. /\ bus' \in Seq(Events) /\ bus' # <<>>
        /\ bus'[Len(bus')] = Event(call, ack, b)
    BY <1>1, <1>2, EventAppended DEF TypeOK, Events
  <1>4. rx' = rx /\ UNCHANGED <<pc, call>>
    BY <1>1 DEF NoWord
  <1>5. TypeOK'
    BY <1>1, <1>2, <1>3, <1>4 DEF TypeOK, Events
  <1>6. PlaceInv'
    <2>1. \A q \in Port : q # p => Empty(q)'
      BY <1>1, <1>2, <1>4 DEF TypeOK, PlaceInv, Empty, Quiet, NoWord
    <2>2. Quiet(p)'
      BY <1>1 DEF TypeOK, Quiet
    <2>3. CASE call.op = "data"
      <3>1. rx'[p] = None /\ Sampled(p, rx_we[p])'
        BY <1>1, <1>2, <1>3, <1>4, <2>3 DEF TypeOK, Sampled, Event, NoWord
      <3>2. WordThere(p)'
        BY <2>2, <3>1 DEF WordThere
      <3>3. QED
        BY <1>1, <1>4, <2>1, <2>3, <3>2 DEF PlaceInv
    <2>4. CASE call.op # "data"
      <3>1. NoWord(p)'
        BY <1>1, <1>2, <1>4, <2>4 DEF TypeOK, NoWord
      <3>2. QED
        BY <1>1, <1>4, <2>1, <2>2, <2>4, <3>1 DEF PlaceInv, Empty
    <2>5. QED
      BY <2>3, <2>4
  <1>7. QED
    BY <1>5, <1>6

\* A clock without a transition moves the word on, and ends the strobes.
LEMMA WaitKeepsInv ==
    ASSUME IInv, NEW p \in Port, Wait(p)
    PROVE  IInv'
  <1> USE DEF IInv, Wait, FifoClock
  <1>1. TypeOK'
    BY DEF TypeOK, Pops
  <1>2. \A q \in Port : Empty(q) => Empty(q)'
    BY DEF TypeOK, Empty, Quiet, NoWord, Pops
  <1>3. \A q \in Port : WordThere(q) => WordThere(q)'
    BY DEF TypeOK, WordThere, Quiet, Sampled, Pops, None
  <1>4. \A q \in Port : /\ q \notin due' /\ WordThere(q)
                        /\ q \notin due => Sampled(q, rx[q])
                        => Sampled(q, rx[q])'
    BY DEF TypeOK, WordThere, Quiet, Sampled, None
  <1>5. PlaceInv'
    <2>1. CASE pc = "ready"
      BY <2>1 DEF TypeOK, PlaceInv, NoWord, Pops
    <2>2. CASE pc = "busy"
      BY <1>2, <1>3, <2>2, CallType DEF TypeOK, PlaceInv, NoWord, Pops
    <2>3. CASE pc \in {"room", "put"}
      BY <1>2, <2>3, CallType DEF TypeOK, PlaceInv
    <2>4. CASE pc = "get"
      BY <1>2, <1>3, <1>4, <2>4, CallType DEF TypeOK, PlaceInv
    <2>5. QED
      BY <2>1, <2>2, <2>3, <2>4 DEF TypeOK
  <1>6. QED
    BY <1>1, <1>5

\* What a device does with SCL changes nothing of a call.
LEMMA SclKeepsInv ==
    ASSUME IInv, UNCHANGED <<cpu, tx, rx, engine, strobes, due, bus>>
    PROVE  IInv'
  <1> USE DEF strobes
  <1>1. TypeOK'
    BY DEF IInv, TypeOK
  <1>2. PlaceInv'
    BY DEF IInv, PlaceInv, Empty, Quiet, NoWord, WordThere, Sampled
  <1>3. QED
    BY <1>1, <1>2 DEF IInv

-----------------------------------------------------------------------------
(* The functions. *)

\* Where a call is when it has returned, and when its answer is next.
LEMMA PlaceWhenReady ==
    ASSUME pc' = "ready", \A p \in Port : Empty(p)'
    PROVE  PlaceInv'
  <1>1. \A p \in Port : Idle(p)' /\ NoWord(p)' /\ tx'[p] = None /\ ~(p = "twi" /\ tx_re')
    BY DEF Empty, Quiet
  <1>2. QED
    BY <1>1 DEF PlaceInv

LEMMA PlaceWhenGet ==
    ASSUME NEW q \in Port, pc' = "get", call'.port = q, call'.op = "data", q \in due',
           WordThere(q)', \A p \in Port : p # q => Empty(p)'
    PROVE  PlaceInv'
  BY DEF PlaceInv

\* A call begins with nothing of an earlier one on either port.
LEMMA CallKeepsInv ==
    ASSUME IInv, NEW c \in CALLS, Call(c)
    PROVE  IInv'
  <1> USE DEF IInv, Call
  <1>1. \A p \in Port : Empty(p)
    BY DEF PlaceInv, Acknowledged, Empty, Quiet, NoWord
  <1>2. TypeOK'
    BY CallType DEF TypeOK, First, strobes
  <1>3. \A p \in Port : Empty(p)'
    BY <1>1 DEF Empty, Quiet, NoWord, strobes
  <1>4. PlaceInv'
    BY <1>3, CallType DEF PlaceInv, First
  <1>5. QED
    BY <1>2, <1>4

LEMMA RoomKeepsInv == IInv /\ Room => IInv'
  BY DEF IInv, TypeOK, PlaceInv, Empty, Quiet, NoWord, Room, Access, strobes

LEMMA PutKeepsInv == IInv /\ Put => IInv'
  <1> SUFFICES ASSUME IInv, Put
               PROVE  IInv'
    OBVIOUS
  <1> USE DEF IInv, Put, strobes
  <1>1. call \in CALLS /\ \A p \in Port : Empty(p)
    BY DEF TypeOK, PlaceInv
  <1>2. call.port \in Port /\ tx' = [tx EXCEPT ![call.port] = call]
    BY <1>1, CallType DEF Empty, Quiet
  <1>3. TypeOK'
    BY <1>1, <1>2 DEF TypeOK, AfterPut, Access
  <1>4. PlaceInv'
    BY <1>1, <1>2, CallType DEF TypeOK, PlaceInv, Empty, Quiet, NoWord, AfterPut, Access
  <1>5. QED
    BY <1>3, <1>4

LEMMA NotBusyKeepsInv == IInv /\ NotBusy => IInv'
  <1> SUFFICES ASSUME IInv, NotBusy
               PROVE  IInv'
    OBVIOUS
  <1> USE DEF IInv, NotBusy, Busy, strobes
  <1>1. call \in CALLS /\ call.port \in Port
    BY CallType DEF TypeOK
  <1>2. TypeOK'
    BY DEF TypeOK, Access
  <1>3. \A p \in Port : (Empty(p) => Empty(p)') /\ (WordThere(p) => WordThere(p)')
    BY DEF Empty, Quiet, NoWord, WordThere, Sampled
  <1>4. IF call.op = "data" THEN WordThere(call.port) ELSE Empty(call.port)
    BY <1>1, CallType DEF TypeOK, PlaceInv
  <1>5. call' = call /\ call.port \in due'
    BY <1>1 DEF Access
  <1>6. CASE call.op = "data"
    <2>1. pc' = "get" /\ \A p \in Port : p # call.port => Empty(p)'
      BY <1>3, <1>6 DEF PlaceInv
    <2>2. WordThere(call.port)'
      BY <1>1, <1>3, <1>4, <1>6
    <2>3. PlaceInv'
      BY <1>1, <1>5, <1>6, <2>1, <2>2, PlaceWhenGet
    <2>4. QED
      BY <1>2, <2>3
  <1>7. CASE call.op # "data"
    <2>1. \A p \in Port : Empty(p)
      BY <1>1, <1>4, <1>7 DEF PlaceInv
    <2>2. pc' = "ready" /\ \A p \in Port : Empty(p)'
      BY <1>3, <1>7, <2>1
    <2>3. PlaceInv'
      BY <2>2, PlaceWhenReady
    <2>4. QED
      BY <1>2, <2>3
  <1>8. QED
    BY <1>2, <1>6, <1>7

\* The answer is read with an access of its own, so its word has been pushed.
LEMMA GetKeepsInv == IInv /\ Get => IInv'
  <1> SUFFICES ASSUME IInv, Get
               PROVE  IInv'
    OBVIOUS
  <1> USE DEF IInv, Get, strobes
  <1>1. call \in CALLS /\ call.port \in Port
    BY CallType DEF TypeOK
  <1>2. TypeOK'
    BY DEF TypeOK, Access
  <1>3. Quiet(call.port) /\ rx_we[call.port] = None
    BY <1>1 DEF PlaceInv, WordThere, Sampled, None, Acknowledged
  <1>4. \A p \in Port : Empty(p)'
    BY <1>1, <1>3 DEF TypeOK, PlaceInv, Empty, Quiet, NoWord
  <1>5. PlaceInv'
    BY <1>4, PlaceWhenReady
  <1>6. QED
    BY <1>2, <1>5

-----------------------------------------------------------------------------
(* The invariant. *)

LEMMA InitInv == Init => IInv
  BY EmptySeq DEF Init, IInv, TypeOK, PlaceInv, NoWord

LEMMA NextKeepsInv == IInv /\ [Next]_vars => IInv'
  <1> SUFFICES ASSUME IInv, [Next]_vars
               PROVE  IInv'
    OBVIOUS
  <1>1. CASE Cpu
    BY <1>1, RoomKeepsInv, PutKeepsInv, NotBusyKeepsInv, GetKeepsInv DEF Cpu
  <1>2. CASE HoldScl \/ ReleaseScl
    BY <1>2, SclKeepsInv DEF HoldScl, ReleaseScl, Scl
  <1>3. CASE \E c \in CALLS : Call(c)
    BY <1>3, CallKeepsInv
  <1>4. CASE \E p \in Port : Clock(p)
    BY <1>4, TakeKeepsInv, FinishKeepsInv, WaitKeepsInv DEF Clock
  <1>5. CASE UNCHANGED vars
    BY <1>5, SclKeepsInv DEF vars
  <1>6. QED
    BY <1>1, <1>2, <1>3, <1>4, <1>5 DEF Next

-----------------------------------------------------------------------------
(* The abstract bus. *)

\* The call's event is due until it happens, then its answer, then nothing.
LEMMA TodoIs ==
    ASSUME IInv
    PROVE  /\ EventDue => Todo = call /\ call \in CALLS
           /\ AnswerDue => Todo = [port |-> "sampled"]
           /\ ~EventDue /\ ~AnswerDue => Todo = None
  <1>1. EventDue => call \in CALLS /\ ~AnswerDue
    BY DEF IInv, TypeOK, EventDue, AnswerDue
  <1>2. QED
    BY <1>1 DEF Todo

LEMMA TakeSimulates ==
    ASSUME IInv, IInv', NEW p \in Port, Take(p)
    PROVE  Abs!Happen \/ UNCHANGED <<Todo, bus, ret>>
  <1> USE DEF Take, FifoClock, Pops
  <1>1. /\ tx[p] = call /\ call \in CALLS /\ p = call.port
        /\ IF call.op \in Command THEN pc = "ready" /\ p = "spi" ELSE pc = "busy"
    BY QueuedIsCall
  <1>2. EventDue /\ Todo = call
    BY <1>1, CallType, TodoIs DEF EventDue
  <1>3. CASE call.op \in Command
    <2>1. ~EventDue' /\ ~AnswerDue'
      BY <1>1, <1>3, CallType DEF IInv, TypeOK, EventDue, AnswerDue
    <2>2. Todo' = None
      BY <2>1, TodoIs DEF Todo
    <2>3. PICK ack \in {0, 1}, b \in BYTES : bus' = Append(bus, Event(call, ack, b))
      BY <1>1, <1>3
    <2>4. bus' # <<>> /\ Abs!Front(bus') = bus /\ Abs!Last(bus') = Event(call, ack, b)
      BY <1>1, <2>3, EventAppended DEF IInv, TypeOK, Events, Abs!Last
    <2>5. Abs!Fulfils(Abs!Last(bus'), call)
      BY <2>4 DEF Abs!Fulfils, Event
    <2>6. QED
      BY <1>1, <1>2, <1>3, <2>2, <2>4, <2>5 DEF Abs!Happen, Abs!None
  <1>4. CASE call.op \notin Command
    <2>1. engine'[p] = call /\ UNCHANGED <<pc, call, bus, ret>>
      BY <1>1, <1>4 DEF IInv, TypeOK
    <2>2. EventDue'
      BY <1>1, <2>1, CallType DEF EventDue
    <2>3. QED
      BY <1>2, <2>1, <2>2 DEF Todo, AnswerDue
  <1>5. QED
    BY <1>3, <1>4

LEMMA FinishSimulates ==
    ASSUME IInv, IInv', NEW p \in Port, Finish(p)
    PROVE  Abs!Happen
  <1> USE DEF Finish, FifoClock, Pops
  <1>1. /\ pc = "busy" /\ p = call.port /\ call \in CALLS /\ call.op \notin Command
        /\ tx[p] = None /\ engine[p] = call /\ ~(p = "twi" /\ tx_re)
    BY EngineIsCall
  <1>2. EventDue /\ Todo = call
    BY <1>1, CallType, TodoIs DEF EventDue
  <1>3. ~EventDue' /\ (AnswerDue' <=> call.op = "data")
    BY <1>1 DEF IInv, TypeOK, EventDue, AnswerDue
  <1>4. Todo' = IF call.op = "data" THEN [port |-> "sampled"] ELSE None
    BY <1>3 DEF Todo
  <1>5. PICK ack \in {0, 1}, b \in BYTES : bus' = Append(bus, Event(call, ack, b))
    BY <1>1
  <1>6. bus' # <<>> /\ Abs!Front(bus') = bus /\ Abs!Last(bus') = Event(call, ack, b)
    BY <1>1, <1>5, EventAppended DEF IInv, TypeOK, Events, Abs!Last
  <1>7. Abs!Fulfils(Abs!Last(bus'), call)
    BY <1>6 DEF Abs!Fulfils, Event
  <1>8. QED
    BY <1>1, <1>2, <1>4, <1>6, <1>7 DEF Abs!Happen, Abs!None, Abs!Sampled

\* A clock without a transition pops no entry but the one the TWI engine works on.
LEMMA WaitStutters ==
    ASSUME IInv, NEW p \in Port, Wait(p)
    PROVE  UNCHANGED <<Todo, bus, ret>>
  <1> USE DEF Wait, FifoClock, Pops
  <1>1. UNCHANGED <<pc, call, engine, bus, ret>>
    OBVIOUS
  <1>2. CASE tx' = tx
    BY <1>1, <1>2 DEF Todo, EventDue, AnswerDue
  <1>3. CASE tx' # tx
    <2>1. tx[p] # None /\ ~Idle(p)
      BY <1>3, QueuedIsCall DEF IInv, TypeOK
    <2>2. p = call.port /\ call # None
      BY <2>1, EngineIsCall, CallType
    <2>3. EventDue /\ EventDue'
      BY <1>1, <2>1, <2>2 DEF EventDue
    <2>4. QED
      BY <1>1, <2>3 DEF Todo
  <1>4. QED
    BY <1>2, <1>3

LEMMA CallSimulates ==
    ASSUME IInv, NEW c \in CALLS, Call(c)
    PROVE  Abs!Invoke(c)
  <1>1. ~EventDue /\ ~AnswerDue
    BY CallType DEF IInv, Call, Acknowledged, TypeOK, PlaceInv, EventDue, AnswerDue
  <1>2. EventDue'
    BY CallType DEF Call, First, EventDue
  <1>3. Todo = None /\ Todo' = c
    BY <1>1, <1>2 DEF Todo, AnswerDue, Call
  <1>4. QED
    BY <1>3 DEF Abs!Invoke, Abs!None, Call

LEMMA GetSimulates ==
    ASSUME IInv, Get
    PROVE  Abs!Return
  <1> USE DEF Get
  <1>1. call \in CALLS /\ call.port \in Port /\ call.op = "data"
    BY CallType DEF IInv, TypeOK, PlaceInv
  <1>2. tx[call.port] = None /\ Idle(call.port) /\ Sampled(call.port, rx[call.port])
    BY <1>1 DEF IInv, PlaceInv, WordThere, Quiet, Acknowledged
  <1>3. ~EventDue /\ AnswerDue
    BY <1>1, <1>2 DEF EventDue, AnswerDue
  <1>4. ~EventDue' /\ ~AnswerDue'
    BY <1>1, <1>2 DEF EventDue, AnswerDue
  <1>5. Todo = [port |-> "sampled"] /\ Todo' = None
    BY <1>3, <1>4 DEF Todo
  <1>6. ret' = <<IF call.port = "twi" THEN bus[Len(bus)].ack ELSE 0, bus[Len(bus)].rx>>
    BY <1>2 DEF Sampled
  <1>7. ret' = Abs!Answer(Abs!Last(bus))
    BY <1>2, <1>6 DEF Sampled, Abs!Answer, Abs!Last
  <1>8. QED
    BY <1>5, <1>7 DEF Abs!Return, Abs!None, Abs!Sampled

\* The other steps of the CPU, and a device that holds SCL, are nobody's business.
LEMMA OthersStutter ==
    ASSUME IInv, Room \/ Put \/ NotBusy \/ HoldScl \/ ReleaseScl \/ UNCHANGED vars
    PROVE  UNCHANGED <<Todo, bus, ret>>
  <1>1. UNCHANGED <<call, bus, ret>>
    BY DEF Room, Put, NotBusy, HoldScl, ReleaseScl, Scl, vars
  <1>2. (EventDue' <=> EventDue) /\ (AnswerDue' <=> AnswerDue)
    <2>1. CASE Room \/ HoldScl \/ ReleaseScl \/ UNCHANGED vars
      BY <2>1 DEF Room, HoldScl, ReleaseScl, Scl, vars, EventDue, AnswerDue
    <2>2. CASE Put
      BY <2>2, CallType DEF Put, IInv, TypeOK, PlaceInv, Empty, Quiet, EventDue, AnswerDue
    <2>3. CASE NotBusy
      BY <2>3, CallType DEF NotBusy, Busy, IInv, TypeOK, EventDue, AnswerDue
    <2>4. QED
      BY <2>1, <2>2, <2>3
  <1>3. QED
    BY <1>1, <1>2 DEF Todo

LEMMA NextSimulates == IInv /\ IInv' /\ [Next]_vars => [Abs!Next]_<<Todo, bus, ret>>
  <1> SUFFICES ASSUME IInv, IInv', [Next]_vars
               PROVE  Abs!Next \/ UNCHANGED <<Todo, bus, ret>>
    OBVIOUS
  <1>1. CASE Room \/ Put \/ NotBusy \/ HoldScl \/ ReleaseScl \/ UNCHANGED vars
    BY <1>1, OthersStutter
  <1>2. CASE Get
    BY <1>2, GetSimulates DEF Abs!Next
  <1>3. CASE \E c \in CALLS : Call(c)
    BY <1>3, CallSimulates DEF Abs!Next
  <1>4. CASE \E p \in Port : Clock(p)
    BY <1>4, TakeSimulates, FinishSimulates, WaitStutters DEF Abs!Next, Clock
  <1>5. QED
    BY <1>1, <1>2, <1>3, <1>4 DEF Next, Cpu

-----------------------------------------------------------------------------
(* The theorems. *)

\* A call is in one place at a time, whatever is called and in whatever order.
THEOREM InvAlways == Spec => []IInv
  <1>1. QED
    BY InitInv, NextKeepsInv, PTL DEF Spec

\* When a call returns, no received word and nothing of a TWI call is left for the
\* next one to trip over.
THEOREM NothingEverLeftOver == Spec => []NothingLeftOver
  <1>1. IInv => NothingLeftOver
    BY DEF IInv, PlaceInv, NoWord, NothingLeftOver, Busy
  <1>2. QED
    BY <1>1, InvAlways, PTL

\* The polling functions over their FIFOs and engines implement the bus on which a
\* call is one event and returns what it sampled.
THEOREM HalAtomic == Spec => Atomic
  <1>1. Init => Abs!Init
    BY DEF Init, Abs!Init, Abs!None, Todo, EventDue, AnswerDue
  <1>2. IInv /\ IInv' /\ [Next]_vars => [Abs!Next]_<<Todo, bus, ret>>
    BY NextSimulates
  <1>3. QED
    BY <1>1, <1>2, InvAlways, PTL DEF Spec, Atomic, Abs!Spec
=============================================================================
