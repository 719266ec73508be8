---------------------------- MODULE NeoRepl_proofs ----------------------------
(* Proofs about NeoParser for every line and every value of the limits, and     *)
(* about NeoRepl for every line that may be typed.  The steps of the parser end *)
(* in a handful of ways (a failure, a character consumed, a byte stored, a      *)
(* command counted); one lemma for each says that it keeps IInv, and the step   *)
(* lemma sends every action to one of them.  The prompt loop follows: whatever  *)
(* is typed and however often, the executor runs only what neo_parser.c has     *)
(* established to be well-formed, so the loop is one more environment of        *)
(* NeoExec, and the theorems about NeoExec hold in it.  What is spelled decodes  *)
(* to what was meant, what is decoded is what is sent, and so what was meant is  *)
(* done.                                                                         *)
EXTENDS NeoRepl, SequenceInduction

USE DEF NUL, Blank, Underscore, ch_A, ch_a, ch_b, ch_h, FMT_NONE, Selector,
        RD_COUNT_MAX, BYTE_BITS, COUNT_DIGITS, Done, Labels, Decoding

-----------------------------------------------------------------------------
(* Characters and the cursor. *)

\* What is not the NUL lies within the line, and is a byte.
LEMMA AtInLine ==
    ASSUME line \in Seq(1..255), NEW i \in Int, At(i) # NUL
    PROVE  i \in 1..Len(line) /\ At(i) \in 1..255
  <1>1. i \in 1..Len(line)
    BY DEF At
  <1>2. line[i] \in 1..255
    BY <1>1, ElementOfSeq
  <1>3. QED
    BY <1>1, <1>2 DEF At

\* A hex digit is a character of the line, and worth less than 16.
LEMMA HexInLine ==
    ASSUME line \in Seq(1..255), NEW i \in Int, is_hex(At(i))
    PROVE  i \in 1..Len(line) /\ hex_val(At(i)) \in 0..15
  <1>1. At(i) # NUL
    BY SMTT(30) DEF is_hex
  <1>2. At(i) \in 1..255 /\ i \in 1..Len(line)
    BY <1>1, AtInLine
  <1>3. QED
    BY <1>2 DEF is_hex, hex_val

LEMMA ByteOfNibbles ==
    ASSUME NEW x \in 0..15, NEW y \in 0..15
    PROVE  16 * x + y \in Byte
  BY DEF Byte

\* Two of them make a byte.
LEMMA TwoHexInLine ==
    ASSUME line \in Seq(1..255), NEW i \in Int, TwoHexAt(i)
    PROVE  i \in 1..Len(line) /\ i + 1 \in 1..Len(line) /\ HexByteAt(i) \in Byte
  <1>1. i \in 1..Len(line) /\ hex_val(At(i)) \in 0..15
    BY HexInLine DEF TwoHexAt
  <1>2. i + 1 \in 1..Len(line) /\ hex_val(At(i + 1)) \in 0..15
    BY HexInLine DEF TwoHexAt
  <1>3. QED
    BY <1>1, <1>2, ByteOfNibbles DEF HexByteAt

\* A command start is three characters long and names one of four control bytes.
LEMMA CmdStartInLine ==
    ASSUME line \in Seq(1..255), NEW i \in Int, at_cmd_start(i)
    PROVE  i \in 1..Len(line) /\ i + 2 \in 1..Len(line) /\ HexByteAt(i + 1) \in 160..163
  <1>1. i \in 1..Len(line)
    BY AtInLine DEF at_cmd_start
  <1>2. i + 2 \in 1..Len(line)
    <2>1. At(i + 2) # NUL
      BY DEF at_cmd_start
    <2>2. QED
      BY <2>1, AtInLine
  <1>3. At(i + 1) = 65 /\ At((i + 1) + 1) \in 48..51
    BY DEF at_cmd_start
  <1>4. hex_val(At(i + 1)) = 10 /\ hex_val(At((i + 1) + 1)) \in 0..3
    BY <1>3 DEF hex_val
  <1>5. QED
    BY <1>1, <1>2, <1>4 DEF HexByteAt

-----------------------------------------------------------------------------
(* Command slots. *)

LEMMA LimitsType == MAX_CMDS \in Nat /\ MAX_CMDS >= 1 /\ PAYLOAD_MAX \in Nat /\ POOL_SIZE \in Nat
  BY LimitsAssumption

LEMMA NoCmdType == NoCmd \in Slot
  BY LimitsAssumption DEF NoCmd, Slot, Byte

LEMMA SlotUpdates ==
    ASSUME NEW c \in Slot
    PROVE  /\ \A b \in Byte : [c EXCEPT !.internal_addr = b] \in Slot
           /\ c.payload_len < PAYLOAD_MAX => [c EXCEPT !.payload_len = @ + 1] \in Slot
           /\ \A n \in 0..RD_COUNT_MAX : [c EXCEPT !.rd_len = n] \in Slot
           /\ \A f \in Selector \cup {FMT_NONE} : [c EXCEPT !.rd_fmt = f] \in Slot
  <1>1. \A b \in Byte : [c EXCEPT !.internal_addr = b] \in Slot
    BY DEF Slot
  <1>2. c.payload_len < PAYLOAD_MAX => [c EXCEPT !.payload_len = @ + 1] \in Slot
    <2>1. ASSUME c.payload_len < PAYLOAD_MAX
          PROVE  c.payload_len + 1 \in 0..PAYLOAD_MAX
      BY <2>1, LimitsType DEF Slot
    <2>2. QED
      BY <2>1 DEF Slot
  <1>3. \A n \in 0..RD_COUNT_MAX : [c EXCEPT !.rd_len = n] \in Slot
    BY DEF Slot
  <1>4. \A f \in Selector \cup {FMT_NONE} : [c EXCEPT !.rd_fmt = f] \in Slot
    BY DEF Slot
  <1>5. QED
    BY <1>1, <1>2, <1>3, <1>4

-----------------------------------------------------------------------------
(* How a step ends. *)

LEMMA FloorType ==
    ASSUME TypeOK
    PROVE  Floor \in Nat
  <1>1. digits \in Nat /\ pc \in Labels
    BY DEF TypeOK
  <1>2. CASE pc \in {"addr", "payload", "tail", "run", "count", "format", "close"}
    BY <1>2 DEF Floor
  <1>3. CASE pc \in {"addrByte", "bits"}
    BY <1>1, <1>3 DEF Floor
  <1>4. CASE pc \in {"idle", "accepted", "rejected", "entry", "chain", "special"}
    BY <1>4 DEF Floor
  <1>5. QED
    BY <1>1, <1>2, <1>3, <1>4

\* A failure with the cursor at p, at or after where it was.
LEMMA FailKeepsInv ==
    ASSUME IInv, pc \notin Done, NEW p \in pos..(Len(line) + 1), NEW e, FailAt(p, e)
    PROVE  IInv'
  <1> USE DEF FailAt, input, scratch
  <1>1. TypeOK'
    BY DEF IInv, TypeOK
  <1>2. SlicesTile'
    BY DEF IInv, TypeOK, SlicesTile, EndOf, SliceEnd
  <1>3. PhaseInv'
    BY DEF IInv, PhaseInv
  <1>4. CostInv'
    <2>1. Floor' = 0
      BY DEF Floor
    <2>2. Floor \in Nat
      BY FloorType DEF IInv
    <2>3. 5 * Len(cmds) + Len(pool) + Floor <= pos - base
      BY DEF IInv, CostInv
    <2>4. 5 * Len(cmds') + Len(pool') + Floor' <= pos' - base'
      BY <2>1, <2>2, <2>3 DEF IInv, TypeOK
    <2>5. QED
      BY <2>1, <2>4 DEF CostInv, BytesCostText, IInv, TypeOK
  <1>5. CommandsWellFormed'
    BY DEF IInv, CommandsWellFormed
  <1>6. QED
    BY <1>1, <1>2, <1>3, <1>4, <1>5 DEF IInv

\* One more character, in the same loop.
LEMMA AdvanceKeepsInv ==
    ASSUME IInv, pc \notin Done, At(pos) # NUL, Advance(pc)
    PROVE  IInv'
  <1> USE DEF Advance, input, txn, scratch
  <1>0. pos \in 1..Len(line)
    BY AtInLine DEF IInv, TypeOK
  <1>1. TypeOK'
    BY <1>0 DEF IInv, TypeOK
  <1>2. SlicesTile'
    BY DEF IInv, TypeOK, SlicesTile, EndOf, SliceEnd
  <1>3. PhaseInv'
    BY DEF IInv, PhaseInv
  <1>4. CostInv'
    <2>1. Floor' = Floor
      BY DEF Floor
    <2>2. Floor \in Nat
      BY FloorType DEF IInv
    <2>3. 5 * Len(cmds) + Len(pool) + Floor <= pos - base
      BY DEF IInv, CostInv
    <2>4. 5 * Len(cmds') + Len(pool') + Floor' <= pos' - base'
      BY <2>1, <2>2, <2>3 DEF IInv, TypeOK
    <2>5. QED
      BY <2>1, <2>2, <2>4 DEF CostInv, BytesCostText, IInv, TypeOK
  <1>5. CommandsWellFormed'
    BY DEF IInv, CommandsWellFormed
  <1>6. QED
    BY <1>1, <1>2, <1>3, <1>4, <1>5 DEF IInv

\* A command is counted; c is the slot with the read fields settled.
LEMMA EndCmdKeepsInv ==
    ASSUME IInv, Decoding, NEW c \in Slot, NEW p \in pos..(Len(line) + 1), EndCmd(c, p),
           c.kind = cmd.kind, c.ctrl_byte = cmd.ctrl_byte,
           c.payload_off = cmd.payload_off, c.payload_len = cmd.payload_len,
           c.kind = "read" => (c.rd_len > 0 => c.rd_fmt # FMT_NONE),
           c.kind = "write" => c.rd_len = 0,
           5 * Len(cmds) + Len(pool) + 5 <= p - base
    PROVE  IInv'
  <1> USE DEF EndCmd, input, scratch
  <1>0. /\ Len(cmds') = Len(cmds) + 1
        /\ \A k \in 1..Len(cmds) : cmds'[k] = cmds[k]
        /\ cmds'[Len(cmds) + 1] = c
        /\ Len(cmds) \in Nat
    BY DEF IInv, TypeOK
  <1>1. TypeOK'
    <2>1. cmds' \in Seq(Slot)
      BY AppendProperties DEF IInv, TypeOK
    <2>2. Len(cmds') <= MAX_CMDS
      <3>1. Len(cmds) < MAX_CMDS
        BY DEF IInv, PhaseInv
      <3>2. QED
        BY ONLY <1>0, <3>1, LimitsType
    <2>3. QED
      BY <2>1, <2>2, NoCmdType DEF IInv, TypeOK
  <1>2. SlicesTile'
    <2>1. SliceEnd(c) = SliceEnd(cmd)
      BY DEF SliceEnd
    <2>2. SliceEnd(c) = Len(pool') /\ c.payload_off = EndOf(Len(cmds))
      BY <2>1 DEF IInv, SlicesTile
    <2> PICK n \in Nat : n = Len(cmds)
      BY <1>0
    <2>3. \A k \in 0..n : EndOf(k)' = EndOf(k)
      BY <1>0 DEF EndOf, SliceEnd
    <2>4. EndOf(n + 1)' = Len(pool')
      BY <1>0, <2>2 DEF EndOf, SliceEnd
    <2>5. \A k \in 1..Len(cmds') : cmds'[k].payload_off = EndOf(k - 1)' /\ EndOf(k)' <= Len(pool')
      <3>1. ASSUME NEW k \in 1..n
            PROVE  cmds'[k].payload_off = EndOf(k - 1)' /\ EndOf(k)' <= Len(pool')
        <4>1. cmds[k].payload_off = EndOf(k - 1) /\ EndOf(k) <= Len(pool)
          BY DEF IInv, SlicesTile
        <4>2. EndOf(k - 1)' = EndOf(k - 1) /\ EndOf(k)' = EndOf(k)
          BY <2>3
        <4>3. QED
          BY <1>0, <4>1, <4>2
      <3>2. cmds'[n + 1].payload_off = EndOf(n)' /\ EndOf(n + 1)' <= Len(pool')
        <4>1. Len(pool') \in Nat
          BY DEF IInv, TypeOK
        <4>2. QED
          BY <1>0, <2>2, <2>3, <2>4, <4>1
      <3>3. QED
        BY <1>0, <3>1, <3>2
    <2>6. QED
      BY <1>0, <2>4, <2>5 DEF SlicesTile
  <1>3. PhaseInv'
    BY <1>0 DEF IInv, PhaseInv
  <1>4. CostInv'
    <2>1. Floor' = 0
      BY DEF Floor
    <2>2. 5 * Len(cmds') + Len(pool') + Floor' <= pos' - base'
      BY <1>0, <2>1 DEF IInv, TypeOK
    <2>3. QED
      BY <1>0, <2>1, <2>2 DEF CostInv, BytesCostText, IInv, TypeOK
  <1>5. CommandsWellFormed'
    <2>1. /\ c.kind \in {"read", "write"}
          /\ c.kind = "read"  => c.payload_len = 0 /\ c.ctrl_byte \in {161, 163}
          /\ c.kind = "write" => c.ctrl_byte \in {160, 162}
      BY DEF IInv, PhaseInv
    <2>2. \A k \in 1..Len(cmds) : cmds[k].kind \in {"read", "write"}
      BY DEF IInv, PhaseInv
    <2>3. \A k \in 1..(Len(cmds) + 1) : k \in 1..Len(cmds) \/ k = Len(cmds) + 1
      BY ONLY <1>0
    <2>4. QED
      BY <1>0, <2>1, <2>2, <2>3 DEF IInv, CommandsWellFormed
  <1>6. QED
    BY <1>1, <1>2, <1>3, <1>4, <1>5 DEF IInv

\* The internal address byte is known.
LEMMA StoreAddrKeepsInv ==
    ASSUME IInv, pc = "addrByte", NEW b \in Byte, NEW p \in pos..(Len(line) + 1),
           StoreAddr(b, p), 5 * Len(cmds) + Len(pool) + 5 <= p - base
    PROVE  IInv'
  <1> USE DEF StoreAddr, input, txn, scratch
  <1>0. cmd \in Slot /\ cmd' = [cmd EXCEPT !.internal_addr = b]
    BY DEF IInv, TypeOK
  <1>1. TypeOK'
    <2>1. cmd' \in Slot
      BY <1>0, SlotUpdates, ZenonT(60)
    <2>2. QED
      BY <2>1 DEF IInv, TypeOK
  <1>2. SlicesTile'
    <2>1. cmd'.payload_off = cmd.payload_off /\ cmd'.payload_len = cmd.payload_len
      BY <1>0 DEF Slot
    <2>2. cmds' = cmds /\ pool' = pool /\ pc' \in {"tail", "payload"}
      OBVIOUS
    <2>3. QED
      BY <2>1, <2>2, SMTT(30) DEF IInv, SlicesTile, EndOf, SliceEnd
  <1>3. PhaseInv'
    BY <1>0 DEF IInv, PhaseInv, Slot
  <1>4. CostInv'
    <2>1. Floor' = 5
      BY DEF Floor
    <2>2. 5 * Len(cmds') + Len(pool') + Floor' <= pos' - base'
      BY <2>1 DEF IInv, TypeOK
    <2>3. QED
      BY <2>1, <2>2, SMTT(30) DEF CostInv, BytesCostText, IInv, TypeOK
  <1>5. CommandsWellFormed'
    BY DEF IInv, CommandsWellFormed
  <1>6. QED
    BY <1>1, <1>2, <1>3, <1>4, <1>5 DEF IInv

\* A byte is pushed, or refused for want of room.
LEMMA PushKeepsInv ==
    ASSUME IInv, pc \in {"run", "bits"}, NEW b \in Byte, NEW p \in pos..(Len(line) + 1),
           PushPayload(b, p), 5 * Len(cmds) + Len(pool) + 7 <= p - base
    PROVE  IInv'
  <1>1. CASE \E e : FailAt(p, e)
    BY <1>1, FailKeepsInv
  <1>2. CASE /\ cmd.payload_len < PAYLOAD_MAX
             /\ Len(pool) < POOL_SIZE
             /\ pool' = Append(pool, b)
             /\ cmd' = [cmd EXCEPT !.payload_len = @ + 1]
             /\ got' = got + 1
             /\ pos' = p
             /\ pc' = "run"
             /\ UNCHANGED <<input, cmds, error, error_pos, fmt, acc, digits>>
    <2> USE <1>2 DEF input
    <2>0. /\ Len(pool') = Len(pool) + 1
          /\ Len(pool) \in Nat
          /\ cmd'.payload_off = cmd.payload_off
          /\ cmd'.payload_len = cmd.payload_len + 1
          /\ cmd.payload_len \in Nat /\ cmd.payload_off \in Nat
      BY DEF IInv, TypeOK, Slot
    <2>1. TypeOK'
      <3>1. cmd' \in Slot
        BY SlotUpdates, ZenonT(60) DEF IInv, TypeOK
      <3>2. pool' \in Seq(Byte)
        BY AppendProperties DEF IInv, TypeOK
      <3>3. Len(pool') <= POOL_SIZE
        <4>1. Len(pool) < POOL_SIZE
          BY <1>2
        <4>2. QED
          BY ONLY <2>0, <4>1, LimitsType
      <3>4. QED
        BY <3>1, <3>2, <3>3, SMTT(30) DEF IInv, TypeOK
    <2>2. SlicesTile'
      <3>1. \A k \in Nat : EndOf(k)' = EndOf(k)
        BY DEF EndOf
      <3>2. \A k \in 1..Len(cmds) : EndOf(k) <= Len(pool')
        <4>1. ASSUME NEW k \in 1..Len(cmds)
              PROVE  EndOf(k) <= Len(pool')
          <5>1. EndOf(k) <= Len(pool)
            BY DEF IInv, SlicesTile
          <5>2. EndOf(k) \in Nat
            <6>1. cmds[k] \in Slot
              BY ElementOfSeq DEF IInv, TypeOK
            <6>2. QED
              BY <6>1 DEF EndOf, SliceEnd, Slot
          <5>3. QED
            BY <2>0, <5>1, <5>2
        <4>2. QED
          BY <4>1
      <3>3. SliceEnd(cmd') = Len(pool')
        <4>1. SliceEnd(cmd) = Len(pool)
          BY DEF IInv, SlicesTile
        <4>2. cmd.payload_off + cmd.payload_len = Len(pool)
          BY ONLY <4>1 DEF SliceEnd
        <4>3. \A o, l, m \in Nat : o + l = m => o + (l + 1) = m + 1
          BY ONLY TRUE
        <4>4. cmd.payload_off + (cmd.payload_len + 1) = Len(pool) + 1
          BY ONLY <2>0, <4>2, <4>3
        <4>5. cmd'.payload_off + cmd'.payload_len = Len(pool')
          BY ONLY <2>0, <4>4
        <4>6. QED
          BY ONLY <4>5 DEF SliceEnd
      <3>4. cmd'.payload_off = EndOf(Len(cmds))'
        BY <2>0 DEF IInv, SlicesTile, EndOf
      <3>5. QED
        BY <3>1, <3>2, <3>3, <3>4, SMTT(30) DEF SlicesTile, IInv
    <2>3. PhaseInv'
      <3>1. /\ cmd'.kind = cmd.kind /\ cmd'.rd_len = cmd.rd_len
            /\ cmd'.ctrl_byte = cmd.ctrl_byte
        BY DEF IInv, TypeOK, Slot
      <3>2. cmd.kind = "write"
        BY DEF IInv, PhaseInv
      <3>3. QED
        BY <3>1, <3>2 DEF IInv, PhaseInv
    <2>4. CostInv'
      <3>1. Floor' = 6
        BY DEF Floor
      <3>2. 5 * Len(cmds') + Len(pool') + Floor' <= pos' - base'
        BY <2>0, <3>1 DEF IInv, TypeOK
      <3>3. QED
        BY <2>0, <3>1, <3>2, SMTT(30) DEF CostInv, BytesCostText, IInv, TypeOK
    <2>5. CommandsWellFormed'
      BY DEF IInv, CommandsWellFormed, PhaseInv
    <2>6. QED
      BY <2>1, <2>2, <2>3, <2>4, <2>5 DEF IInv
  <1>3. QED
    BY <1>1, <1>2 DEF PushPayload, StoreByte

\* A group of the payload ends.
LEMMA EndGroupKeepsInv ==
    ASSUME IInv, pc = "run", NEW p \in pos..(Len(line) + 1), NEW e, EndGroup(p, e)
    PROVE  IInv'
  <1>1. CASE Fail(e)
    <2>1. pos \in pos..(Len(line) + 1)
      BY DEF IInv, TypeOK
    <2>2. QED
      BY <1>1, <2>1, FailKeepsInv DEF Fail
  <1>2. CASE /\ got > 0
             /\ pos' = p
             /\ pc' = "payload"
             /\ UNCHANGED <<input, txn, cmd, scratch>>
    <2> USE <1>2 DEF input, txn, scratch
    <2>1. TypeOK'
      BY DEF IInv, TypeOK
    <2>2. SlicesTile'
      BY DEF IInv, TypeOK, SlicesTile, EndOf, SliceEnd
    <2>3. PhaseInv'
      BY DEF IInv, PhaseInv
    <2>4. CostInv'
      <3>1. Floor = 6 /\ Floor' = 5
        BY DEF Floor
      <3>2. 5 * Len(cmds) + Len(pool) + Floor <= pos - base
        BY DEF IInv, CostInv
      <3>3. 5 * Len(cmds') + Len(pool') + Floor' <= pos' - base'
        BY <3>1, <3>2 DEF IInv, TypeOK
      <3>4. QED
        BY <3>1, <3>3 DEF CostInv, BytesCostText, IInv, TypeOK
    <2>5. CommandsWellFormed'
      BY DEF IInv, CommandsWellFormed
    <2>6. QED
      BY <2>1, <2>2, <2>3, <2>4, <2>5 DEF IInv
  <1>3. QED
    BY <1>1, <1>2 DEF EndGroup

\* What a step needs to know of the state it starts from.
LEMMA Numbers ==
    ASSUME IInv
    PROVE  /\ Len(line) \in Nat /\ base \in Nat /\ pos \in Nat
           /\ 1 <= base /\ base <= pos /\ pos <= Len(line) + 1
           /\ Len(cmds) \in Nat /\ Len(pool) \in Nat
           /\ digits \in 0..8 /\ acc \in Nat /\ got \in Nat
  BY DEF IInv, TypeOK

LEMMA LineType == IInv => line \in Seq(1..255) /\ pos \in Int
  BY DEF IInv, TypeOK

\* A step that counts no command, pushes no byte and leaves the slice of the
\* current command alone: the types, the phase and the text consumed remain.
LEMMA QuietKeepsInv ==
    ASSUME IInv, pc \notin {"accepted", "rejected"}, pc' # "rejected",
           UNCHANGED <<cmds, pool>>, Decoding' <=> Decoding,
           cmd'.payload_off = cmd.payload_off, cmd'.payload_len = cmd.payload_len,
           TypeOK', PhaseInv',
           5 * Len(cmds) + Len(pool) + Floor' <= pos' - base'
    PROVE  IInv'
  <1>1. SlicesTile'
    BY DEF IInv, SlicesTile, EndOf, SliceEnd
  <1>2. CostInv'
    <2>1. Floor' \in Nat
      <3>1. digits' \in Nat /\ pc' \in Labels
        BY SMTT(30) DEF TypeOK
      <3>2. CASE pc' \in {"addr", "payload", "tail", "run", "count", "format", "close"}
        BY <3>2 DEF Floor
      <3>3. CASE pc' \in {"addrByte", "bits"}
        BY <3>1, <3>3 DEF Floor
      <3>4. CASE pc' \in {"idle", "accepted", "rejected", "entry", "chain", "special"}
        BY <3>4 DEF Floor
      <3>5. QED
        BY <3>1, <3>2, <3>3, <3>4
    <2>2. 5 * Len(cmds) + Len(pool) \in Nat /\ pos' - base' \in Int
      <3>1. Len(cmds) \in Nat /\ Len(pool) \in Nat
        BY Numbers
      <3>2. base' \in Int /\ pos' \in Int
        BY DEF TypeOK
      <3>3. QED
        BY ONLY <3>1, <3>2
    <2>3. 5 * Len(cmds) + Len(pool) <= pos' - base'
      BY <2>1, <2>2
    <2>4. QED
      BY <2>3 DEF CostInv, BytesCostText
  <1>3. CommandsWellFormed'
    BY DEF IInv, CommandsWellFormed
  <1>4. QED
    BY <1>1, <1>2, <1>3 DEF IInv

LEMMA TextCost ==
    ASSUME IInv, pc # "accepted"
    PROVE  5 * Len(cmds) + Len(pool) + Floor <= pos - base
  BY DEF IInv, CostInv

\* A loop that moves on by c characters may know f - Floor more of them.
LEMMA CostStep ==
    ASSUME IInv, pc # "accepted", NEW c \in Nat, NEW f \in Nat, f <= Floor + c
    PROVE  5 * Len(cmds) + Len(pool) + f <= (pos + c) - base
  <1>1. Floor \in Nat
    BY FloorType DEF IInv
  <1>2. QED
    BY ONLY Numbers, TextCost, <1>1, IInv, pc # "accepted", f <= Floor + c, c \in Nat, f \in Nat

-----------------------------------------------------------------------------
(* The actions. *)

LEMMA FailStep ==
    ASSUME IInv, pc \notin Done, NEW e, Fail(e)
    PROVE  IInv'
  <1>1. pos \in pos..(Len(line) + 1)
    BY Numbers
  <1>2. QED
    BY <1>1, FailKeepsInv DEF Fail

LEMMA SkipBlankKeepsInv == IInv /\ SkipBlank => IInv'
  <1> SUFFICES ASSUME IInv, SkipBlank
               PROVE  IInv'
    OBVIOUS
  <1>0. /\ pc = "entry" /\ pc' = pc /\ At(pos) # NUL
        /\ pos' = pos + 1 /\ base' = pos + 1
        /\ UNCHANGED <<line, cmds, pool, error, error_pos, cmd, fmt, acc, digits, got>>
    BY DEF SkipBlank, txn, scratch
  <1>1. pos \in 1..Len(line)
    BY <1>0, LineType, AtInLine
  <1>2. TypeOK'
    BY <1>0, <1>1 DEF IInv, TypeOK
  <1>3. PhaseInv'
    BY <1>0 DEF IInv, PhaseInv
  <1>4. Floor' = 0 /\ cmds = <<>> /\ pool = <<>>
    BY <1>0 DEF Floor, IInv, PhaseInv
  <1>5. 5 * Len(cmds) + Len(pool) + Floor' <= pos' - base'
    BY <1>0, <1>4, Numbers
  <1>6. QED
    BY <1>0, <1>2, <1>3, <1>5, QuietKeepsInv

LEMMA DispatchKeepsInv == IInv /\ Dispatch => IInv'
  <1> SUFFICES ASSUME IInv, Dispatch
               PROVE  IInv'
    OBVIOUS
  <1>0. pc = "entry"
    BY DEF Dispatch
  <1>1. CASE Fail("empty transaction")
    BY <1>0, <1>1, FailStep
  <1>2. CASE /\ pc' \in {"chain", "special"}
             /\ UNCHANGED <<input, pos, txn, cmd, scratch>>
    <2>1. UNCHANGED <<line, base, pos, cmds, pool, error, error_pos, cmd, fmt, acc, digits, got>>
      BY <1>2 DEF input, txn, scratch
    <2>2. TypeOK'
      BY <1>0, <1>2, <2>1 DEF IInv, TypeOK
    <2>3. PhaseInv'
      BY <1>0, <1>2, <2>1 DEF IInv, PhaseInv
    <2>4. Floor' = 0 /\ Floor = 0
      BY <1>0, <1>2 DEF Floor
    <2>5. 5 * Len(cmds) + Len(pool) + Floor' <= pos' - base'
      BY <1>0, <2>1, <2>4, TextCost
    <2>6. QED
      BY <1>0, <1>2, <2>1, <2>2, <2>3, <2>5, QuietKeepsInv
  <1>3. QED
    BY <1>1, <1>2 DEF Dispatch

LEMMA ChainKeepsInv == IInv /\ Chain => IInv'
  <1> SUFFICES ASSUME IInv, Chain
               PROVE  IInv'
    OBVIOUS
  <1>0. pc = "chain"
    BY DEF Chain
  <1>1. CASE Fail("garbage after command")
    BY <1>0, <1>1, FailStep
  <1>2. CASE At(pos) = Underscore /\ Advance("chain")
    BY <1>0, <1>2, AdvanceKeepsInv
  <1>3. CASE /\ pc' = "accepted"
             /\ UNCHANGED <<input, pos, txn, cmd, scratch>>
    <2>1. UNCHANGED <<line, base, pos, cmds, pool, error, error_pos, cmd, fmt, acc, digits, got>>
      BY <1>3 DEF input, txn, scratch
    <2>2. TypeOK'
      BY <1>0, <1>3, <2>1 DEF IInv, TypeOK
    <2>3. PhaseInv'
      BY <1>0, <1>3, <2>1 DEF IInv, PhaseInv
    <2>4. Floor' = 0 /\ Floor = 0
      BY <1>0, <1>3 DEF Floor
    <2>5. 5 * Len(cmds) + Len(pool) + Floor' <= pos' - base'
      BY <1>0, <2>1, <2>4, TextCost
    <2>6. QED
      BY <1>0, <1>3, <2>1, <2>2, <2>3, <2>5, QuietKeepsInv
  <1>4. QED
    BY <1>1, <1>2, <1>3 DEF Chain

LEMMA BeginCmdKeepsInv == IInv /\ BeginCmd => IInv'
  <1> SUFFICES ASSUME IInv, BeginCmd
               PROVE  IInv'
    OBVIOUS
  <1>0. pc = "chain" /\ at_cmd_start(pos)
    BY DEF BeginCmd
  <1>1. CASE Fail("too many commands in transaction")
    BY <1>0, <1>1, FailStep
  <1>2. CASE /\ Len(cmds) < MAX_CMDS
             /\ cmd' = [NoCmd EXCEPT
                          !.kind = IF CtrlByte \in {161, 163} THEN "read" ELSE "write",
                          !.ctrl_byte = CtrlByte,
                          !.payload_off = Len(pool)]
             /\ pos' = pos + 3
             /\ pc' = "addr"
             /\ UNCHANGED <<input, txn, scratch>>
    <2>1. /\ pos' = pos + 3 /\ pc' = "addr" /\ Len(cmds) < MAX_CMDS
          /\ UNCHANGED <<line, base, cmds, pool, error, error_pos, fmt, acc, digits, got>>
      BY <1>2 DEF input, txn, scratch
    <2>2. pos + 2 \in 1..Len(line) /\ CtrlByte \in 160..163
      BY <1>0, LineType, CmdStartInLine DEF CtrlByte
    <2>3. /\ cmd'.kind = IF CtrlByte \in {161, 163} THEN "read" ELSE "write"
          /\ cmd'.ctrl_byte = CtrlByte
          /\ cmd'.payload_off = Len(pool) /\ cmd'.payload_len = 0 /\ cmd'.rd_len = 0
      BY <1>2 DEF NoCmd
    <2>4. cmd' \in Slot
      <3>1. CtrlByte \in Byte
        BY <2>2 DEF Byte
      <3>2. Len(pool) \in 0..POOL_SIZE
        BY Numbers, LimitsType DEF IInv, TypeOK
      <3>3. cmd' = [kind |-> IF CtrlByte \in {161, 163} THEN "read" ELSE "write",
                    ctrl_byte |-> CtrlByte, internal_addr |-> 0, rd_len |-> 0,
                    rd_fmt |-> 0, payload_off |-> Len(pool), payload_len |-> 0,
                    gpio_byte |-> 0]
        BY ONLY <1>2 DEF NoCmd, FMT_NONE
      <3>4. 0 \in Byte /\ 0 \in 0..PAYLOAD_MAX
        BY LimitsType DEF Byte
      <3>5. QED
        BY <3>1, <3>2, <3>3, <3>4 DEF Slot
    <2>5. TypeOK'
      BY <2>1, <2>2, <2>4, Numbers DEF IInv, TypeOK
    <2>6. PhaseInv'
      BY <1>0, <2>1, <2>2, <2>3 DEF IInv, PhaseInv
    <2>7. SlicesTile'
      <3>1. \A k \in Nat : EndOf(k)' = EndOf(k)
        BY <2>1 DEF EndOf
      <3>2. Len(pool) = EndOf(Len(cmds)) /\ EndOf(Len(cmds))' = EndOf(Len(cmds))
        BY <1>0, <2>1 DEF IInv, SlicesTile, EndOf
      <3>3. SliceEnd(cmd') = Len(pool')
        BY <2>1, <2>3, Numbers DEF SliceEnd
      <3>4. QED
        BY <1>0, <2>1, <2>3, <3>1, <3>2, <3>3 DEF SlicesTile, IInv
    <2>8. CostInv'
      <3>1. Floor = 0 /\ Floor' = 3
        BY <1>0, <2>1 DEF Floor
      <3>2. 5 * Len(cmds') + Len(pool') + Floor' <= pos' - base'
        BY <1>0, <2>1, <3>1, CostStep
      <3>3. QED
        BY <2>1, <3>1, <3>2, Numbers DEF CostInv, BytesCostText
    <2>9. CommandsWellFormed'
      BY <2>1 DEF IInv, CommandsWellFormed
    <2>10. QED
      BY <2>5, <2>6, <2>7, <2>8, <2>9 DEF IInv
  <1>3. QED
    BY <1>1, <1>2 DEF BeginCmd, Opened

LEMMA AddrSelectorKeepsInv == IInv /\ AddrSelector => IInv'
  <1> SUFFICES ASSUME IInv, AddrSelector
               PROVE  IInv'
    OBVIOUS
  <1>0. pc = "addr"
    BY DEF AddrSelector
  <1>1. CASE Fail("expected format selector before internal address")
    BY <1>0, <1>1, FailStep
  <1>2. CASE At(pos) = Underscore /\ Advance("addr")
    BY <1>0, <1>2, AdvanceKeepsInv
  <1>3. CASE /\ At(pos) \in Selector
             /\ fmt' = At(pos)
             /\ acc' = 0
             /\ digits' = 0
             /\ pos' = pos + 1
             /\ pc' = "addrByte"
             /\ UNCHANGED <<input, txn, cmd, got>>
    <2>1. pos \in 1..Len(line)
      BY <1>3, LineType, AtInLine
    <2>2. UNCHANGED <<line, base, cmds, pool, error, error_pos, cmd, got>>
      BY <1>3 DEF input, txn
    <2>3. TypeOK'
      BY <1>3, <2>1, <2>2 DEF IInv, TypeOK, Byte
    <2>4. PhaseInv'
      BY <1>0, <1>3, <2>2 DEF IInv, PhaseInv
    <2>5. Floor' = 4 /\ Floor = 3
      BY <1>0, <1>3 DEF Floor
    <2>6. 5 * Len(cmds) + Len(pool) + Floor' <= pos' - base'
      BY <1>0, <1>3, <2>2, <2>5, CostStep
    <2>7. QED
      BY <1>0, <1>3, <2>2, <2>3, <2>4, <2>6, QuietKeepsInv
  <1>4. QED
    BY <1>1, <1>2, <1>3 DEF AddrSelector

LEMMA AddrHexKeepsInv == IInv /\ AddrHex => IInv'
  <1> SUFFICES ASSUME IInv, AddrHex
               PROVE  IInv'
    OBVIOUS
  <1>0. pc = "addrByte" /\ fmt = ch_h
    BY DEF AddrHex
  <1>1. CASE Fail("hex byte requires two hex digits")
    BY <1>0, <1>1, FailStep
  <1>2. CASE TwoHexAt(pos) /\ StoreAddr(HexByteAt(pos), pos + 2)
    <2>1. pos + 1 \in 1..Len(line) /\ HexByteAt(pos) \in Byte
      BY <1>2, LineType, TwoHexInLine
    <2>2. Floor = 4
      BY <1>0 DEF Floor
    <2>3. 5 * Len(cmds) + Len(pool) + 5 <= (pos + 2) - base
      BY <1>0, <2>2, CostStep
    <2>4. pos + 2 \in pos..(Len(line) + 1)
      BY <2>1, Numbers
    <2>5. QED
      BY <1>0, <1>2, <2>1, <2>3, <2>4, StoreAddrKeepsInv
  <1>3. QED
    BY <1>1, <1>2 DEF AddrHex

LEMMA AlnumInLine ==
    ASSUME line \in Seq(1..255), NEW i \in Int, is_alnum_lat(At(i))
    PROVE  i \in 1..Len(line) /\ At(i) \in Byte
  <1>1. At(i) # NUL
    <2>1. At(i) \in 48..57 \/ At(i) \in 97..122 \/ At(i) \in 65..90
      BY DEF is_alnum_lat
    <2>2. QED
      BY ONLY <2>1 DEF NUL
  <1>2. QED
    BY <1>1, AtInLine DEF Byte

LEMMA AddrAsciiKeepsInv == IInv /\ AddrAscii => IInv'
  <1> SUFFICES ASSUME IInv, AddrAscii
               PROVE  IInv'
    OBVIOUS
  <1>0. pc = "addrByte" /\ fmt = ch_a
    BY DEF AddrAscii
  <1>1. CASE Fail("ascii field requires latin letter or digit")
    BY <1>0, <1>1, FailStep
  <1>2. CASE /\ is_alnum_lat(At(pos))
             /\ StoreAddr(At(pos), IF At(pos + 1) = Underscore THEN pos + 2 ELSE pos + 1)
    <2> DEFINE p == IF At(pos + 1) = Underscore THEN pos + 2 ELSE pos + 1
    <2>1. pos \in 1..Len(line) /\ At(pos) \in Byte
      BY <1>2, LineType, AlnumInLine
    <2>2. At(pos + 1) = Underscore => pos + 1 \in 1..Len(line)
      BY LineType, AtInLine
    <2>3. p \in (pos + 1)..(Len(line) + 1)
      BY <2>1, <2>2, Numbers
    <2>4. Floor = 4
      BY <1>0 DEF Floor
    <2>5. 5 * Len(cmds) + Len(pool) + 5 <= (pos + 1) - base
      BY <1>0, <2>4, CostStep
    <2> HIDE DEF p
    <2>6. 5 * Len(cmds) + Len(pool) + 5 <= p - base /\ p \in pos..(Len(line) + 1)
      BY <2>3, <2>5, Numbers
    <2>7. StoreAddr(At(pos), p)
      BY <1>2 DEF p
    <2>8. QED
      BY <1>0, <2>1, <2>6, <2>7, StoreAddrKeepsInv
  <1>3. QED
    BY <1>1, <1>2 DEF AddrAscii

\* One bit of a binary byte, for the address and for the payload.
LEMMA ShiftBitKeepsInv ==
    ASSUME IInv, pc = "bits" \/ (pc = "addrByte" /\ fmt = ch_b), ShiftBit
    PROVE  IInv'
  <1>1. CASE Fail("binary byte requires eight bits")
    BY <1>1, FailStep
  <1>2. CASE At(pos) = Underscore /\ Advance(pc)
    BY <1>2, AdvanceKeepsInv
  <1>3. CASE /\ is_bin(At(pos))
             /\ acc' = (2 * acc + (At(pos) - 48)) % 256
             /\ digits' = digits + 1
             /\ pos' = pos + 1
             /\ UNCHANGED <<input, pc, txn, cmd, fmt, got>>
    <2>1. pos \in 1..Len(line) /\ At(pos) \in {48, 49}
      BY <1>3, LineType, AtInLine DEF is_bin
    <2>2. UNCHANGED <<line, base, pc, cmds, pool, error, error_pos, cmd, fmt, got>>
      BY <1>3 DEF input, txn
    <2>3. digits < 8 /\ digits \in Nat
      <3>1. digits < 8
        BY DEF ShiftBit
      <3>2. QED
        BY <3>1, Numbers
    <2>4. acc' \in Byte
      <3>1. 2 * acc + (At(pos) - 48) \in Nat
        BY <2>1, Numbers
      <3>2. QED
        BY <1>3, <3>1 DEF Byte
    <2>5. TypeOK'
      <3>1. pos' \in base..(Len(line) + 1)
        BY <1>3, <2>1, Numbers
      <3>2. digits' \in 0..8
        BY <1>3, <2>3
      <3>3. acc' \in Nat
        BY <2>4 DEF Byte
      <3>4. QED
        BY <2>2, <2>4, <3>1, <3>2, <3>3 DEF IInv, TypeOK
    <2>6. PhaseInv'
      BY <2>2 DEF IInv, PhaseInv
    <2>7. Floor' = Floor + 1
      BY <1>3, <2>2, <2>3 DEF Floor
    <2>8. Floor \in Nat
      BY FloorType DEF IInv
    <2>9. 5 * Len(cmds) + Len(pool) + (Floor + 1) <= (pos + 1) - base
      BY <2>8, CostStep, SMTT(30)
    <2>10. 5 * Len(cmds) + Len(pool) + Floor' <= pos' - base'
      BY <1>3, <2>2, <2>7, <2>9
    <2>11. QED
      BY <2>2, <2>5, <2>6, <2>10, QuietKeepsInv
  <1>4. QED
    BY <1>1, <1>2, <1>3 DEF ShiftBit

LEMMA AddrBinKeepsInv == IInv /\ AddrBin => IInv'
  <1> SUFFICES ASSUME IInv, AddrBin
               PROVE  IInv'
    OBVIOUS
  <1>0. pc = "addrByte" /\ fmt = ch_b
    BY DEF AddrBin
  <1>1. CASE ShiftBit
    BY <1>0, <1>1, ShiftBitKeepsInv
  <1>2. CASE digits >= BYTE_BITS /\ StoreAddr(acc, pos)
    <2>1. digits = 8 /\ Floor = 12
      BY <1>0, <1>2, Numbers DEF Floor
    <2>2. 5 * Len(cmds) + Len(pool) + 5 <= pos - base
      BY <1>0, <2>1, TextCost, Numbers
    <2>3. acc \in Byte /\ pos \in pos..(Len(line) + 1)
      BY <1>0 DEF IInv, TypeOK
    <2>4. QED
      BY <1>0, <1>2, <2>2, <2>3, StoreAddrKeepsInv
  <1>3. QED
    BY <1>1, <1>2 DEF AddrBin

LEMMA PayloadHeadKeepsInv == IInv /\ PayloadHead => IInv'
  <1> SUFFICES ASSUME IInv, PayloadHead
               PROVE  IInv'
    OBVIOUS
  <1>0. pc = "payload" /\ Floor = 5
    BY DEF PayloadHead, Floor
  <1>1. CASE EndCmd(cmd, pos)
    <2>1. pos \in pos..(Len(line) + 1) /\ cmd \in Slot
      BY Numbers DEF IInv, TypeOK
    <2>2. cmd.kind = "write" /\ cmd.rd_len = 0
      BY <1>0 DEF IInv, PhaseInv
    <2>3. 5 * Len(cmds) + Len(pool) + 5 <= pos - base
      BY <1>0, TextCost
    <2>4. QED
      BY <1>0, <1>1, <2>1, <2>2, <2>3, EndCmdKeepsInv
  <1>2. CASE At(pos) = Underscore /\ Advance("payload")
    BY <1>0, <1>2, AdvanceKeepsInv
  <1>3. CASE /\ At(pos) \in Selector
             /\ ~at_cmd_start(pos)
             /\ fmt' = At(pos)
             /\ got' = 0
             /\ pos' = pos + 1
             /\ pc' = "run"
             /\ UNCHANGED <<input, txn, cmd, acc, digits>>
    <2>1. pos \in 1..Len(line)
      BY <1>3, LineType, AtInLine
    <2>2. UNCHANGED <<line, base, cmds, pool, error, error_pos, cmd, acc, digits>>
      BY <1>3 DEF input, txn
    <2>3. TypeOK'
      BY <1>3, <2>1, <2>2 DEF IInv, TypeOK
    <2>4. PhaseInv'
      BY <1>0, <1>3, <2>2 DEF IInv, PhaseInv
    <2>5. Floor' = 6
      BY <1>3 DEF Floor
    <2>6. 5 * Len(cmds) + Len(pool) + Floor' <= pos' - base'
      BY <1>0, <1>3, <2>2, <2>5, CostStep
    <2>7. QED
      BY <1>0, <1>3, <2>2, <2>3, <2>4, <2>6, QuietKeepsInv
  <1>4. CASE Fail("expected format selector h/b/a or _")
    BY <1>0, <1>4, FailStep
  <1>5. QED
    BY <1>1, <1>2, <1>3, <1>4 DEF PayloadHead

LEMMA HexRunKeepsInv == IInv /\ HexRun => IInv'
  <1> SUFFICES ASSUME IInv, HexRun
               PROVE  IInv'
    OBVIOUS
  <1>0. pc = "run" /\ Floor = 6
    BY DEF HexRun, Floor
  <1>1. CASE TwoHexAt(pos) /\ PushPayload(HexByteAt(pos), pos + 2)
    <2>1. pos + 1 \in 1..Len(line) /\ HexByteAt(pos) \in Byte
      BY <1>1, LineType, TwoHexInLine
    <2>2. 5 * Len(cmds) + Len(pool) + 7 <= (pos + 2) - base
      BY <1>0, CostStep
    <2>3. pos + 2 \in pos..(Len(line) + 1)
      BY <2>1, Numbers
    <2>4. QED
      BY <1>0, <1>1, <2>1, <2>2, <2>3, PushKeepsInv
  <1>2. CASE Fail("hex byte requires two hex digits")
    BY <1>0, <1>2, FailStep
  <1>3. CASE EndGroup(pos, "empty hex group")
    <2>1. pos \in pos..(Len(line) + 1)
      BY Numbers
    <2>2. QED
      BY <1>0, <1>3, <2>1, EndGroupKeepsInv
  <1>4. QED
    BY <1>1, <1>2, <1>3 DEF HexRun

LEMMA BinRunKeepsInv == IInv /\ BinRun => IInv'
  <1> SUFFICES ASSUME IInv, BinRun
               PROVE  IInv'
    OBVIOUS
  <1>0. pc = "run" /\ fmt = ch_b /\ Floor = 6
    BY DEF BinRun, Floor
  <1>1. CASE /\ acc' = 0
             /\ digits' = 0
             /\ pc' = "bits"
             /\ UNCHANGED <<input, pos, txn, cmd, fmt, got>>
    <2>1. UNCHANGED <<line, base, pos, cmds, pool, error, error_pos, cmd, fmt, got>>
      BY <1>1 DEF input, txn
    <2>2. TypeOK'
      BY <1>1, <2>1 DEF IInv, TypeOK, Byte
    <2>3. PhaseInv'
      BY <1>0, <1>1, <2>1 DEF IInv, PhaseInv
    <2>4. Floor' = 6
      BY <1>1 DEF Floor
    <2>5. 5 * Len(cmds) + Len(pool) + Floor' <= pos' - base'
      BY <1>0, <2>1, <2>4, TextCost
    <2>6. QED
      BY <1>0, <1>1, <2>1, <2>2, <2>3, <2>5, QuietKeepsInv
  <1>2. CASE EndGroup(pos, "empty binary group")
    <2>1. pos \in pos..(Len(line) + 1)
      BY Numbers
    <2>2. QED
      BY <1>0, <1>2, <2>1, EndGroupKeepsInv
  <1>3. QED
    BY <1>1, <1>2 DEF BinRun

LEMMA BinByteKeepsInv == IInv /\ BinByte => IInv'
  <1> SUFFICES ASSUME IInv, BinByte
               PROVE  IInv'
    OBVIOUS
  <1>0. pc = "bits"
    BY DEF BinByte
  <1>1. CASE ShiftBit
    BY <1>0, <1>1, ShiftBitKeepsInv
  <1>2. CASE digits >= BYTE_BITS /\ PushPayload(acc, pos)
    <2>1. digits = 8 /\ Floor = 14
      BY <1>0, <1>2, Numbers DEF Floor
    <2>2. 5 * Len(cmds) + Len(pool) + 7 <= pos - base
      BY <1>0, <2>1, TextCost, Numbers
    <2>3. acc \in Byte /\ pos \in pos..(Len(line) + 1)
      BY <1>0 DEF IInv, TypeOK
    <2>4. QED
      BY <1>0, <1>2, <2>2, <2>3, PushKeepsInv
  <1>3. QED
    BY <1>1, <1>2 DEF BinByte

LEMMA AsciiRunKeepsInv == IInv /\ AsciiRun => IInv'
  <1> SUFFICES ASSUME IInv, AsciiRun
               PROVE  IInv'
    OBVIOUS
  <1>0. pc = "run" /\ Floor = 6
    BY DEF AsciiRun, Floor
  <1>1. CASE is_alnum_lat(At(pos)) /\ PushPayload(At(pos), pos + 1)
    <2>1. pos \in 1..Len(line) /\ At(pos) \in Byte
      BY <1>1, LineType, AlnumInLine
    <2>2. 5 * Len(cmds) + Len(pool) + 7 <= (pos + 1) - base
      BY <1>0, CostStep
    <2>3. pos + 1 \in pos..(Len(line) + 1)
      BY <2>1, Numbers
    <2>4. QED
      BY <1>0, <1>1, <2>1, <2>2, <2>3, PushKeepsInv
  <1>2. CASE At(pos) = Underscore /\ EndGroup(pos + 1, "empty ascii group")
    <2>1. pos \in 1..Len(line)
      <3>1. At(pos) = Underscore
        BY <1>2, Zenon
      <3>2. At(pos) # NUL
        BY ONLY <3>1
      <3>3. QED
        BY ONLY <3>2, IInv, LineType, AtInLine
    <2>2. pos + 1 \in pos..(Len(line) + 1)
      BY <2>1, Numbers
    <2>3. QED
      BY <1>0, <1>2, <2>2, EndGroupKeepsInv
  <1>3. CASE EndGroup(pos, "empty ascii group")
    <2>1. pos \in pos..(Len(line) + 1)
      BY Numbers
    <2>2. QED
      BY <1>0, <1>3, <2>1, EndGroupKeepsInv
  <1>4. CASE \E e : Fail(e)
    BY <1>0, <1>4, FailStep
  <1>5. QED
    BY <1>1, <1>2, <1>3, <1>4 DEF AsciiRun

LEMMA ReadTailKeepsInv == IInv /\ ReadTail => IInv'
  <1> SUFFICES ASSUME IInv, ReadTail
               PROVE  IInv'
    OBVIOUS
  <1>0. pc = "tail" /\ Floor = 5
    BY DEF ReadTail, Floor
  <1>1. CASE At(pos) = Underscore /\ Advance("tail")
    BY <1>0, <1>1, AdvanceKeepsInv
  <1>2. CASE EndCmd([cmd EXCEPT !.rd_len = 0, !.rd_fmt = FMT_NONE], pos)
    <2> DEFINE c == [cmd EXCEPT !.rd_len = 0, !.rd_fmt = FMT_NONE]
    <2>1. pos \in pos..(Len(line) + 1) /\ cmd \in Slot
      BY Numbers DEF IInv, TypeOK
    <2>2. c \in Slot
      <3>0. 0 \in 0..RD_COUNT_MAX
        OBVIOUS
      <3>1. [cmd EXCEPT !.rd_len = 0] \in Slot
        BY <2>1, <3>0, SlotUpdates, ZenonT(60)
      <3>2. [[cmd EXCEPT !.rd_len = 0] EXCEPT !.rd_fmt = FMT_NONE] \in Slot
        BY <3>1, SlotUpdates, ZenonT(60)
      <3>3. QED
        BY <3>2
    <2>3. /\ c.kind = cmd.kind /\ c.ctrl_byte = cmd.ctrl_byte /\ c.rd_len = 0
          /\ c.payload_off = cmd.payload_off /\ c.payload_len = cmd.payload_len
      BY <2>1 DEF Slot
    <2>4. 5 * Len(cmds) + Len(pool) + 5 <= pos - base
      BY <1>0, TextCost
    <2>5. EndCmd(c, pos)
      BY <1>2
    <2> HIDE DEF c
    <2>6. QED
      BY <1>0, <2>1, <2>2, <2>3, <2>4, <2>5, EndCmdKeepsInv
  <1>3. CASE /\ At(pos) = ch_h
             /\ acc' = 0
             /\ digits' = 0
             /\ pos' = pos + 1
             /\ pc' = "count"
             /\ UNCHANGED <<input, txn, cmd, fmt, got>>
    <2>1. pos \in 1..Len(line)
      BY <1>3, LineType, AtInLine
    <2>2. UNCHANGED <<line, base, cmds, pool, error, error_pos, cmd, fmt, got>>
      BY <1>3 DEF input, txn
    <2>3. TypeOK'
      BY <1>3, <2>1, <2>2 DEF IInv, TypeOK
    <2>4. PhaseInv'
      BY <1>0, <1>3, <2>2 DEF IInv, PhaseInv
    <2>5. Floor' = 6
      BY <1>3 DEF Floor
    <2>6. 5 * Len(cmds) + Len(pool) + Floor' <= pos' - base'
      BY <1>0, <1>3, <2>2, <2>5, CostStep
    <2>7. QED
      BY <1>0, <1>3, <2>2, <2>3, <2>4, <2>6, QuietKeepsInv
  <1>4. CASE Fail("expected 'h<count>' or end of read command")
    BY <1>0, <1>4, FailStep
  <1>5. QED
    BY <1>1, <1>2, <1>3, <1>4 DEF ReadTail

LEMMA ReadCountKeepsInv == IInv /\ ReadCount => IInv'
  <1> SUFFICES ASSUME IInv, ReadCount
               PROVE  IInv'
    OBVIOUS
  <1>0. pc = "count" /\ Floor = 6
    BY DEF ReadCount, Floor
  <1>2. CASE CountDigitAhead /\ CountDigit
    <2> USE DEF CountDigitAhead, CountDigit
    <2>1. pos \in 1..Len(line) /\ hex_val(At(pos)) \in 0..15
      BY <1>2, LineType, HexInLine
    <2>2. UNCHANGED <<line, base, pc, cmds, pool, error, error_pos, cmd, fmt, got>>
      BY <1>2 DEF input, txn
    <2>3. TypeOK'
      <3>1. pos' \in base..(Len(line) + 1)
        BY <1>2, <2>1, Numbers
      <3>2. digits' = digits + 1 /\ digits < 3 /\ acc' = 16 * acc + hex_val(At(pos))
        BY <1>2
      <3>3. digits' \in 0..8
        BY ONLY <3>2, IInv, Numbers, SMTT(30)
      <3>4. \A a, d \in Nat : 16 * a + d \in Nat
        BY ONLY TRUE
      <3>5. acc \in Nat /\ hex_val(At(pos)) \in Nat
        <4>1. acc \in Nat
          BY Numbers
        <4>2. hex_val(At(pos)) \in Nat
          BY ONLY <2>1
        <4>3. QED
          BY <4>1, <4>2
      <3>6. acc' \in Nat
        BY ONLY <3>2, <3>4, <3>5
      <3>7. QED
        BY <1>0, <2>2, <3>1, <3>3, <3>6 DEF IInv, TypeOK
    <2>4. PhaseInv'
      BY <1>0, <2>2 DEF IInv, PhaseInv
    <2>5. Floor' = 6
      BY <1>0, <2>2 DEF Floor
    <2>6. 5 * Len(cmds) + Len(pool) + Floor' <= pos' - base'
      BY <1>0, <1>2, <2>2, <2>5, CostStep
    <2>7. QED
      BY <1>0, <2>2, <2>3, <2>4, <2>6, QuietKeepsInv
  <1>3. CASE acc <= RD_COUNT_MAX /\ CountTaken
    <2> USE DEF CountTaken
    <2>1. UNCHANGED <<line, base, pos, cmds, pool, error, error_pos, fmt, acc, digits, got>>
      BY <1>3 DEF input, txn, scratch
    <2>2. acc \in 0..RD_COUNT_MAX
      <3>1. acc <= 1022
        BY <1>3
      <3>2. acc \in Nat
        BY Numbers
      <3>3. QED
        BY ONLY <3>1, <3>2 DEF RD_COUNT_MAX
    <2>3. cmd \in Slot
      BY DEF IInv, TypeOK
    <2>0. cmd' = [cmd EXCEPT !.rd_len = acc]
      BY <1>3
    <2>4. cmd' \in Slot
      <3>1. \A n \in 0..RD_COUNT_MAX : [cmd EXCEPT !.rd_len = n] \in Slot
        BY <2>3, SlotUpdates, ZenonT(60)
      <3>2. QED
        BY ONLY <2>0, <2>2, <3>1, ZenonT(60)
    <2>5. /\ cmd'.kind = cmd.kind /\ cmd'.ctrl_byte = cmd.ctrl_byte
          /\ cmd'.payload_off = cmd.payload_off /\ cmd'.payload_len = cmd.payload_len
      BY <2>0, <2>3 DEF Slot
    <2>6. TypeOK'
      BY <1>0, <1>3, <2>1, <2>4 DEF IInv, TypeOK
    <2>7. PhaseInv'
      BY <1>0, <1>3, <2>1, <2>5 DEF IInv, PhaseInv
    <2>8. Floor' = 6
      BY <1>3 DEF Floor
    <2>9. 5 * Len(cmds) + Len(pool) + Floor' <= pos' - base'
      BY <1>0, <2>1, <2>8, TextCost
    <2>10. QED
      BY <1>0, <1>3, <2>1, <2>5, <2>6, <2>7, <2>9, QuietKeepsInv
  <1>4. CASE Fail("missing read count digits")
    BY <1>0, <1>4, FailStep
  <1>5. CASE Fail("read count exceeds h3FE")
    BY <1>0, <1>5, FailStep
  <1>6. QED
    BY <1>2, <1>3, <1>4, <1>5, ZenonT(60) DEF ReadCount

LEMMA ReadFormatKeepsInv == IInv /\ ReadFormat => IInv'
  <1> SUFFICES ASSUME IInv, ReadFormat
               PROVE  IInv'
    OBVIOUS
  <1>0. pc = "format" /\ Floor = 6
    BY DEF ReadFormat, Floor
  <1>1. CASE Fail("missing display format for read")
    BY <1>0, <1>1, FailStep
  <1>2. ASSUME NEW f \in Selector \cup {FMT_NONE}, NEW c \in {0, 1},
               cmd' = [cmd EXCEPT !.rd_fmt = f],
               f = FMT_NONE => cmd.rd_len = 0,
               c = 1 => pos \in 1..Len(line),
               pos' = pos + c,
               pc' = "close",
               UNCHANGED <<input, txn, scratch>>
        PROVE  IInv'
    <2>1. UNCHANGED <<line, base, cmds, pool, error, error_pos, fmt, acc, digits, got>>
      BY <1>2 DEF input, txn, scratch
    <2>2. cmd \in Slot
      BY DEF IInv, TypeOK
    <2>3. cmd' \in Slot
      BY <1>2, <2>2, SlotUpdates, ZenonT(60)
    <2>4. /\ cmd'.kind = cmd.kind /\ cmd'.ctrl_byte = cmd.ctrl_byte
          /\ cmd'.rd_len = cmd.rd_len /\ cmd'.rd_fmt = f
          /\ cmd'.payload_off = cmd.payload_off /\ cmd'.payload_len = cmd.payload_len
      BY <1>2, <2>2 DEF Slot
    <2>5. pos' \in base..(Len(line) + 1)
      BY <1>2, Numbers
    <2>6. TypeOK'
      BY <1>2, <2>1, <2>3, <2>5 DEF IInv, TypeOK
    <2>7. cmd.rd_len \in Nat
      BY <2>2 DEF Slot
    <2>8. PhaseInv'
      BY <1>0, <1>2, <2>1, <2>4, <2>7 DEF IInv, PhaseInv
    <2>9. Floor' = 6
      BY <1>2 DEF Floor
    <2>10. 5 * Len(cmds) + Len(pool) + Floor' <= pos' - base'
      <3>1. 5 * Len(cmds) + Len(pool) + 6 <= (pos + c) - base
        BY ONLY <1>0, IInv, c \in {0, 1}, CostStep
      <3>2. QED
        BY <1>2, <2>1, <2>9, <3>1
    <2>11. QED
      BY <1>0, <1>2, <2>1, <2>4, <2>6, <2>8, <2>10, QuietKeepsInv
  <1>3. CASE /\ At(pos) \in Selector
             /\ cmd' = [cmd EXCEPT !.rd_fmt = At(pos)]
             /\ pos' = pos + 1
             /\ pc' = "close"
             /\ UNCHANGED <<input, txn, scratch>>
    <2>1. pos \in 1..Len(line)
      BY <1>3, LineType, AtInLine
    <2>2. At(pos) # FMT_NONE
      BY <1>3
    <2>3. QED
      BY <1>2, <1>3, <2>1, <2>2
  <1>4. CASE /\ cmd.rd_len = 0
             /\ cmd' = [cmd EXCEPT !.rd_fmt = FMT_NONE]
             /\ pc' = "close"
             /\ UNCHANGED <<input, pos, txn, scratch>>
    <2>1. pos' = pos + 0
      BY <1>4, Numbers
    <2>2. QED
      BY <1>2, <1>4, <2>1
  <1>5. QED
    BY <1>1, <1>3, <1>4 DEF ReadFormat

LEMMA ReadCloseKeepsInv == IInv /\ ReadClose => IInv'
  <1> SUFFICES ASSUME IInv, ReadClose
               PROVE  IInv'
    OBVIOUS
  <1>0. pc = "close" /\ Floor = 6
    BY DEF ReadClose, Floor
  <1>1. CASE Fail("read command must end with '_'")
    BY <1>0, <1>1, FailStep
  <1>2. CASE At(pos) = Underscore /\ EndCmd(cmd, pos + 1)
    <2>1. pos \in 1..Len(line)
      <3>1. At(pos) # NUL
        BY <1>2
      <3>2. QED
        BY ONLY <3>1, IInv, LineType, AtInLine
    <2>2. pos + 1 \in pos..(Len(line) + 1)
      BY <2>1, Numbers
    <2>3. cmd \in Slot
      BY DEF IInv, TypeOK
    <2>4. cmd.kind = "read" /\ (cmd.rd_len > 0 => cmd.rd_fmt # FMT_NONE)
      BY <1>0 DEF IInv, PhaseInv
    <2>5. 5 * Len(cmds) + Len(pool) + 5 <= (pos + 1) - base
      BY <1>0, CostStep
    <2>6. QED
      BY <1>0, <1>2, <2>2, <2>3, <2>4, <2>5, EndCmdKeepsInv
  <1>3. QED
    BY <1>1, <1>2 DEF ReadClose

-----------------------------------------------------------------------------
(* Special commands and the entry. *)

LEMMA SpecialDoneKeepsInv ==
    ASSUME IInv, pc = "special", NEW c \in Slot, NEW p \in pos..(Len(line) + 1),
           SpecialDone(c, p), c.kind \in {"gpio_out", "gpio_in", "help"},
           c.payload_off = 0, c.payload_len = 0
    PROVE  IInv'
  <1> USE DEF SpecialDone, input, scratch
  <1>0. cmds = <<>> /\ pool = <<>>
    BY DEF IInv, PhaseInv
  <1>1. /\ cmds' = <<c>> /\ Len(cmds') = 1 /\ cmds'[1] = c
        /\ Len(pool') = 0 /\ pool' = <<>>
    BY <1>0
  <1>2. TypeOK'
    <2>1. cmds' \in Seq(Slot)
      BY <1>1
    <2>2. Len(cmds') <= MAX_CMDS
      BY ONLY <1>1, LimitsType
    <2>3. QED
      BY <2>1, <2>2 DEF IInv, TypeOK
  <1>3. SlicesTile'
    <2>1. EndOf(0)' = 0
      BY DEF EndOf
    <2>2. EndOf(1)' = 0
      BY <1>1 DEF EndOf, SliceEnd
    <2>3. QED
      BY <1>1, <2>1, <2>2 DEF SlicesTile
  <1>4. PhaseInv'
    BY DEF PhaseInv
  <1>5. CostInv'
    BY <1>1 DEF CostInv, BytesCostText
  <1>6. CommandsWellFormed'
    BY <1>1 DEF CommandsWellFormed
  <1>7. QED
    BY <1>2, <1>3, <1>4, <1>5, <1>6 DEF IInv

\* A word that starts at pos ends within the line.
LEMMA WordInLine ==
    ASSUME IInv, NEW w \in Seq(1..255), Len(w) > 0, strprefix(pos, w)
    PROVE  pos + Len(w) \in pos..(Len(line) + 1)
  <1>1. Len(w) \in 1..Len(w)
    OBVIOUS
  <1>2. w[Len(w)] \in 1..255
    BY <1>1, ElementOfSeq
  <1>3. At(pos + Len(w) - 1) = w[Len(w)]
    BY <1>1 DEF strprefix
  <1>4. At(pos + Len(w) - 1) # NUL
    <2>1. \A x \in 1..255 : x # 0
      BY ONLY TRUE
    <2>2. w[Len(w)] # 0
      BY ONLY <1>2, <2>1
    <2>3. QED
      BY ONLY <1>3, <2>2 DEF NUL
  <1>5. pos \in Nat /\ Len(w) \in Nat
    BY Numbers
  <1>6. pos + Len(w) - 1 \in Int
    BY ONLY <1>5
  <1>7. pos + Len(w) - 1 \in 1..Len(line)
    BY ONLY <1>4, <1>6, IInv, LineType, AtInLine
  <1>8. QED
    BY ONLY <1>5, <1>7, IInv, Numbers

LEMMA SpecialInpKeepsInv == IInv /\ SpecialInp => IInv'
  <1> SUFFICES ASSUME IInv, SpecialInp
               PROVE  IInv'
    OBVIOUS
  <1> DEFINE c == [NoCmd EXCEPT !.kind = "gpio_in"]
  <1>0. pc = "special" /\ strprefix(pos, word_inp) /\ SpecialDone(c, pos + 3)
    BY DEF SpecialInp, IsWord
  <1>1. word_inp \in Seq(1..255) /\ Len(word_inp) = 3
    BY DEF word_inp
  <1>2. pos + 3 \in pos..(Len(line) + 1)
    <2>1. Len(word_inp) > 0
      BY <1>1
    <2>2. pos + Len(word_inp) \in pos..(Len(line) + 1)
      BY <1>0, <1>1, <2>1, WordInLine
    <2>3. QED
      BY <1>1, <2>2
  <1>3. c \in Slot /\ c.kind = "gpio_in" /\ c.payload_off = 0 /\ c.payload_len = 0
    BY NoCmdType DEF NoCmd, Slot
  <1> HIDE DEF c
  <1>4. QED
    BY <1>0, <1>2, <1>3, SpecialDoneKeepsInv

LEMMA SpecialHelpKeepsInv == IInv /\ SpecialHelp => IInv'
  <1> SUFFICES ASSUME IInv, SpecialHelp
               PROVE  IInv'
    OBVIOUS
  <1> DEFINE c == [NoCmd EXCEPT !.kind = "help"]
  <1>0. PICK w \in {word_help, word_ask} : IsWord(w) /\ SpecialDone(c, pos + Len(w))
    BY DEF SpecialHelp
  <1>1. pc = "special" /\ strprefix(pos, w)
    BY <1>0 DEF SpecialHelp, IsWord
  <1>2. w \in Seq(1..255) /\ Len(w) > 0
    <2>1. word_help \in Seq(1..255) /\ Len(word_help) > 0
      BY DEF word_help
    <2>2. word_ask \in Seq(1..255) /\ Len(word_ask) > 0
      BY DEF word_ask
    <2>3. QED
      BY <2>1, <2>2
  <1>3. pos + Len(w) \in pos..(Len(line) + 1)
    BY <1>1, <1>2, WordInLine
  <1>4. c \in Slot /\ c.kind = "help" /\ c.payload_off = 0 /\ c.payload_len = 0
    BY NoCmdType DEF NoCmd, Slot
  <1> HIDE DEF c
  <1>5. QED
    BY <1>0, <1>1, <1>3, <1>4, SpecialDoneKeepsInv

LEMMA SpecialUnknownKeepsInv == IInv /\ SpecialUnknown => IInv'
  <1> SUFFICES ASSUME IInv, SpecialUnknown
               PROVE  IInv'
    OBVIOUS
  <1>1. pc = "special" /\ Fail("unknown command")
    BY DEF SpecialUnknown
  <1>2. QED
    BY <1>1, FailStep

\* Eight bits make a byte.
LEMMA ByteOfBits ==
    ASSUME NEW b, \A k \in 0..7 : b[k] \in {0, 1}
    PROVE  ByteOf(b) \in Byte
  <1>1. /\ b[0] \in {0, 1} /\ b[1] \in {0, 1} /\ b[2] \in {0, 1} /\ b[3] \in {0, 1}
        /\ b[4] \in {0, 1} /\ b[5] \in {0, 1} /\ b[6] \in {0, 1} /\ b[7] \in {0, 1}
    OBVIOUS
  <1>2. QED
    BY ONLY <1>1 DEF ByteOf, Byte

\* A bit lies within the line, so a position after k of them does too.
LEMMA BitInLine ==
    ASSUME IInv, NEW i \in Nat, is_bin(At(pos + i))
    PROVE  pos + i \in 1..Len(line) /\ At(pos + i) - 48 \in {0, 1}
  <1>1. At(pos + i) \in {48, 49}
    BY DEF is_bin
  <1>2. At(pos + i) # NUL
    BY ONLY <1>1 DEF NUL
  <1>3. pos + i \in Int
    BY Numbers
  <1>4. pos + i \in 1..Len(line)
    BY ONLY <1>2, <1>3, IInv, LineType, AtInLine
  <1>5. At(pos + i) - 48 \in {0, 1}
    BY ONLY <1>1
  <1>6. QED
    BY <1>4, <1>5

\* The slot that parse_special fills for out_.
LEMMA OutSlot ==
    ASSUME NEW x, x \in Byte
    PROVE  LET c == [NoCmd EXCEPT !.kind = "gpio_out", !.gpio_byte = x]
           IN  c \in Slot /\ c.kind = "gpio_out" /\ c.payload_off = 0 /\ c.payload_len = 0
  <1> DEFINE c == [NoCmd EXCEPT !.kind = "gpio_out", !.gpio_byte = x]
  <1>1. c = [kind |-> "gpio_out", ctrl_byte |-> 0, internal_addr |-> 0, rd_len |-> 0,
             rd_fmt |-> FMT_NONE, payload_off |-> 0, payload_len |-> 0, gpio_byte |-> x]
    <2>1. c = [NoCmd EXCEPT !.kind = "gpio_out", !.gpio_byte = x]
      OBVIOUS
    <2> HIDE DEF c
    <2>2. QED
      BY ONLY <2>1 DEF NoCmd
  <1> HIDE DEF c
  <1>2. /\ 0 \in Byte /\ 0 \in 0..RD_COUNT_MAX
        /\ 0 \in 0..POOL_SIZE /\ 0 \in 0..PAYLOAD_MAX
    BY LimitsType DEF Byte, RD_COUNT_MAX
  <1>3. c \in Slot /\ c.kind = "gpio_out" /\ c.payload_off = 0 /\ c.payload_len = 0
    BY ONLY <1>1, <1>2, x \in Byte DEF Slot, FMT_NONE
  <1>4. QED
    BY <1>3 DEF c

LEMMA SpecialOutKeepsInv == IInv /\ SpecialOut => IInv'
  <1> SUFFICES ASSUME IInv, SpecialOut
               PROVE  IInv'
    OBVIOUS
  <1>0. pc = "special" /\ strprefix(pos, word_out)
    BY DEF SpecialOut
  <1>1. pos + 4 \in pos..(Len(line) + 1)
    <2>1. word_out \in Seq(1..255) /\ Len(word_out) = 4
      BY DEF word_out
    <2>2. Len(word_out) > 0
      BY <2>1
    <2>3. pos + Len(word_out) \in pos..(Len(line) + 1)
      BY <1>0, <2>1, <2>2, WordInLine
    <2>4. QED
      BY <2>1, <2>3
  <1>n. pos \in Nat
    BY Numbers
  <1>2. CASE \E i \in 0..7 :
                /\ \A k \in 0..(i - 1) : is_bin(At(pos + 4 + k))
                /\ FailAt(pos + 4 + i, "out_ requires 8 binary digits")
    <2>1. PICK i \in 0..7 : /\ \A k \in 0..(i - 1) : is_bin(At(pos + 4 + k))
                            /\ FailAt(pos + 4 + i, "out_ requires 8 binary digits")
      BY <1>2
    <2>2. CASE i = 0
      <3>1. pos + 4 + i = pos + 4
        BY <2>2, Numbers
      <3>2. QED
        BY <1>0, <1>1, <2>1, <3>1, FailKeepsInv
    <2>3. CASE i > 0
      <3>1. i - 1 \in 0..(i - 1)
        BY <2>3
      <3>2. is_bin(At(pos + 4 + (i - 1)))
        BY <2>1, <3>1
      <3>3. pos + 4 + (i - 1) = pos + (i + 3) /\ i + 3 \in Nat /\ pos + 4 + i = pos + (i + 3) + 1
        <4>1. \A m \in Nat, j \in 0..7 : m + 4 + (j - 1) = m + (j + 3) /\ j + 3 \in Nat
                                         /\ m + 4 + j = m + (j + 3) + 1
          BY ONLY TRUE
        <4>2. QED
          BY ONLY <1>n, <4>1, i \in 0..7
      <3>4. pos + (i + 3) \in 1..Len(line)
        BY <3>2, <3>3, BitInLine
      <3>5. pos + 4 + i \in pos..(Len(line) + 1)
        <4>1. \A m, q \in Nat, j \in 0..7 :
                  m + (j + 3) \in 1..q => m + (j + 3) + 1 \in m..(q + 1)
          BY ONLY TRUE
        <4>2. Len(line) \in Nat
          BY Numbers
        <4>3. QED
          BY ONLY <1>n, <3>3, <3>4, <4>1, <4>2, i \in 0..7
      <3>6. QED
        BY <1>0, <2>1, <3>5, FailKeepsInv
    <2>4. QED
      BY <2>2, <2>3
  <1>3. CASE \A k \in 0..7 : is_bin(At(pos + 4 + k))
    <2>1. \A k \in 0..7 : At(pos + 4 + k) - 48 \in {0, 1}
      <3>1. ASSUME NEW k \in 0..7
            PROVE  At(pos + 4 + k) - 48 \in {0, 1}
        <4>1. pos + 4 + k = pos + (4 + k) /\ 4 + k \in Nat
          <5>1. \A m \in Nat, j \in 0..7 : m + 4 + j = m + (4 + j) /\ 4 + j \in Nat
            BY ONLY TRUE
          <5>2. QED
            BY ONLY <1>n, <5>1, k \in 0..7
        <4>2. is_bin(At(pos + (4 + k)))
          BY <1>3, <4>1
        <4>3. QED
          BY <4>1, <4>2, BitInLine
      <3>2. QED
        BY <3>1
    <2>2. pos + 12 \in pos..(Len(line) + 1)
      <3>1. is_bin(At(pos + 4 + 7))
        BY <1>3
      <3>2. pos + 4 + 7 = pos + 11 /\ 11 \in Nat
        BY Numbers
      <3>3. pos + 11 \in 1..Len(line)
        BY <3>1, <3>2, BitInLine
      <3>4. QED
        BY <3>3, Numbers
    <2>3. CASE FailAt(pos + 12, "extra characters after out_xxxxxxxx")
      BY <1>0, <2>2, <2>3, FailKeepsInv
    <2> DEFINE c == [NoCmd EXCEPT !.kind = "gpio_out", !.gpio_byte = ByteOf(BitsAt(pos + 4))]
    <2>4. CASE SpecialDone(c, pos + 12)
      <3>1. ByteOf(BitsAt(pos + 4)) \in Byte
        BY <2>1, ByteOfBits DEF BitsAt
      <3>2. c \in Slot /\ c.kind = "gpio_out" /\ c.payload_off = 0 /\ c.payload_len = 0
        BY <3>1, OutSlot
      <3> HIDE DEF c
      <3>3. QED
        BY <1>0, <2>2, <2>4, <3>2, SpecialDoneKeepsInv
    <2>5. QED
      BY <1>3, <2>3, <2>4, FailKeepsInv DEF SpecialOut
  <1>4. QED
    BY <1>2, <1>3 DEF SpecialOut


\* A new call starts from an empty transaction, whatever the last one left.
LEMMA ParseKeepsInv ==
    ASSUME IInv, NEW l \in Seq(1..255), Parse(l)
    PROVE  IInv'
  <1>1. /\ line' = l /\ base' = 1 /\ pos' = 1 /\ pc' = "entry"
        /\ cmds' = <<>> /\ cmd' = NoCmd /\ pool' = <<>> /\ error_pos' = 0
        /\ UNCHANGED <<fmt, acc, digits, got>>
    BY DEF Parse, scratch
  <1>2. l \in Seq(1..255) /\ Len(l) \in Nat
    OBVIOUS
  <1>3. TypeOK'
    <2>1. cmds' \in Seq(Slot) /\ Len(cmds') <= MAX_CMDS /\ cmd' \in Slot
      BY <1>1, LimitsType, NoCmdType
    <2>2. pool' \in Seq(Byte) /\ Len(pool') <= POOL_SIZE
      BY <1>1, LimitsType
    <2>3. /\ fmt' \in Selector \cup {FMT_NONE} /\ acc' \in Nat
          /\ digits' \in 0..BYTE_BITS /\ got' \in Nat
      BY <1>1 DEF IInv, TypeOK
    <2>4. line' \in Seq(1..255) /\ base' \in 1..(Len(line') + 1) /\ pos' \in base'..(Len(line') + 1)
      BY <1>1, <1>2
    <2>5. pc' \in Labels /\ error_pos' \in 0..Len(line')
      BY <1>1, <1>2
    <2>6. pc' \notin {"bits", "addrByte"}
      BY <1>1
    <2>7. QED
      BY <2>1, <2>2, <2>3, <2>4, <2>5, <2>6 DEF TypeOK
  <1>4. SlicesTile'
    <2>1. EndOf(0)' = 0
      BY DEF EndOf
    <2>2. QED
      BY <1>1, <2>1 DEF SlicesTile
  <1>5. PhaseInv'
    BY <1>1 DEF PhaseInv
  <1>6. CostInv'
    <2>1. Floor' = 0
      BY <1>1 DEF Floor
    <2>2. QED
      BY <1>1, <2>1 DEF CostInv, BytesCostText
  <1>7. CommandsWellFormed'
    BY <1>1 DEF CommandsWellFormed
  <1>8. QED
    BY <1>3, <1>4, <1>5, <1>6, <1>7 DEF IInv

\* The first half of the induction: before the first call nothing is decoded.
LEMMA InitInv == Init => IInv
  <1> SUFFICES ASSUME Init
               PROVE  IInv
    OBVIOUS
  <1>1. /\ line = <<>> /\ base = 1 /\ pos = 1 /\ pc = "idle"
        /\ cmds = <<>> /\ cmd = NoCmd /\ pool = <<>> /\ error_pos = 0
        /\ fmt = FMT_NONE /\ acc = 0 /\ digits = 0 /\ got = 0
    BY DEF Init
  <1>2. TypeOK
    <2>1. cmds \in Seq(Slot) /\ Len(cmds) <= MAX_CMDS /\ cmd \in Slot
      BY <1>1, LimitsType, NoCmdType
    <2>2. pool \in Seq(Byte) /\ Len(pool) <= POOL_SIZE
      BY <1>1, LimitsType
    <2>3. line \in Seq(1..255) /\ Len(line) = 0
      BY <1>1
    <2>4. QED
      BY <1>1, <2>1, <2>2, <2>3 DEF TypeOK
  <1>3. SlicesTile
    <2>1. EndOf(0) = 0
      BY DEF EndOf
    <2>2. QED
      BY <1>1, <2>1 DEF SlicesTile
  <1>4. PhaseInv /\ CommandsWellFormed
    BY <1>1 DEF PhaseInv, CommandsWellFormed
  <1>5. CostInv
    <2>1. Floor = 0
      BY <1>1 DEF Floor
    <2>2. QED
      BY <1>1, <2>1 DEF CostInv, BytesCostText
  <1>6. QED
    BY <1>2, <1>3, <1>4, <1>5 DEF IInv

\* A stuttering step changes nothing the invariant reads.
LEMMA StutterKeepsInv ==
    ASSUME IInv, UNCHANGED vars
    PROVE  IInv'
  <1>1. UNCHANGED <<line, base, pos, pc, cmds, cmd, pool, error, error_pos,
                    fmt, acc, digits, got>>
    BY DEF vars
  <1>2. TypeOK'
    BY <1>1 DEF IInv, TypeOK
  <1>3. SlicesTile'
    BY <1>1 DEF IInv, SlicesTile, EndOf, SliceEnd
  <1>4. PhaseInv' /\ CommandsWellFormed'
    BY <1>1 DEF IInv, PhaseInv, CommandsWellFormed
  <1>5. CostInv'
    BY <1>1 DEF IInv, CostInv, BytesCostText, Floor
  <1>6. QED
    BY <1>2, <1>3, <1>4, <1>5 DEF IInv

\* The second half: every step of a call, and the next call, keep it.
LEMMA NextKeepsInv == IInv /\ [Next]_vars => IInv'
  <1> SUFFICES ASSUME IInv, [Next]_vars
               PROVE  IInv'
    OBVIOUS
  <1>1. CASE SkipBlank \/ Dispatch \/ Chain \/ BeginCmd
    BY <1>1, SkipBlankKeepsInv, DispatchKeepsInv, ChainKeepsInv, BeginCmdKeepsInv
  <1>2. CASE AddrSelector \/ AddrHex \/ AddrAscii \/ AddrBin
    BY <1>2, AddrSelectorKeepsInv, AddrHexKeepsInv, AddrAsciiKeepsInv, AddrBinKeepsInv
  <1>3. CASE PayloadHead \/ HexRun \/ BinRun \/ BinByte \/ AsciiRun
    BY <1>3, PayloadHeadKeepsInv, HexRunKeepsInv, BinRunKeepsInv, BinByteKeepsInv,
       AsciiRunKeepsInv
  <1>4. CASE ReadTail \/ ReadCount \/ ReadFormat \/ ReadClose
    BY <1>4, ReadTailKeepsInv, ReadCountKeepsInv, ReadFormatKeepsInv, ReadCloseKeepsInv
  <1>5. CASE SpecialOut \/ SpecialInp \/ SpecialHelp \/ SpecialUnknown
    BY <1>5, SpecialOutKeepsInv, SpecialInpKeepsInv, SpecialHelpKeepsInv,
       SpecialUnknownKeepsInv
  <1>6. CASE \E l \in LINES : Parse(l)
    BY <1>6, LinesAssumption, ParseKeepsInv
  <1>7. CASE UNCHANGED vars
    BY <1>7, StutterKeepsInv
  <1>8. QED
    BY <1>1, <1>2, <1>3, <1>4, <1>5, <1>6, <1>7 DEF Next, Step

-----------------------------------------------------------------------------
(* Where a line ends. *)

\* Before the parse is over there is no error, and a step that goes on sets none.
LEMMA GoesOnWithoutError ==
    ASSUME Step
    PROVE  /\ pc \notin Done /\ line' = line
           /\ pc' = "rejected" \/ error' = error
  <1> USE DEF input, txn, scratch, FailAt, Fail, Advance
  <1>1. CASE SkipBlank \/ Dispatch \/ Chain
    BY <1>1 DEF SkipBlank, Dispatch, Chain
  <1>2. CASE BeginCmd
    BY <1>2 DEF BeginCmd
  <1>3. CASE AddrSelector
    BY <1>3 DEF AddrSelector
  <1>4. CASE AddrHex \/ AddrAscii
    BY <1>4 DEF AddrHex, AddrAscii, StoreAddr
  <1>5. CASE AddrBin
    BY <1>5 DEF AddrBin, StoreAddr, ShiftBit
  <1>6. CASE PayloadHead
    BY <1>6 DEF PayloadHead, EndCmd
  <1>7. CASE HexRun
    BY <1>7 DEF HexRun, PushPayload, StoreByte, EndGroup
  <1>8. CASE BinRun
    BY <1>8 DEF BinRun, EndGroup
  <1>9. CASE BinByte
    BY <1>9 DEF BinByte, ShiftBit, PushPayload, StoreByte
  <1>10. CASE AsciiRun
    BY <1>10 DEF AsciiRun, PushPayload, StoreByte, EndGroup
  <1>11. CASE ReadTail
    BY <1>11 DEF ReadTail, EndCmd
  <1>12. CASE ReadCount
    BY <1>12, ZenonT(60) DEF ReadCount, CountDigit, CountTaken
  <1>13. CASE ReadFormat
    BY <1>13 DEF ReadFormat
  <1>14. CASE ReadClose
    BY <1>14 DEF ReadClose, EndCmd
  <1>15. CASE SpecialOut
    BY <1>15 DEF SpecialOut, SpecialDone
  <1>16. CASE SpecialInp \/ SpecialHelp \/ SpecialUnknown
    BY <1>16 DEF SpecialInp, SpecialHelp, SpecialUnknown, SpecialDone
  <1>17. QED
    BY <1>1, <1>2, <1>3, <1>4, <1>5, <1>6, <1>7, <1>8, <1>9, <1>10, <1>11, <1>12,
       <1>13, <1>14, <1>15, <1>16 DEF Step

\* Only two loops accept: the one over commands at the NUL, and parse_special
\* before a tail of blanks.
AcceptsChain == Chain /\ At(pos) = NUL /\ UNCHANGED <<pos, cmds>>

AcceptsSpecial ==
    /\ pc = "special"
    /\ \E c \in Slot, p \in pos..(Len(line) + 1) :
          /\ c.kind \in {"gpio_out", "gpio_in", "help"}
          /\ SpecialDone(c, p)
          /\ strtail_empty(p)

LEMMA SpecialAccepts ==
    ASSUME IInv, SpecialOut \/ SpecialInp \/ SpecialHelp, pc' = "accepted"
    PROVE  AcceptsSpecial
  <1>1. CASE SpecialOut
    <2> DEFINE c == [NoCmd EXCEPT !.kind = "gpio_out", !.gpio_byte = ByteOf(BitsAt(pos + 4))]
    <2>0. \A p, e : ~FailAt(p, e)
      BY DEF FailAt
    <2>1. /\ pc = "special" /\ strtail_empty(pos + 12) /\ SpecialDone(c, pos + 12)
          /\ \A k \in 0..7 : is_bin(At(pos + 4 + k))
      <3>1. pc = "special" /\ (\A k \in 0..7 : is_bin(At(pos + 4 + k)))
                           /\ ~FailAt(pos + 12, "extra characters after out_xxxxxxxx")
        BY <1>1, <2>0 DEF SpecialOut
      <3>2. ~\E i \in 0..7 : ~is_bin(At(pos + 4 + i))
        BY <3>1
      <3>3. \/ strtail_empty(pos + 12) /\ SpecialDone(c, pos + 12)
            \/ FailAt(pos + 12, "extra characters after out_xxxxxxxx")
        BY <1>1, <3>2, Zenon DEF SpecialOut
      <3>4. strtail_empty(pos + 12) /\ SpecialDone(c, pos + 12)
        BY <3>1, <3>3, Zenon
      <3>5. QED
        BY <3>1, <3>4, Zenon
    <2>2. \A k \in 0..7 : BitsAt(pos + 4)[k] \in {0, 1}
      <3> TAKE k \in 0..7
      <3>1. is_bin(At(pos + 4 + k))
        BY <2>1
      <3>2. QED
        BY <3>1 DEF is_bin, BitsAt
    <2>3. ByteOf(BitsAt(pos + 4)) \in Byte
      BY <2>2, ByteOfBits
    <2>4. c \in Slot /\ c.kind = "gpio_out"
      BY <2>3, OutSlot
    <2>5. pos + 12 \in pos..(Len(line) + 1)
      <3>1. is_bin(At(pos + 4 + 7))
        BY <2>1
      <3>2. pos + 4 + 7 = pos + 11
        BY Numbers
      <3>3. pos + 11 \in 1..Len(line)
        <4>1. 11 \in Nat /\ is_bin(At(pos + 11))
          BY <3>1, <3>2
        <4>2. QED
          BY <4>1, BitInLine
      <3>4. QED
        BY <3>3, Numbers
    <2> HIDE DEF c
    <2>6. QED
      BY <2>1, <2>4, <2>5 DEF AcceptsSpecial
  <1>2. CASE SpecialInp
    <2> DEFINE c == [NoCmd EXCEPT !.kind = "gpio_in"]
    <2>1. word_inp \in Seq(1..255) /\ Len(word_inp) = 3
      BY DEF word_inp
    <2>2. /\ pc = "special" /\ strprefix(pos, word_inp)
          /\ strtail_empty(pos + 3) /\ SpecialDone(c, pos + 3)
      BY <1>2, <2>1 DEF SpecialInp, IsWord
    <2>3. pos + Len(word_inp) \in pos..(Len(line) + 1)
      <3>1. Len(word_inp) > 0
        BY <2>1
      <3>2. QED
        BY <2>1, <2>2, <3>1, WordInLine
    <2>4. c \in Slot /\ c.kind = "gpio_in"
      BY NoCmdType DEF NoCmd, Slot
    <2> HIDE DEF c
    <2>5. QED
      BY <2>1, <2>2, <2>3, <2>4 DEF AcceptsSpecial
  <1>3. CASE SpecialHelp
    <2> DEFINE c == [NoCmd EXCEPT !.kind = "help"]
    <2>1. pc = "special"
      BY <1>3 DEF SpecialHelp
    <2>2. PICK w \in {word_help, word_ask} : IsWord(w) /\ SpecialDone(c, pos + Len(w))
      BY <1>3 DEF SpecialHelp
    <2>3. w \in Seq(1..255) /\ Len(w) > 0
      <3>1. word_help \in Seq(1..255) /\ Len(word_help) > 0
        BY DEF word_help
      <3>2. word_ask \in Seq(1..255) /\ Len(word_ask) > 0
        BY DEF word_ask
      <3>3. QED
        BY <3>1, <3>2
    <2>4. strprefix(pos, w) /\ strtail_empty(pos + Len(w))
      BY <2>2 DEF IsWord
    <2>5. pos + Len(w) \in pos..(Len(line) + 1)
      BY <2>3, <2>4, WordInLine
    <2>6. c \in Slot /\ c.kind = "help"
      BY NoCmdType DEF NoCmd, Slot
    <2> HIDE DEF c
    <2>7. QED
      BY <2>1, <2>2, <2>4, <2>5, <2>6 DEF AcceptsSpecial
  <1>4. QED
    BY <1>1, <1>2, <1>3

LEMMA AcceptingStep ==
    ASSUME IInv, Step, pc' = "accepted"
    PROVE  AcceptsChain \/ AcceptsSpecial
  <1> USE DEF FailAt, Fail, Advance
  <1>1. CASE Chain
    BY <1>1 DEF Chain, AcceptsChain, txn
  <1>2. CASE SpecialOut \/ SpecialInp \/ SpecialHelp
    BY <1>2, SpecialAccepts
  <1>3. ~SkipBlank /\ ~Dispatch /\ ~BeginCmd /\ ~AddrSelector
    BY DEF SkipBlank, Dispatch, BeginCmd, AddrSelector
  <1>4. ~AddrHex /\ ~AddrAscii /\ ~AddrBin
    BY DEF AddrHex, AddrAscii, AddrBin, StoreAddr, ShiftBit
  <1>5. ~PayloadHead /\ ~BinRun
    BY DEF PayloadHead, EndCmd, BinRun, EndGroup
  <1>6. ~HexRun /\ ~AsciiRun
    BY DEF HexRun, AsciiRun, PushPayload, StoreByte, EndGroup
  <1>7. ~BinByte
    BY DEF BinByte, ShiftBit, PushPayload, StoreByte
  <1>8. ~ReadTail /\ ~ReadCount /\ ~ReadFormat /\ ~ReadClose
    BY DEF ReadTail, ReadCount, CountDigit, CountTaken, ReadFormat, ReadClose, EndCmd
  <1>9. ~SpecialUnknown
    BY DEF SpecialUnknown
  <1>10. QED
    BY <1>1, <1>2, <1>3, <1>4, <1>5, <1>6, <1>7, <1>8, <1>9 DEF Step

\* An accepting step leaves nothing but blanks unread, and nothing after a chain.
LEMMA AcceptedAtEnd ==
    ASSUME IInv, Step, pc' = "accepted"
    PROVE  /\ \A k \in pos'..Len(line') : At(k)' \in Blank
           /\ cmds'[1].kind \in {"write", "read"} => pos' = Len(line') + 1
  <1>0. line' = line
    BY GoesOnWithoutError
  <1>1. CASE AcceptsChain
    <2>1. At(pos) = NUL /\ pos' = pos
      BY <1>1 DEF AcceptsChain
    <2>2. pos \notin 1..Len(line)
      <3>1. SUFFICES ASSUME pos \in 1..Len(line)
                     PROVE  FALSE
        OBVIOUS
      <3>2. line[pos] \in 1..255
        BY <3>1, LineType, ElementOfSeq
      <3>3. At(pos) = line[pos]
        BY <3>1 DEF At
      <3>4. QED
        BY <2>1, <3>2, <3>3
    <2>3. pos' = Len(line) + 1
      BY <2>1, <2>2, Numbers
    <2>4. QED
      BY <1>0, <2>3, Numbers
  <1>2. CASE AcceptsSpecial
    <2>1. PICK c \in Slot, p \in pos..(Len(line) + 1) :
             /\ c.kind \in {"gpio_out", "gpio_in", "help"}
             /\ SpecialDone(c, p)
             /\ strtail_empty(p)
      BY <1>2 DEF AcceptsSpecial
    <2>2. pos' = p /\ cmds' = Append(cmds, c)
      BY <2>1 DEF SpecialDone
    <2>3. cmds = <<>>
      BY <1>2 DEF AcceptsSpecial, IInv, PhaseInv
    <2>4. cmds'[1] = c
      BY <2>2, <2>3
    <2>5. \A k \in pos'..Len(line') : At(k)' \in Blank
      BY <1>0, <2>1, <2>2 DEF strtail_empty, At
    <2>6. QED
      BY <2>1, <2>4, <2>5
  <1>3. QED
    BY <1>1, <1>2, AcceptingStep

\* Nothing that ended well is touched until the next call.
LEMMA NextKeepsEnd == IInv /\ EndInv /\ [Next]_vars => EndInv'
  <1> SUFFICES ASSUME IInv, EndInv, [Next]_vars
               PROVE  EndInv'
    OBVIOUS
  <1>1. CASE Step
    <2>1. pc' # "rejected" => error' = "none"
      BY <1>1, GoesOnWithoutError DEF EndInv
    <2>2. WholeLineParsed'
      <3>1. SUFFICES ASSUME pc' = "accepted"
                     PROVE  /\ \A k \in pos'..Len(line') : At(k)' \in Blank
                            /\ cmds'[1].kind \in {"write", "read"} => pos' = Len(line') + 1
        BY <2>1 DEF WholeLineParsed
      <3>2. QED
        BY <1>1, <3>1, AcceptedAtEnd
    <2>3. QED
      BY <2>1, <2>2 DEF EndInv
  <1>2. CASE \E l \in LINES : Parse(l)
    BY <1>2 DEF Parse, EndInv, WholeLineParsed
  <1>3. CASE UNCHANGED vars
    BY <1>3 DEF vars, EndInv, WholeLineParsed, At
  <1>4. QED
    BY <1>1, <1>2, <1>3 DEF Next

-----------------------------------------------------------------------------
(* The theorems. *)

\* The inductive invariant holds throughout, for every set of lines and every
\* value of the limits in neo_parser.h.
THEOREM InvAlways == Spec => []IInv
  <1>1. Init => IInv
    BY InitInv
  <1>2. IInv /\ [Next]_vars => IInv'
    BY NextKeepsInv
  <1>3. QED
    BY <1>1, <1>2, PTL DEF Spec

\* The parser's state keeps its types, and its cursor never leaves the string.
THEOREM TypeCorrect == Spec => []TypeOK
  <1>1. IInv => TypeOK
    BY DEF IInv
  <1>2. QED
    BY <1>1, InvAlways, PTL

\* The payload slices tile the shared pool, so that a command's bytes are its own.
THEOREM SlicesAlwaysTile == Spec => []SlicesTile
  <1>1. IInv => SlicesTile
    BY DEF IInv
  <1>2. QED
    BY <1>1, InvAlways, PTL

\* Every decoded byte was paid for with text, so the text bounds what is decoded.
THEOREM BytesAlwaysCostText == Spec => []BytesCostText
  <1>1. IInv => BytesCostText
    BY DEF IInv, CostInv
  <1>2. QED
    BY <1>1, InvAlways, PTL

\* The executor is handed commands it can carry out: counted reads have a format,
\* only writes own payload bytes, a special command stands alone.
THEOREM CommandsAlwaysWellFormed == Spec => []CommandsWellFormed
  <1>1. IInv => CommandsWellFormed
    BY DEF IInv
  <1>2. QED
    BY <1>1, InvAlways, PTL

\* No tail of an accepted line is ever ignored: a chain of commands was read to
\* the NUL, a special command leaves nothing but blanks, and no error is reported.
THEOREM WholeLineAlwaysParsed == Spec => []WholeLineParsed
  <1>1. Init => EndInv
    BY DEF Init, EndInv, WholeLineParsed
  <1>2. IInv /\ EndInv /\ [Next]_vars => EndInv'
    BY NextKeepsEnd
  <1>3. EndInv => WholeLineParsed
    BY DEF EndInv
  <1>4. QED
    BY <1>1, <1>2, <1>3, InvAlways, PTL DEF Spec

-----------------------------------------------------------------------------
(* The prompt loop. *)

HIDE DEF Blank, RD_COUNT_MAX, BYTE_BITS, COUNT_DIGITS, Done, Labels, Decoding

-----------------------------------------------------------------------------
(* What is typed is a C string.                                              *)

Char == 1..255

LEMMA ConcatType ==
    ASSUME NEW s \in Seq(Char), NEW t \in Seq(Char)
    PROVE  s \o t \in Seq(Char)
  BY ConcatProperties

LEMMA GapType == ASSUME NEW g PROVE Gap(g) \in Seq(Char)
  <1>1. <<Underscore>> \in Seq(Char)
    BY DEF Char
  <1>2. <<>> \in Seq(Char)
    OBVIOUS
  <1>3. QED
    BY <1>1, <1>2, Zenon DEF Gap

LEMMA HexDigitType == ASSUME NEW d \in 0..15 PROVE HexDigit(d) \in Char
  BY DEF HexDigit, Char

LEMMA Hex2Type ==
    ASSUME NEW b \in Byte
    PROVE  Hex2(b) \in Seq(Char) /\ Len(Hex2(b)) = 2
  <1>1. b \div 16 \in 0..15 /\ b % 16 \in 0..15
    BY DEF Byte
  <1>2. HexDigit(b \div 16) \in Char /\ HexDigit(b % 16) \in Char
    BY <1>1, HexDigitType
  <1>3. QED
    BY <1>2 DEF Hex2

LEMMA BitType == ASSUME NEW b \in Byte, NEW w \in 1..128 PROVE Bit(b, w) \in Char
  <1>1. b \div w \in Int
    BY DEF Byte
  <1> DEFINE q == b \div w
  <1>2. q \in Int
    BY <1>1
  <1> HIDE DEF q
  <1>3. q % 2 \in 0..1
    BY <1>2
  <1>4. 48 + (q % 2) \in Char
    BY <1>3 DEF Char
  <1>5. QED
    BY <1>4 DEF Bit, q

LEMMA Bin8Type ==
    ASSUME NEW b \in Byte, NEW g
    PROVE  Bin8(b, g) \in Seq(Char)
  <1> DEFINE x == <<Bit(b, 128), Bit(b, 64), Bit(b, 32)>>
             y == <<Bit(b, 16), Bit(b, 8), Bit(b, 4), Bit(b, 2)>>
             z == <<Bit(b, 1)>>
  <1>1. \A w \in {1, 2, 4, 8, 16, 32, 64, 128} : Bit(b, w) \in Char
    BY BitType
  <1>2. x \in Seq(Char) /\ y \in Seq(Char) /\ z \in Seq(Char)
    BY <1>1
  <1>3. Gap(g) \in Seq(Char)
    BY GapType
  <1>4. Bin8(b, g) = x \o Gap(g) \o y \o Gap(g) \o z
    BY DEF Bin8
  <1> HIDE DEF x, y, z
  <1>5. x \o Gap(g) \in Seq(Char)
    BY <1>2, <1>3, ConcatType
  <1>6. (x \o Gap(g)) \o y \in Seq(Char)
    BY <1>2, <1>5, ConcatType
  <1>7. ((x \o Gap(g)) \o y) \o Gap(g) \in Seq(Char)
    BY <1>3, <1>6, ConcatType
  <1>8. QED
    BY <1>2, <1>4, <1>7, ConcatType

LEMMA SpellByteType ==
    ASSUME NEW f \in Selector, NEW b \in Byte, NEW g, f = ch_a => is_alnum_lat(b)
    PROVE  SpellByte(f, b, g) \in Seq(Char)
  <1>1. CASE f = ch_h
    BY <1>1, Hex2Type DEF SpellByte
  <1>2. CASE f = ch_b
    BY <1>2, Bin8Type DEF SpellByte
  <1>3. CASE f = ch_a
    BY <1>3 DEF SpellByte, is_alnum_lat, Char
  <1>4. QED
    BY <1>1, <1>2, <1>3

\* The bytes of a group, each spelled by itself.
ByteTexts(f, bytes, gap) == [k \in DOMAIN bytes |-> SpellByte(f, bytes[k], gap)]
Closing(f) == IF f = ch_a THEN <<Underscore>> ELSE <<>>

LEMMA ClosingType == ASSUME NEW f PROVE Closing(f) \in Seq(Char)
  <1>1. <<Underscore>> \in Seq(Char) /\ <<>> \in Seq(Char)
    BY DEF Char
  <1>2. QED
    BY <1>1, Zenon DEF Closing

LEMMA ByteTextsType ==
    ASSUME NEW f \in Selector, NEW bytes \in Seq(Byte), NEW g,
           f = ch_a => \A i \in DOMAIN bytes : is_alnum_lat(bytes[i])
    PROVE  /\ ByteTexts(f, bytes, g) \in Seq(Seq(Char))
           /\ Len(ByteTexts(f, bytes, g)) = Len(bytes)
  <1>1. DOMAIN bytes = 1..Len(bytes) /\ \A k \in 1..Len(bytes) : bytes[k] \in Byte
    BY ElementOfSeq
  <1>2. \A k \in DOMAIN bytes : SpellByte(f, bytes[k], g) \in Seq(Char)
    BY <1>1, SpellByteType
  <1>3. QED
    BY <1>1, <1>2 DEF ByteTexts

LEMMA SpellType ==
    ASSUME NEW f \in Selector, NEW bytes \in Seq(Byte), NEW g,
           f = ch_a => \A i \in DOMAIN bytes : is_alnum_lat(bytes[i])
    PROVE  Spell(f, bytes, g) \in Seq(Char)
  <1>1. <<f>> \in Seq(Char)
    BY DEF Char
  <1>2. FlattenSeq(ByteTexts(f, bytes, g)) \in Seq(Char)
    BY ByteTextsType, FlattenType
  <1>3. Spell(f, bytes, g) = <<f>> \o FlattenSeq(ByteTexts(f, bytes, g)) \o Closing(f)
    BY DEF Spell, ByteTexts, Closing
  <1>4. <<f>> \o FlattenSeq(ByteTexts(f, bytes, g)) \in Seq(Char)
    BY <1>1, <1>2, ConcatType
  <1>5. QED
    BY <1>3, <1>4, ClosingType, ConcatType

LEMMA DigitsType == ASSUME NEW n \in 0..RD_COUNT_MAX PROVE Digits(n) \in Seq(Char)
  <1>1. CASE n < 16
    <2>1. HexDigit(n) \in Char
      BY <1>1, HexDigitType DEF RD_COUNT_MAX
    <2>2. QED
      BY <1>1, <2>1 DEF Digits
  <1>2. CASE ~(n < 16) /\ n < 256
    <2>1. n \in Byte
      BY <1>2 DEF Byte, RD_COUNT_MAX
    <2>2. QED
      BY <1>2, <2>1, Hex2Type DEF Digits
  <1>3. CASE ~(n < 256)
    <2>1. n \div 256 \in 0..15 /\ n % 256 \in Byte
      BY DEF Byte, RD_COUNT_MAX
    <2>2. <<HexDigit(n \div 256)>> \in Seq(Char) /\ Hex2(n % 256) \in Seq(Char)
      BY <2>1, HexDigitType, Hex2Type, SMTT(30)
    <2>3. Digits(n) = <<HexDigit(n \div 256)>> \o Hex2(n % 256)
      BY <1>3 DEF Digits
    <2>4. QED
      BY <2>2, <2>3, ConcatType
  <1>4. n \in Int
    BY DEF RD_COUNT_MAX
  <1>5. QED
    BY <1>1, <1>2, <1>3, <1>4

LEMMA SpellReadType ==
    ASSUME NEW c \in Meaning
    PROVE  SpellRead(c) \in Seq(Char)
  <1>1. c.rd_len \in 0..RD_COUNT_MAX /\ c.rd_fmt \in Selector \cup {FMT_NONE}
    BY DEF Meaning
  <1> DEFINE d == Digits(c.rd_len)
             f == IF c.rd_fmt = FMT_NONE THEN <<>> ELSE <<c.rd_fmt>>
  <1>2. d \in Seq(Char)
    BY <1>1, DigitsType
  <1>3. f \in Seq(Char)
    <2>1. c.rd_fmt # FMT_NONE => c.rd_fmt \in Char
      BY <1>1 DEF Char
    <2>2. QED
      BY <2>1
  <1>4. <<ch_h>> \in Seq(Char) /\ <<Underscore>> \in Seq(Char)
    BY DEF Char
  <1>5. SpellRead(c) = IF ~c.counted THEN <<Underscore>> ELSE <<ch_h>> \o d \o f \o <<Underscore>>
    BY DEF SpellRead
  <1> HIDE DEF d, f
  <1>6. <<ch_h>> \o d \in Seq(Char)
    BY <1>2, <1>4, ConcatType
  <1>7. (<<ch_h>> \o d) \o f \in Seq(Char)
    BY <1>3, <1>6, ConcatType
  <1>8. ((<<ch_h>> \o d) \o f) \o <<Underscore>> \in Seq(Char)
    BY <1>4, <1>7, ConcatType
  <1>9. QED
    BY <1>4, <1>5, <1>8, Zenon

LEMMA SpellCmdType ==
    ASSUME NEW c \in Meaning, Grammatical(c)
    PROVE  SpellCmd(c) \in Seq(Char)
  <1>1. c.addr_fmt = ch_a => is_alnum_lat(c.internal_addr)
    BY DEF Grammatical
  <1>2. /\ c.ctrl_byte \in Byte /\ c.internal_addr \in Byte /\ c.addr_fmt \in Selector
        /\ c.groups \in Seq(Group)
    BY DEF Meaning, Byte
  <1> DEFINE g == [k \in DOMAIN c.groups |->
                      Spell(c.groups[k].fmt, c.groups[k].bytes, c.gap) \o Gap(c.gap)]
             a == Spell(c.addr_fmt, <<c.internal_addr>>, c.gap)
             r == IF c.kind = "read" THEN SpellRead(c) ELSE FlattenSeq(g)
             h == Hex2(c.ctrl_byte)
             x == Gap(c.gap)
  <1>3. g \in Seq(Seq(Char))
    <2>1. DOMAIN c.groups = 1..Len(c.groups) /\ Len(c.groups) \in Nat
      BY <1>2
    <2>2. ASSUME NEW k \in 1..Len(c.groups)
          PROVE  Spell(c.groups[k].fmt, c.groups[k].bytes, c.gap) \o Gap(c.gap) \in Seq(Char)
      <3> DEFINE p == c.groups[k]
      <3>1. p \in Group
        BY <1>2, ElementOfSeq
      <3>2. p.fmt = ch_a => \A i \in DOMAIN p.bytes : is_alnum_lat(p.bytes[i])
        BY <2>1 DEF Grammatical
      <3> HIDE DEF p
      <3>3. p.fmt \in Selector /\ p.bytes \in Seq(Byte)
        BY <3>1 DEF Group
      <3>4. Spell(p.fmt, p.bytes, c.gap) \in Seq(Char)
        BY <3>2, <3>3, SpellType
      <3>5. QED
        BY <3>4, GapType, ConcatType DEF p
    <2>3. QED
      BY <2>1, <2>2
  <1>4. a \in Seq(Char)
    <2> DEFINE s == <<c.internal_addr>>
    <2>1. s \in Seq(Byte) /\ Len(s) = 1 /\ s[1] = c.internal_addr
      BY <1>2
    <2>2. a = Spell(c.addr_fmt, s, c.gap)
      OBVIOUS
    <2> HIDE DEF s, a
    <2>3. c.addr_fmt = ch_a => \A i \in DOMAIN s : is_alnum_lat(s[i])
      BY <1>1, <2>1
    <2>4. QED
      BY <1>2, <2>1, <2>2, <2>3, SpellType
  <1>5. r \in Seq(Char)
    <2>1. SpellRead(c) \in Seq(Char)
      BY SpellReadType
    <2>2. FlattenSeq(g) \in Seq(Char)
      BY <1>3, FlattenType
    <2> HIDE DEF g
    <2>3. QED
      BY <2>1, <2>2, Zenon
  <1>6. h \in Seq(Char) /\ x \in Seq(Char) /\ <<ch_h>> \in Seq(Char)
    BY <1>2, Hex2Type, GapType DEF Char
  <1>7. SpellCmd(c) = <<ch_h>> \o h \o x \o a \o x \o r
    BY DEF SpellCmd
  <1> HIDE DEF g, a, r, h, x
  <1>8. <<ch_h>> \o h \in Seq(Char)
    BY <1>6, ConcatType
  <1>9. (<<ch_h>> \o h) \o x \in Seq(Char)
    BY <1>6, <1>8, ConcatType
  <1>10. ((<<ch_h>> \o h) \o x) \o a \in Seq(Char)
    BY <1>4, <1>9, ConcatType
  <1>11. (((<<ch_h>> \o h) \o x) \o a) \o x \in Seq(Char)
    BY <1>6, <1>10, ConcatType
  <1>12. QED
    BY <1>5, <1>7, <1>11, ConcatType

\* No NUL is typed, so the parser's view of the line is all of it.
LEMMA SpellTxnType ==
    ASSUME NEW t \in INTENTS
    PROVE  SpellTxn(t) \in Seq(Char)
  <1> DEFINE s == [k \in DOMAIN t |-> SpellCmd(t[k])]
  <1>1. t \in Seq(Meaning) /\ \A k \in DOMAIN t : Grammatical(t[k])
    BY CommandsAssumption
  <1>2. DOMAIN t = 1..Len(t) /\ \A k \in 1..Len(t) : SpellCmd(t[k]) \in Seq(Char)
    BY <1>1, ElementOfSeq, SpellCmdType
  <1>3. s \in Seq(Seq(Char))
    BY <1>1, <1>2
  <1>4. QED
    BY <1>3, FlattenType DEF SpellTxn

HIDE DEF Blank, Selector, RD_COUNT_MAX, BYTE_BITS, COUNT_DIGITS, Done, Labels, Decoding

-----------------------------------------------------------------------------
(* The text that is not consumed yet when the cursor is at p. *)

Ahead(p) == SubSeq(line, p, Len(line))

LEMMA AheadMeans ==
    ASSUME line \in Seq(Char), NEW p \in 1..(Len(line) + 1)
    PROVE  /\ Ahead(p) \in Seq(Char)
           /\ Len(Ahead(p)) = Len(line) - p + 1
           /\ \A k \in 1..Len(Ahead(p)) : Ahead(p)[k] = At(p + k - 1)
           /\ At(Len(line) + 1) = NUL
  <1> DEFINE e == p - 1
             d == Len(line) - p + 1
  <1>1. e \in Nat /\ d \in Nat /\ e + d <= Len(line) /\ e + d = Len(line) /\ e + 1 = p
    OBVIOUS
  <1>2. \A k \in 1..d : p + k - 1 = e + k /\ e + k \in 1..Len(line)
    OBVIOUS
  <1>3. d = Len(line) - p + 1 /\ Len(line) \in Nat
    OBVIOUS
  <1> HIDE DEF d, e
  <1>4. /\ SubSeq(line, e + 1, e + d) \in Seq(Char)
        /\ Len(SubSeq(line, e + 1, e + d)) = d
        /\ \A j \in 1..d : SubSeq(line, e + 1, e + d)[j] = line[e + j]
    BY <1>1, SliceMeans
  <1>5. \A k \in 1..d : At(p + k - 1) = line[e + k]
    BY <1>2 DEF At
  <1>6. At(Len(line) + 1) = NUL
    BY <1>3 DEF At
  <1>7. QED
    BY <1>1, <1>3, <1>4, <1>5, <1>6 DEF Ahead

LEMMA AheadCons ==
    ASSUME line \in Seq(Char), NEW p \in 1..(Len(line) + 1),
           NEW c \in Char, NEW r \in Seq(Char), Ahead(p) = Cons(c, r)
    PROVE  /\ At(p) = c
           /\ p + 1 \in 1..(Len(line) + 1)
           /\ Ahead(p + 1) = r
  <1>1. /\ Ahead(p) \in Seq(Char) /\ Len(Ahead(p)) = Len(r) + 1 /\ Ahead(p)[1] = c
        /\ \A j \in 1..Len(r) : Ahead(p)[j + 1] = r[j]
    BY ConsMeans DEF Cons
  <1>2. Len(r) \in Nat /\ Len(line) \in Nat
    OBVIOUS
  <1>3. /\ Len(Ahead(p)) = Len(line) - p + 1
        /\ \A k \in 1..Len(Ahead(p)) : Ahead(p)[k] = At(p + k - 1)
    BY AheadMeans
  <1>4. p + 1 \in 1..(Len(line) + 1)
    BY <1>1, <1>2, <1>3
  <1>5. At(p) = c
    <2>1. 1 \in 1..Len(Ahead(p)) /\ p + 1 - 1 = p
      BY <1>1, <1>2
    <2>2. Ahead(p)[1] = At(p + 1 - 1)
      BY <1>3, <2>1
    <2>3. QED
      BY <1>1, <2>1, <2>2
  <1>6. /\ Ahead(p + 1) \in Seq(Char)
        /\ Len(Ahead(p + 1)) = Len(line) - (p + 1) + 1
        /\ \A k \in 1..Len(Ahead(p + 1)) : Ahead(p + 1)[k] = At((p + 1) + k - 1)
    BY <1>4, AheadMeans
  <1>7. \A k \in 1..Len(Ahead(p + 1)) : Ahead(p + 1)[k] = r[k]
    <2> TAKE k \in 1..Len(Ahead(p + 1))
    <2>1. k \in 1..Len(r) /\ k + 1 \in 1..Len(Ahead(p)) /\ (p + 1) + k - 1 = p + (k + 1) - 1
      BY <1>1, <1>2, <1>3, <1>6
    <2>2. Ahead(p)[k + 1] = At(p + (k + 1) - 1)
      BY <1>3, <2>1
    <2>3. Ahead(p + 1)[k] = At((p + 1) + k - 1)
      BY <1>6
    <2>4. QED
      BY <1>1, <2>1, <2>2, <2>3
  <1>8. Len(Ahead(p + 1)) = Len(r)
    BY <1>1, <1>2, <1>3, <1>6
  <1>9. Ahead(p + 1) = r
    BY <1>6, <1>7, <1>8, SeqEqual
  <1>10. QED
    BY <1>4, <1>5, <1>9

LEMMA AheadNone ==
    ASSUME line \in Seq(Char), NEW p \in 1..(Len(line) + 1), Ahead(p) = <<>>
    PROVE  At(p) = NUL /\ p = Len(line) + 1
  <1>1. Len(Ahead(p)) = 0
    BY EmptySeq
  <1>2. p = Len(line) + 1
    BY <1>1, AheadMeans
  <1>3. QED
    BY <1>2, AheadMeans

\* Hex digits.
LEMMA HexDigitMeans ==
    ASSUME NEW d \in 0..15
    PROVE  /\ HexDigit(d) \in Char /\ is_hex(HexDigit(d)) /\ hex_val(HexDigit(d)) = d
           /\ HexDigit(d) = ch_A <=> d = 10
           /\ HexDigit(d) \in 48..51 <=> d \in 0..3
           /\ HexDigit(d) \notin {NUL, Underscore, ch_h, ch_b, ch_a}
  BY DEF HexDigit, Char, is_hex, hex_val

LEMMA NibblesOf ==
    ASSUME NEW b \in Byte
    PROVE  b \div 16 \in 0..15 /\ b % 16 \in 0..15 /\ 16 * (b \div 16) + (b % 16) = b
  <1> DEFINE q == b \div 16
             r == b % 16
  <1>1. b \in Nat /\ b <= 255
    BY DEF Byte
  <1>2. q \in Nat /\ r \in 0..15 /\ b = 16 * q + r
    BY <1>1, DivModMeans
  <1> HIDE DEF q, r
  <1>3. q \in 0..15
    BY <1>1, <1>2
  <1>4. QED
    BY <1>1, <1>2, <1>3 DEF q, r

LEMMA Hex2Cons ==
    ASSUME NEW b \in Byte, NEW r \in Seq(Char)
    PROVE  /\ Hex2(b) ++ r = Cons(HexDigit(b \div 16), Cons(HexDigit(b % 16), r))
           /\ HexDigit(b \div 16) \in Char /\ HexDigit(b % 16) \in Char
  <1> DEFINE x == HexDigit(b \div 16)
             y == HexDigit(b % 16)
  <1>1. x \in Char /\ y \in Char
    BY NibblesOf, HexDigitMeans
  <1>2. Hex2(b) = <<x, y>>
    BY DEF Hex2
  <1> HIDE DEF x, y
  <1>3. <<x, y>> = Cons(x, Cons(y, <<>>)) /\ <<>> \in Seq(Char)
    BY <1>1, PairCons
  <1>4. Cons(y, <<>>) \in Seq(Char)
    BY <1>1, <1>3, ConsType
  <1>5. Cons(x, Cons(y, <<>>)) ++ r = Cons(x, Cons(y, <<>>) ++ r)
    BY <1>1, <1>4, ConsCat
  <1>6. Cons(y, <<>>) ++ r = Cons(y, r)
    BY <1>1, ConsNone
  <1>7. QED
    BY <1>1, <1>2, <1>3, <1>5, <1>6 DEF x, y

LEMMA HexPair ==
    ASSUME NEW b \in Byte, NEW p,
           At(p) = HexDigit(b \div 16), At(p + 1) = HexDigit(b % 16)
    PROVE  /\ TwoHexAt(p) /\ HexByteAt(p) = b
           /\ At(p) = ch_A /\ At(p + 1) \in 48..51 <=> b \in 160..163
  <1> DEFINE q == b \div 16
             e == b % 16
  <1>1. q \in 0..15 /\ e \in 0..15 /\ 16 * q + e = b
    BY NibblesOf DEF Byte
  <1>2. At(p) = HexDigit(q) /\ At(p + 1) = HexDigit(e)
    OBVIOUS
  <1> HIDE DEF q, e
  <1>3. /\ is_hex(HexDigit(q)) /\ hex_val(HexDigit(q)) = q
        /\ HexDigit(q) = ch_A <=> q = 10
    BY <1>1, HexDigitMeans
  <1>4. /\ is_hex(HexDigit(e)) /\ hex_val(HexDigit(e)) = e
        /\ HexDigit(e) \in 48..51 <=> e \in 0..3
    BY <1>1, HexDigitMeans
  <1>5. TwoHexAt(p) /\ HexByteAt(p) = b
    BY <1>1, <1>2, <1>3, <1>4 DEF TwoHexAt, HexByteAt
  <1>6. At(p) = ch_A /\ At(p + 1) \in 48..51 <=> q = 10 /\ e \in 0..3
    BY <1>2, <1>3, <1>4
  <1>7. q = 10 /\ e \in 0..3 <=> b \in 160..163
    BY <1>1 DEF Byte
  <1>8. QED
    BY <1>5, <1>6, <1>7

LEMMA AheadHex2 ==
    ASSUME line \in Seq(Char), NEW p \in 1..(Len(line) + 1),
           NEW b \in Byte, NEW r \in Seq(Char), Ahead(p) = Hex2(b) ++ r
    PROVE  /\ TwoHexAt(p) /\ HexByteAt(p) = b
           /\ At(p) = ch_A /\ At(p + 1) \in 48..51 <=> b \in 160..163
           /\ p + 2 \in 1..(Len(line) + 1)
           /\ Ahead(p + 2) = r
  <1> DEFINE x == HexDigit(b \div 16)
             y == HexDigit(b % 16)
             s == Cons(y, r)
  <1>1. x \in Char /\ y \in Char /\ Ahead(p) = Cons(x, s)
    BY Hex2Cons
  <1>2. s \in Seq(Char)
    <2> HIDE DEF y
    <2>1. QED
      BY <1>1, ConsType
  <1>3. At(p) = x /\ p + 1 \in 1..(Len(line) + 1) /\ Ahead(p + 1) = s
    <2> HIDE DEF x, s
    <2>1. QED
      BY <1>1, <1>2, AheadCons
  <1>4. At(p + 1) = y /\ (p + 1) + 1 \in 1..(Len(line) + 1) /\ Ahead((p + 1) + 1) = r
    <2> HIDE DEF x, y
    <2>1. QED
      BY <1>1, <1>3, AheadCons
  <1>5. (p + 1) + 1 = p + 2
    OBVIOUS
  <1>6. /\ TwoHexAt(p) /\ HexByteAt(p) = b
        /\ At(p) = ch_A /\ At(p + 1) \in 48..51 <=> b \in 160..163
    BY <1>3, <1>4, HexPair
  <1>7. QED
    BY <1>3, <1>4, <1>5, <1>6

\* The start of a command, or what an 'h' and a byte could be taken for.
LEMMA StartSeen ==
    ASSUME line \in Seq(Char), NEW p \in 1..(Len(line) + 1),
           NEW b \in Byte, NEW r \in Seq(Char), Ahead(p) = Cons(ch_h, Hex2(b) ++ r)
    PROVE  /\ at_cmd_start(p) <=> b \in 160..163
           /\ At(p) = ch_h
           /\ HexByteAt(p + 1) = b
           /\ p + 3 \in 1..(Len(line) + 1)
           /\ Ahead(p + 3) = r
  <1> DEFINE s == Hex2(b) ++ r
             c == ch_h
             p1 == p + 1
  <1>1. s \in Seq(Char) /\ c \in Char
    BY Hex2Type, CatType DEF Char
  <1>2. At(p) = c /\ p1 \in 1..(Len(line) + 1) /\ Ahead(p1) = s
    <2> HIDE DEF s, c
    <2>1. Ahead(p) = Cons(c, s)
      BY DEF s, c
    <2>2. QED
      BY <1>1, <2>1, AheadCons
  <1>3. /\ HexByteAt(p1) = b
        /\ At(p1) = ch_A /\ At(p1 + 1) \in 48..51 <=> b \in 160..163
        /\ p1 + 2 \in 1..(Len(line) + 1)
        /\ Ahead(p1 + 2) = r
    <2>1. Ahead(p1) = Hex2(b) ++ r
      BY <1>2
    <2> HIDE DEF p1, s
    <2>2. QED
      BY <1>2, <2>1, AheadHex2
  <1>4. p1 = p + 1 /\ p1 + 1 = p + 2 /\ p1 + 2 = p + 3
    OBVIOUS
  <1> HIDE DEF p1, s
  <1>5. at_cmd_start(p) <=> b \in 160..163
    BY <1>2, <1>3, <1>4 DEF at_cmd_start
  <1>6. QED
    BY <1>2, <1>3, <1>4, <1>5

-----------------------------------------------------------------------------
(* The text of a command, from one part to the next. *)

LEMMA SpellText ==
    ASSUME NEW f \in Selector, NEW bytes \in Seq(Byte), NEW g,
           f = ch_a => \A i \in DOMAIN bytes : is_alnum_lat(bytes[i]),
           NEW y \in Seq(Char)
    PROVE  /\ Spell(f, bytes, g) ++ y
                = Cons(f, Onward(ByteTexts(f, bytes, g), 1) ++ (Closing(f) ++ y))
           /\ Onward(ByteTexts(f, bytes, g), 1) ++ (Closing(f) ++ y) \in Seq(Char)
  <1> DEFINE s == FlattenSeq(ByteTexts(f, bytes, g))
             h == <<f>>
             z == Closing(f)
  <1>1. f \in Char /\ h \in Seq(Char) /\ z \in Seq(Char)
    BY ClosingType DEF Char, Selector
  <1>2. ByteTexts(f, bytes, g) \in Seq(Seq(Char))
    BY ByteTextsType
  <1>3. s \in Seq(Char) /\ Onward(ByteTexts(f, bytes, g), 1) = s
    BY <1>2, FlattenType, OnwardEnds
  <1>4. Spell(f, bytes, g) = (h ++ s) ++ z
    BY DEF Spell, ByteTexts, Closing, ++
  <1> HIDE DEF s, z
  <1>5. h ++ (s ++ (z ++ y)) = Cons(f, s ++ (z ++ y))
    BY OneCat
  <1> HIDE DEF h
  <1>6. ((h ++ s) ++ z) ++ y = h ++ (s ++ (z ++ y))
    BY <1>1, <1>3, CatAssoc4
  <1>7. s ++ (z ++ y) \in Seq(Char)
    BY <1>1, <1>3, CatType
  <1>8. QED
    BY <1>3, <1>4, <1>5, <1>6, <1>7 DEF z

\* An address is a group of one byte.
LEMMA OneByteText ==
    ASSUME NEW f \in Selector, NEW b \in Byte, NEW g, f = ch_a => is_alnum_lat(b),
           NEW y \in Seq(Char)
    PROVE  /\ Spell(f, <<b>>, g) ++ y = Cons(f, SpellByte(f, b, g) ++ (Closing(f) ++ y))
           /\ SpellByte(f, b, g) ++ (Closing(f) ++ y) \in Seq(Char)
           /\ Closing(f) ++ y \in Seq(Char)
  <1> DEFINE s == <<b>>
             e == SpellByte(f, b, g)
             ss == ByteTexts(f, s, g)
  <1>1. s \in Seq(Byte) /\ Len(s) = 1 /\ s[1] = b /\ DOMAIN s = {1}
    OBVIOUS
  <1>2. e \in Seq(Char)
    BY SpellByteType
  <1>3. ss = <<e>>
    <2>1. ss = [k \in {1} |-> SpellByte(f, s[k], g)]
      BY <1>1 DEF ByteTexts
    <2>2. ss = [k \in {1} |-> e]
      BY <1>1, <2>1
    <2> HIDE DEF e, ss
    <2>3. [k \in {1} |-> e] = <<e>>
      <3>1. 1..1 = {1}
        OBVIOUS
      <3>2. QED
        BY <3>1
    <2>4. QED
      BY <2>2, <2>3
  <1>4. f = ch_a => \A i \in DOMAIN s : is_alnum_lat(s[i])
    BY <1>1
  <1> HIDE DEF s, e, ss
  <1>5. Onward(ss, 1) = e
    <2>1. <<e>> \in Seq(Seq(Char))
      BY <1>2
    <2>2. QED
      BY <1>2, <1>3, <2>1, OnwardEnds, FlattenOne
  <1>6. /\ Spell(f, s, g) ++ y = Cons(f, Onward(ss, 1) ++ (Closing(f) ++ y))
        /\ Onward(ss, 1) ++ (Closing(f) ++ y) \in Seq(Char)
    BY <1>1, <1>4, SpellText DEF ss
  <1>7. Closing(f) ++ y \in Seq(Char)
    BY ClosingType, CatType
  <1>8. QED
    BY <1>5, <1>6, <1>7 DEF s, e

\* The parts of a meaning that are used.
LEMMA MeaningFacts ==
    ASSUME NEW c \in Meaning, Grammatical(c)
    PROVE  /\ c.kind \in {"read", "write"} /\ c.ctrl_byte \in 160..163 /\ c.ctrl_byte \in Byte
           /\ c.kind = IF c.ctrl_byte \in {161, 163} THEN "read" ELSE "write"
           /\ c.addr_fmt \in Selector /\ c.internal_addr \in Byte
           /\ c.addr_fmt = ch_a => is_alnum_lat(c.internal_addr)
           /\ c.rd_len \in 0..RD_COUNT_MAX /\ c.rd_fmt \in Selector \cup {FMT_NONE}
           /\ c.groups \in Seq(Group) /\ Len(c.groups) \in Nat
           /\ DOMAIN c.groups = 1..Len(c.groups)
           /\ c.kind = "read" => c.groups = <<>>
           /\ c.kind = "write" => c.rd_len = 0 /\ c.rd_fmt = FMT_NONE
           /\ IF c.counted THEN c.rd_len \notin 160..163 /\ (c.rd_len > 0 => c.rd_fmt # FMT_NONE)
              ELSE c.rd_len = 0 /\ c.rd_fmt = FMT_NONE
  <1>1. /\ c.kind \in {"read", "write"} /\ c.ctrl_byte \in 160..163 /\ c.groups \in Seq(Group)
        /\ c.addr_fmt \in Selector /\ c.internal_addr \in Byte
        /\ c.rd_len \in 0..RD_COUNT_MAX /\ c.rd_fmt \in Selector \cup {FMT_NONE}
    BY DEF Meaning
  <1>2. c.ctrl_byte \in Byte
    BY <1>1 DEF Byte
  <1>3. Len(c.groups) \in Nat /\ DOMAIN c.groups = 1..Len(c.groups)
    BY <1>1
  <1>4. /\ c.kind = IF c.ctrl_byte \in {161, 163} THEN "read" ELSE "write"
        /\ c.addr_fmt = ch_a => is_alnum_lat(c.internal_addr)
        /\ IF c.kind = "write" THEN c.rd_len = 0 /\ c.rd_fmt = FMT_NONE ELSE c.groups = <<>>
        /\ IF c.counted THEN c.rd_len > 0 => c.rd_fmt # FMT_NONE
           ELSE c.rd_len = 0 /\ c.rd_fmt = FMT_NONE
        /\ c.counted => c.rd_len \notin 160..163
    BY DEF Grammatical, Spellable
  <1>5. QED
    BY <1>1, <1>2, <1>3, <1>4

LEMMA GroupFacts ==
    ASSUME NEW c \in Meaning, Grammatical(c), NEW k \in 1..Len(c.groups)
    PROVE  /\ c.groups[k].fmt \in Selector /\ c.groups[k].bytes \in Seq(Byte)
           /\ c.groups[k].bytes # <<>>
           /\ Len(c.groups[k].bytes) \in Nat /\ Len(c.groups[k].bytes) > 0
           /\ c.groups[k].fmt = ch_a =>
                 \A i \in DOMAIN c.groups[k].bytes : is_alnum_lat(c.groups[k].bytes[i])
           /\ c.groups[k].fmt = ch_h => c.groups[k].bytes[1] \notin 160..163
  <1> DEFINE p == c.groups[k]
  <1>1. c.groups \in Seq(Group) /\ DOMAIN c.groups = 1..Len(c.groups)
    BY MeaningFacts
  <1>2. p \in Group
    BY <1>1, ElementOfSeq
  <1>3. /\ p.bytes # <<>>
        /\ p.fmt = ch_a => \A i \in DOMAIN p.bytes : is_alnum_lat(p.bytes[i])
        /\ p.fmt = ch_h => p.bytes[1] \notin 160..163
    BY <1>1 DEF Grammatical, Spellable
  <1> HIDE DEF p
  <1>4. p.fmt \in Selector /\ p.bytes \in Seq(Byte)
    BY <1>2 DEF Group
  <1>5. Len(p.bytes) \in Nat /\ Len(p.bytes) > 0
    <2>1. Len(p.bytes) \in Nat /\ Len(p.bytes) # 0
      BY <1>3, <1>4, EmptySeq
    <2>2. QED
      BY <2>1
  <1>6. QED
    BY <1>3, <1>4, <1>5 DEF p

GroupTexts(c) == [k \in DOMAIN c.groups |-> Spell(c.groups[k].fmt, c.groups[k].bytes, c.gap) \o Gap(c.gap)]
GroupBytes(c) == [k \in DOMAIN c.groups |-> c.groups[k].bytes]

LEMMA GroupTextsType ==
    ASSUME NEW c \in Meaning, Grammatical(c)
    PROVE  /\ GroupTexts(c) \in Seq(Seq(Char)) /\ Len(GroupTexts(c)) = Len(c.groups)
           /\ GroupBytes(c) \in Seq(Seq(Byte)) /\ Len(GroupBytes(c)) = Len(c.groups)
           /\ \A k \in 1..Len(c.groups) :
                /\ GroupTexts(c)[k] = Spell(c.groups[k].fmt, c.groups[k].bytes, c.gap) ++ Gap(c.gap)
                /\ GroupBytes(c)[k] = c.groups[k].bytes
  <1>1. DOMAIN c.groups = 1..Len(c.groups) /\ Len(c.groups) \in Nat
    BY MeaningFacts
  <1>2. \A k \in 1..Len(c.groups) :
           Spell(c.groups[k].fmt, c.groups[k].bytes, c.gap) \o Gap(c.gap) \in Seq(Char)
    <2> TAKE k \in 1..Len(c.groups)
    <2> DEFINE p == c.groups[k]
    <2>1. p.fmt \in Selector /\ p.bytes \in Seq(Byte)
          /\ (p.fmt = ch_a => \A i \in DOMAIN p.bytes : is_alnum_lat(p.bytes[i]))
      BY GroupFacts
    <2> HIDE DEF p
    <2>2. Spell(p.fmt, p.bytes, c.gap) \in Seq(Char)
      BY <2>1, SpellType
    <2>3. QED
      BY <2>2, GapType, ConcatType DEF p
  <1>3. \A k \in 1..Len(c.groups) : c.groups[k].bytes \in Seq(Byte)
    BY GroupFacts
  <1>4. QED
    BY <1>1, <1>2, <1>3 DEF GroupTexts, GroupBytes, ++

\* A group, and what follows it.
LEMMA GroupText ==
    ASSUME NEW c \in Meaning, Grammatical(c), NEW g \in 1..Len(c.groups), NEW x \in Seq(Char)
    PROVE  LET p == c.groups[g]
               z == Onward(GroupTexts(c), g + 1) ++ x
               y == Gap(c.gap) ++ z
               r == Onward(ByteTexts(p.fmt, p.bytes, c.gap), 1) ++ (Closing(p.fmt) ++ y)
           IN  /\ Onward(GroupTexts(c), g) ++ x = Cons(p.fmt, r)
               /\ r \in Seq(Char) /\ y \in Seq(Char) /\ z \in Seq(Char)
  <1> DEFINE p == c.groups[g]
             o == Onward(GroupTexts(c), g + 1)
             z == o ++ x
             y == Gap(c.gap) ++ z
             r == Onward(ByteTexts(p.fmt, p.bytes, c.gap), 1) ++ (Closing(p.fmt) ++ y)
             s == Spell(p.fmt, p.bytes, c.gap)
             G == Gap(c.gap)
  <1>1. /\ GroupTexts(c) \in Seq(Seq(Char)) /\ Len(GroupTexts(c)) = Len(c.groups)
        /\ GroupTexts(c)[g] = s ++ G
    BY GroupTextsType
  <1>2. Len(c.groups) \in Nat /\ g \in 1..Len(GroupTexts(c)) /\ g + 1 \in 1..(Len(GroupTexts(c)) + 1)
    BY <1>1, MeaningFacts
  <1>3. p.fmt \in Selector /\ p.bytes \in Seq(Byte)
        /\ (p.fmt = ch_a => \A i \in DOMAIN p.bytes : is_alnum_lat(p.bytes[i]))
    BY GroupFacts
  <1>4. Onward(GroupTexts(c), g) = (s ++ G) ++ o
    BY <1>1, <1>2, OnwardCat
  <1>5. o \in Seq(Char)
    BY <1>1, <1>2, OnwardType
  <1>6. s \in Seq(Char) /\ G \in Seq(Char)
    <2> HIDE DEF p
    <2>1. QED
      BY <1>3, SpellType, GapType
  <1>7. z \in Seq(Char) /\ y \in Seq(Char)
    <2>1. z \in Seq(Char)
      BY <1>5, CatType
    <2> HIDE DEF z
    <2>2. QED
      BY <2>1, GapType, CatType
  <1>8. ((s ++ G) ++ o) ++ x = s ++ y
    <2> HIDE DEF s, G, o
    <2>1. ((s ++ G) ++ o) ++ x = s ++ (G ++ (o ++ x))
      BY <1>5, <1>6, CatAssoc4
    <2>2. QED
      BY <2>1 DEF G
  <1>9. s ++ y = Cons(p.fmt, r) /\ r \in Seq(Char)
    <2> DEFINE pf == p.fmt
               pb == p.bytes
               pg == c.gap
    <2> HIDE DEF pf, pb, pg, y
    <2>1. pf \in Selector /\ pb \in Seq(Byte)
          /\ (pf = ch_a => \A i \in DOMAIN pb : is_alnum_lat(pb[i]))
      BY <1>3 DEF pf, pb
    <2>2. /\ Spell(pf, pb, pg) ++ y
               = Cons(pf, Onward(ByteTexts(pf, pb, pg), 1) ++ (Closing(pf) ++ y))
          /\ Onward(ByteTexts(pf, pb, pg), 1) ++ (Closing(pf) ++ y) \in Seq(Char)
      BY <1>7, <2>1, SpellText
    <2>3. QED
      BY <2>2 DEF pf, pb, pg
  <1>10. QED
    BY <1>4, <1>7, <1>8, <1>9

-----------------------------------------------------------------------------
(* Bits. *)

LEMMA TripleCat ==
    ASSUME NEW a \in Char, NEW b \in Char, NEW c \in Char, NEW r \in Seq(Char)
    PROVE  <<a, b, c>> ++ r = Cons(a, Cons(b, Cons(c, r)))
  <1> DEFINE s == <<a>>
             t == <<b, c>>
             u == <<a, b, c>>
  <1>1. /\ s \in Seq(Char) /\ Len(s) = 1 /\ s[1] = a
        /\ t \in Seq(Char) /\ Len(t) = 2 /\ t[1] = b /\ t[2] = c
        /\ u \in Seq(Char) /\ Len(u) = 3 /\ u[1] = a /\ u[2] = b /\ u[3] = c
    OBVIOUS
  <1>2. t ++ r = Cons(b, Cons(c, r))
    <2>1. <<>> \in Seq(Char) /\ t = Cons(b, Cons(c, <<>>))
      BY PairCons
    <2>2. Cons(c, <<>>) \in Seq(Char)
      BY <2>1, ConsType
    <2>3. Cons(b, Cons(c, <<>>)) ++ r = Cons(b, Cons(c, <<>>) ++ r)
      BY <2>2, ConsCat
    <2>4. QED
      BY <2>1, <2>3, ConsNone
  <1>3. s ++ (t ++ r) = Cons(a, t ++ r)
    BY OneCat
  <1> HIDE DEF s, t, u
  <1>4. u = s \o t
    <2>1. /\ s \o t \in Seq(Char) /\ Len(s \o t) = Len(s) + Len(t)
          /\ \A i \in 1..(Len(s) + Len(t)) : (s \o t)[i] = IF i <= Len(s) THEN s[i] ELSE t[i - Len(s)]
      BY <1>1, ConcatProperties
    <2>2. Len(s \o t) = Len(u) /\ \A i \in 1..Len(u) : u[i] = (s \o t)[i]
      BY <1>1, <2>1
    <2>3. QED
      BY <1>1, <2>1, <2>2, SeqEqual
  <1>5. (s ++ t) ++ r = s ++ (t ++ r)
    BY <1>1, CatAssoc
  <1>6. u = s ++ t
    BY <1>4 DEF ++
  <1>7. QED
    BY <1>2, <1>3, <1>5, <1>6 DEF u

LEMMA QuadCat ==
    ASSUME NEW a \in Char, NEW b \in Char, NEW c \in Char, NEW d \in Char, NEW r \in Seq(Char)
    PROVE  <<a, b, c, d>> ++ r = Cons(a, Cons(b, Cons(c, Cons(d, r))))
  <1> DEFINE s == <<a>>
             t == <<b, c, d>>
             u == <<a, b, c, d>>
  <1>1. /\ s \in Seq(Char) /\ Len(s) = 1 /\ s[1] = a
        /\ t \in Seq(Char) /\ Len(t) = 3 /\ t[1] = b /\ t[2] = c /\ t[3] = d
        /\ u \in Seq(Char) /\ Len(u) = 4 /\ u[1] = a /\ u[2] = b /\ u[3] = c /\ u[4] = d
    OBVIOUS
  <1>2. t ++ r = Cons(b, Cons(c, Cons(d, r)))
    BY TripleCat
  <1>3. s ++ (t ++ r) = Cons(a, t ++ r)
    BY OneCat
  <1> HIDE DEF s, t, u
  <1>4. u = s \o t
    <2>1. /\ s \o t \in Seq(Char) /\ Len(s \o t) = Len(s) + Len(t)
          /\ \A i \in 1..(Len(s) + Len(t)) : (s \o t)[i] = IF i <= Len(s) THEN s[i] ELSE t[i - Len(s)]
      BY <1>1, ConcatProperties
    <2>2. Len(s \o t) = Len(u) /\ \A i \in 1..Len(u) : u[i] = (s \o t)[i]
      BY <1>1, <2>1
    <2>3. QED
      BY <1>1, <2>1, <2>2, SeqEqual
  <1>5. (s ++ t) ++ r = s ++ (t ++ r)
    BY <1>1, CatAssoc
  <1>6. u = s ++ t
    BY <1>4 DEF ++
  <1>7. QED
    BY <1>2, <1>3, <1>5, <1>6 DEF u

\* A binary byte from its d-th bit on, and then x.
BitsFrom7(b, gap, x) == Gap(gap) ++ Cons(Bit(b, 1), x)
BitsFrom6(b, gap, x) == Cons(Bit(b, 2), BitsFrom7(b, gap, x))
BitsFrom5(b, gap, x) == Cons(Bit(b, 4), BitsFrom6(b, gap, x))
BitsFrom4(b, gap, x) == Cons(Bit(b, 8), BitsFrom5(b, gap, x))
BitsFrom3(b, gap, x) == Gap(gap) ++ Cons(Bit(b, 16), BitsFrom4(b, gap, x))
BitsFrom2(b, gap, x) == Cons(Bit(b, 32), BitsFrom3(b, gap, x))
BitsFrom1(b, gap, x) == Cons(Bit(b, 64), BitsFrom2(b, gap, x))
BitsFrom0(b, gap, x) == Cons(Bit(b, 128), BitsFrom1(b, gap, x))

LEMMA BitTypes ==
    ASSUME NEW b \in Byte
    PROVE  \A w \in {1, 2, 4, 8, 16, 32, 64, 128} : Bit(b, w) \in Char
  BY BitType

LEMMA BitsFromType ==
    ASSUME NEW b \in Byte, NEW g, NEW x \in Seq(Char)
    PROVE  /\ BitsFrom0(b, g, x) \in Seq(Char) /\ BitsFrom1(b, g, x) \in Seq(Char)
           /\ BitsFrom2(b, g, x) \in Seq(Char) /\ BitsFrom3(b, g, x) \in Seq(Char)
           /\ BitsFrom4(b, g, x) \in Seq(Char) /\ BitsFrom5(b, g, x) \in Seq(Char)
           /\ BitsFrom6(b, g, x) \in Seq(Char) /\ BitsFrom7(b, g, x) \in Seq(Char)
           /\ Cons(Bit(b, 16), BitsFrom4(b, g, x)) \in Seq(Char)
           /\ Cons(Bit(b, 1), x) \in Seq(Char)
  <1>1. \A w \in {1, 2, 4, 8, 16, 32, 64, 128} : Bit(b, w) \in Char
    BY BitTypes
  <1>2. Gap(g) \in Seq(Char)
    BY GapType
  <1>3. Cons(Bit(b, 1), x) \in Seq(Char)
    BY <1>1, ConsType
  <1>4. BitsFrom7(b, g, x) \in Seq(Char)
    BY <1>2, <1>3, CatType DEF BitsFrom7
  <1>5. BitsFrom6(b, g, x) \in Seq(Char)
    BY <1>1, <1>4, ConsType DEF BitsFrom6
  <1>6. BitsFrom5(b, g, x) \in Seq(Char)
    BY <1>1, <1>5, ConsType DEF BitsFrom5
  <1>7. BitsFrom4(b, g, x) \in Seq(Char)
    BY <1>1, <1>6, ConsType DEF BitsFrom4
  <1>8. Cons(Bit(b, 16), BitsFrom4(b, g, x)) \in Seq(Char)
    BY <1>1, <1>7, ConsType
  <1>9. BitsFrom3(b, g, x) \in Seq(Char)
    BY <1>2, <1>8, CatType DEF BitsFrom3
  <1>10. BitsFrom2(b, g, x) \in Seq(Char)
    BY <1>1, <1>9, ConsType DEF BitsFrom2
  <1>11. BitsFrom1(b, g, x) \in Seq(Char)
    BY <1>1, <1>10, ConsType DEF BitsFrom1
  <1>12. BitsFrom0(b, g, x) \in Seq(Char)
    BY <1>1, <1>11, ConsType DEF BitsFrom0
  <1>13. QED
    BY <1>3, <1>4, <1>5, <1>6, <1>7, <1>8, <1>9, <1>10, <1>11, <1>12

LEMMA Bin8Text ==
    ASSUME NEW b \in Byte, NEW g, NEW x \in Seq(Char)
    PROVE  Bin8(b, g) ++ x = BitsFrom0(b, g, x)
  <1> DEFINE p == <<Bit(b, 128), Bit(b, 64), Bit(b, 32)>>
             q == <<Bit(b, 16), Bit(b, 8), Bit(b, 4), Bit(b, 2)>>
             r == <<Bit(b, 1)>>
             G == Gap(g)
  <1>1. \A w \in {1, 2, 4, 8, 16, 32, 64, 128} : Bit(b, w) \in Char
    BY BitTypes
  <1>2. p \in Seq(Char) /\ q \in Seq(Char) /\ r \in Seq(Char) /\ G \in Seq(Char)
    BY <1>1, GapType
  <1>3. Bin8(b, g) = (((p ++ G) ++ q) ++ G) ++ r
    BY DEF Bin8, ++
  <1>4. r ++ x = Cons(Bit(b, 1), x)
    BY OneCat
  <1>5. \A y \in Seq(Char) : /\ q ++ y = Cons(Bit(b, 16), Cons(Bit(b, 8), Cons(Bit(b, 4), Cons(Bit(b, 2), y))))
                             /\ p ++ y = Cons(Bit(b, 128), Cons(Bit(b, 64), Cons(Bit(b, 32), y)))
    BY <1>1, TripleCat, QuadCat
  <1> HIDE DEF p, q, r, G
  <1>6. ((((p ++ G) ++ q) ++ G) ++ r) ++ x = p ++ (G ++ (q ++ (G ++ (r ++ x))))
    <2> DEFINE o == (p ++ G) ++ q
               y == r ++ x
               z == G ++ y
    <2>1. p ++ G \in Seq(Char) /\ y \in Seq(Char)
      BY <1>2, CatType
    <2>2. o \in Seq(Char)
      BY <1>2, <2>1, CatType
    <2>3. z \in Seq(Char)
      <3> HIDE DEF y
      <3>1. QED
        BY <1>2, <2>1, CatType
    <2>4. ((o ++ G) ++ r) ++ x = o ++ (G ++ (r ++ x))
      <3> HIDE DEF o
      <3>1. QED
        BY <1>2, <2>2, CatAssoc4
    <2>5. ((p ++ G) ++ q) ++ z = p ++ (G ++ (q ++ z))
      <3> HIDE DEF z
      <3>1. QED
        BY <1>2, <2>3, CatAssoc4
    <2>6. QED
      BY <2>4, <2>5
  <1>7. G ++ (r ++ x) = BitsFrom7(b, g, x) /\ BitsFrom7(b, g, x) \in Seq(Char)
    BY <1>4, BitsFromType DEF BitsFrom7, G
  <1>8. G ++ (q ++ BitsFrom7(b, g, x)) = BitsFrom3(b, g, x) /\ BitsFrom3(b, g, x) \in Seq(Char)
    BY <1>5, <1>7, BitsFromType DEF BitsFrom3, BitsFrom4, BitsFrom5, BitsFrom6, G
  <1>9. p ++ BitsFrom3(b, g, x) = BitsFrom0(b, g, x)
    BY <1>5, <1>8 DEF BitsFrom0, BitsFrom1, BitsFrom2
  <1>10. QED
    BY <1>3, <1>6, <1>7, <1>8, <1>9

BitsFrom(b, gap, x, d) ==
    CASE d = 0 -> BitsFrom0(b, gap, x) [] d = 1 -> BitsFrom1(b, gap, x)
      [] d = 2 -> BitsFrom2(b, gap, x) [] d = 3 -> BitsFrom3(b, gap, x)
      [] d = 4 -> BitsFrom4(b, gap, x) [] d = 5 -> BitsFrom5(b, gap, x)
      [] d = 6 -> BitsFrom6(b, gap, x) [] d = 7 -> BitsFrom7(b, gap, x)
      [] d = 8 -> x

\* 2^(8-d), by which a byte loses the bits that are not read yet.
Weight(d) ==
    CASE d = 0 -> 256 [] d = 1 -> 128 [] d = 2 -> 64 [] d = 3 -> 32 [] d = 4 -> 16
      [] d = 5 -> 8 [] d = 6 -> 4 [] d = 7 -> 2 [] d = 8 -> 1

\* One more bit of b.
LEMMA BitNext ==
    ASSUME NEW b \in Byte, NEW d \in 0..7
    PROVE  /\ (2 * (b \div Weight(d)) + (Bit(b, Weight(d + 1)) - 48)) % 256 = b \div Weight(d + 1)
           /\ is_bin(Bit(b, Weight(d + 1))) /\ Bit(b, Weight(d + 1)) \in Char
           /\ Bit(b, Weight(d + 1)) # Underscore
  <1>1. \A w \in {1, 2, 4, 8, 16, 32, 64, 128} :
          /\ 2 * (b \div (2 * w)) + ((b \div w) % 2) = b \div w
          /\ b \div w \in 0..255 /\ (b \div w) % 2 \in {0, 1}
    BY DEF Byte
  <1>2. PICK w \in {1, 2, 4, 8, 16, 32, 64, 128} : Weight(d + 1) = w /\ Weight(d) = 2 * w
    BY DEF Weight
  <1> DEFINE q == b \div w
             e == q % 2
             h == b \div (2 * w)
  <1>3. 2 * h + e = q /\ q \in 0..255 /\ e \in {0, 1}
    BY <1>1
  <1>4. Bit(b, w) = 48 + e
    BY DEF Bit
  <1> HIDE DEF q, e, h
  <1>5. 2 * h + ((48 + e) - 48) = q
    BY <1>3 DEF h, Byte
  <1>6. q % 256 = q
    BY <1>3
  <1>7. is_bin(48 + e) /\ 48 + e \in Char /\ 48 + e # Underscore
    BY <1>3 DEF is_bin, Char
  <1>8. QED
    BY <1>2, <1>4, <1>5, <1>6, <1>7 DEF q, h

-----------------------------------------------------------------------------
(* Counts. *)

Place(k) == CASE k = 0 -> 1 [] k = 1 -> 16 [] k = 2 -> 256 [] k = 3 -> 4096
CountDigitOf(n, k) == HexDigit((n \div Place(k - 1)) % 16)
CountLength(n) == IF n < 16 THEN 1 ELSE IF n < 256 THEN 2 ELSE 3

\* The last k digits of a count, and then x.
CountFrom1(n, x) == Cons(CountDigitOf(n, 1), x)
CountFrom2(n, x) == Cons(CountDigitOf(n, 2), CountFrom1(n, x))
CountFrom3(n, x) == Cons(CountDigitOf(n, 3), CountFrom2(n, x))
CountFrom(n, k, x) ==
    CASE k = 0 -> x [] k = 1 -> CountFrom1(n, x) [] k = 2 -> CountFrom2(n, x)
      [] k = 3 -> CountFrom3(n, x)

LEMMA CountDigitMeans ==
    ASSUME NEW n \in 0..RD_COUNT_MAX, NEW k \in 1..3
    PROVE  /\ (n \div Place(k - 1)) % 16 \in 0..15
           /\ 16 * (n \div Place(k)) + ((n \div Place(k - 1)) % 16) = n \div Place(k - 1)
           /\ CountDigitOf(n, k) \in Char /\ is_hex(CountDigitOf(n, k))
           /\ hex_val(CountDigitOf(n, k)) = (n \div Place(k - 1)) % 16
  <1>1. PICK w \in {1, 16, 256} : Place(k - 1) = w /\ Place(k) = 16 * w
    BY DEF Place
  <1>2. \A v \in {1, 16, 256} :
          /\ 16 * (n \div (16 * v)) + ((n \div v) % 16) = n \div v
          /\ (n \div v) % 16 \in 0..15
    BY DEF RD_COUNT_MAX
  <1>3. /\ (n \div Place(k - 1)) % 16 \in 0..15
        /\ 16 * (n \div Place(k)) + ((n \div Place(k - 1)) % 16) = n \div Place(k - 1)
    BY <1>1, <1>2
  <1> DEFINE e == (n \div Place(k - 1)) % 16
  <1>4. e \in 0..15 /\ CountDigitOf(n, k) = HexDigit(e)
    BY <1>3 DEF CountDigitOf
  <1> HIDE DEF e
  <1>5. HexDigit(e) \in Char /\ is_hex(HexDigit(e)) /\ hex_val(HexDigit(e)) = e
    BY <1>4, HexDigitMeans
  <1>6. QED
    BY <1>3, <1>4, <1>5 DEF e

LEMMA CountFromType ==
    ASSUME NEW n \in 0..RD_COUNT_MAX, NEW x \in Seq(Char)
    PROVE  /\ CountFrom1(n, x) \in Seq(Char) /\ CountFrom2(n, x) \in Seq(Char)
           /\ CountFrom3(n, x) \in Seq(Char)
           /\ \A k \in 0..3 : CountFrom(n, k, x) \in Seq(Char)
  <1>1. \A k \in {1, 2, 3} : CountDigitOf(n, k) \in Char
    BY CountDigitMeans
  <1>2. CountFrom1(n, x) \in Seq(Char)
    BY <1>1, ConsType DEF CountFrom1
  <1>3. CountFrom2(n, x) \in Seq(Char)
    BY <1>1, <1>2, ConsType DEF CountFrom2
  <1>4. CountFrom3(n, x) \in Seq(Char)
    BY <1>1, <1>3, ConsType DEF CountFrom3
  <1>5. QED
    BY <1>2, <1>3, <1>4 DEF CountFrom

LEMMA DigitsText ==
    ASSUME NEW n \in 0..RD_COUNT_MAX, NEW x \in Seq(Char)
    PROVE  /\ Digits(n) ++ x = CountFrom(n, CountLength(n), x)
           /\ n \div Place(CountLength(n)) = 0
           /\ CountLength(n) \in 1..3
  <1>1. CASE n < 16
    <2>1. Digits(n) = <<HexDigit(n)>> /\ CountLength(n) = 1 /\ n \in 0..15
      BY <1>1 DEF Digits, CountLength, RD_COUNT_MAX
    <2>2. n \div 1 = n /\ n % 16 = n /\ n \div 16 = 0
      BY <2>1
    <2>3. CountDigitOf(n, 1) = HexDigit(n)
      BY <2>2 DEF CountDigitOf, Place
    <2>4. QED
      BY <2>1, <2>2, <2>3, OneCat DEF CountFrom, CountFrom1, Place
  <1>2. CASE ~(n < 16) /\ n < 256
    <2>1. Digits(n) = Hex2(n) /\ CountLength(n) = 2 /\ n \in Byte
      BY <1>2 DEF Digits, CountLength, RD_COUNT_MAX, Byte
    <2>2. n \div 1 = n /\ (n \div 16) % 16 = n \div 16 /\ n \div 256 = 0
      BY <1>2, <2>1 DEF Byte
    <2>3. CountDigitOf(n, 1) = HexDigit(n % 16) /\ CountDigitOf(n, 2) = HexDigit(n \div 16)
      BY <2>2 DEF CountDigitOf, Place
    <2>4. Hex2(n) ++ x = Cons(HexDigit(n \div 16), Cons(HexDigit(n % 16), x))
      BY <2>1, Hex2Cons
    <2>5. QED
      BY <2>1, <2>2, <2>3, <2>4 DEF CountFrom, CountFrom1, CountFrom2, Place
  <1>3. CASE ~(n < 256)
    <2> DEFINE m == n % 256
               h == HexDigit(n \div 256)
    <2>1. Digits(n) = <<h>> \o Hex2(m) /\ CountLength(n) = 3
      BY <1>3 DEF Digits, CountLength, RD_COUNT_MAX
    <2>2. /\ n \div 1 = n /\ (n \div 16) % 16 = m \div 16 /\ n % 16 = m % 16
          /\ (n \div 256) % 16 = n \div 256 /\ n \div 4096 = 0 /\ n \div 256 \in 0..15
          /\ m \in Byte
      BY DEF RD_COUNT_MAX, Byte
    <2>3. /\ CountDigitOf(n, 1) = HexDigit(m % 16) /\ CountDigitOf(n, 2) = HexDigit(m \div 16)
          /\ CountDigitOf(n, 3) = h
      BY <2>2 DEF CountDigitOf, Place
    <2>6. h \in Char
      <3> DEFINE q == n \div 256
      <3>1. q \in 0..15 /\ h = HexDigit(q)
        BY <2>2
      <3> HIDE DEF q, h
      <3>2. QED
        BY <3>1, HexDigitMeans
    <2> HIDE DEF m, h
    <2>4. Hex2(m) ++ x = Cons(HexDigit(m \div 16), Cons(HexDigit(m % 16), x))
      BY <2>2, Hex2Cons
    <2>5. Hex2(m) \in Seq(Char)
      BY <2>2, Hex2Type
    <2>7. Digits(n) = Cons(h, Hex2(m))
      BY <2>1 DEF Cons
    <2>8. Cons(h, Hex2(m)) ++ x = Cons(h, Hex2(m) ++ x)
      BY <2>5, <2>6, ConsCat
    <2>9. n \div Place(3) = 0
      BY <2>2 DEF Place
    <2>10. CountFrom(n, 3, x) = Cons(h, Cons(HexDigit(m \div 16), Cons(HexDigit(m % 16), x)))
      BY <2>3 DEF CountFrom, CountFrom1, CountFrom2, CountFrom3
    <2>11. Digits(n) ++ x = CountFrom(n, 3, x)
      BY <2>4, <2>7, <2>8, <2>10
    <2>12. QED
      BY <2>1, <2>9, <2>11
  <1>4. n \in Int
    BY DEF RD_COUNT_MAX
  <1>5. QED
    BY <1>1, <1>2, <1>3, <1>4

-----------------------------------------------------------------------------
(* Commands. *)

FormatText(c) == IF c.rd_fmt = FMT_NONE THEN <<>> ELSE <<c.rd_fmt>>
BodyText(c) == IF c.kind = "read" THEN SpellRead(c) ELSE Onward(GroupTexts(c), 1)

LEMMA FormatCat ==
    ASSUME NEW c \in Meaning, Grammatical(c), NEW x \in Seq(Char)
    PROVE  /\ FormatText(c) \in Seq(Char) /\ FormatText(c) ++ x \in Seq(Char)
           /\ c.rd_fmt = FMT_NONE => FormatText(c) ++ x = x
           /\ c.rd_fmt # FMT_NONE => FormatText(c) ++ x = Cons(c.rd_fmt, x) /\ c.rd_fmt \in Char
  <1>1. CASE c.rd_fmt = FMT_NONE
    <2>1. FormatText(c) = <<>> /\ <<>> \in Seq(Char)
      BY <1>1 DEF FormatText
    <2>2. <<>> ++ x = x
      BY CatNone
    <2>3. QED
      BY <1>1, <2>1, <2>2
  <1>2. CASE c.rd_fmt # FMT_NONE
    <2>1. c.rd_fmt \in Char
      BY <1>2, MeaningFacts DEF Char, Selector
    <2> DEFINE f == c.rd_fmt
    <2>2. FormatText(c) = <<f>>
      BY <1>2 DEF FormatText
    <2> HIDE DEF f
    <2>3. <<f>> \in Seq(Char) /\ <<f>> ++ x = Cons(f, x)
      BY <2>1, OneType, OneCat DEF f
    <2>4. Cons(f, x) \in Seq(Char)
      BY <2>1, ConsType DEF f
    <2>5. QED
      BY <1>2, <2>1, <2>2, <2>3, <2>4 DEF f
  <1>3. QED
    BY <1>1, <1>2

LEMMA ReadText ==
    ASSUME NEW c \in Meaning, Grammatical(c), NEW x \in Seq(Char)
    PROVE  LET y == FormatText(c) ++ Cons(Underscore, x)
           IN  /\ Cons(Underscore, x) \in Seq(Char) /\ y \in Seq(Char)
               /\ ~c.counted => SpellRead(c) ++ x = Cons(Underscore, x)
               /\ c.counted => /\ SpellRead(c) ++ x
                                    = Cons(ch_h, CountFrom(c.rd_len, CountLength(c.rd_len), y))
                               /\ CountFrom(c.rd_len, CountLength(c.rd_len), y) \in Seq(Char)
  <1> DEFINE u == Underscore
             z == Cons(u, x)
             y == FormatText(c) ++ z
             h == ch_h
             d == Digits(c.rd_len)
             f == FormatText(c)
             l == <<u>>
             m == <<h>>
  <1>1. u \in Char /\ h \in Char /\ l \in Seq(Char) /\ m \in Seq(Char)
    BY OneType DEF Char
  <1>2. z \in Seq(Char)
    <2> HIDE DEF u
    <2>1. QED
      BY <1>1, ConsType
  <1>3. y \in Seq(Char) /\ f \in Seq(Char)
    <2> HIDE DEF z
    <2>1. QED
      BY <1>2, FormatCat
  <1>4. c.rd_len \in 0..RD_COUNT_MAX /\ d \in Seq(Char)
    BY MeaningFacts, DigitsType
  <1>5. ~c.counted => SpellRead(c) = l
    BY DEF SpellRead
  <1>6. c.counted => SpellRead(c) = ((m ++ d) ++ f) ++ l
    BY DEF SpellRead, FormatText, ++
  <1>7. l ++ x = z /\ m ++ (d ++ y) = Cons(h, d ++ y)
    BY OneCat
  <1>8. (((m ++ d) ++ f) ++ l) ++ x = m ++ (d ++ y)
    <2> DEFINE o == m ++ d
    <2> HIDE DEF m, d, f, l, z
    <2>1. o \in Seq(Char) /\ f ++ z \in Seq(Char)
      BY <1>1, <1>2, <1>3, <1>4, CatType
    <2>2. ((o ++ f) ++ l) ++ x = o ++ (f ++ (l ++ x))
      <3> HIDE DEF o
      <3>1. QED
        BY <1>1, <1>3, <2>1, CatAssoc4
    <2> DEFINE v == f ++ z
    <2>3. (m ++ d) ++ v = m ++ (d ++ v)
      <3> HIDE DEF v
      <3>1. v \in Seq(Char)
        BY <2>1 DEF v
      <3>2. QED
        BY <1>1, <1>4, <3>1, CatAssoc
    <2>4. QED
      BY <1>7, <2>2, <2>3 DEF f
  <1>9. d ++ y = CountFrom(c.rd_len, CountLength(c.rd_len), y) /\ CountLength(c.rd_len) \in 1..3
    <2> HIDE DEF y
    <2>1. QED
      BY <1>3, <1>4, DigitsText DEF d
  <1>10. CountFrom(c.rd_len, CountLength(c.rd_len), y) \in Seq(Char)
    <2> HIDE DEF y
    <2> DEFINE k == CountLength(c.rd_len)
               n == c.rd_len
    <2>1. k \in 0..3 /\ n \in 0..RD_COUNT_MAX
      BY <1>4, <1>9
    <2> HIDE DEF k, n
    <2>2. CountFrom(n, k, y) \in Seq(Char)
      BY <1>3, <2>1, CountFromType
    <2>3. QED
      BY <2>2 DEF k, n
  <1>11. QED
    BY <1>2, <1>3, <1>5, <1>6, <1>7, <1>8, <1>9, <1>10

LEMMA BodyType ==
    ASSUME NEW c \in Meaning, Grammatical(c), NEW x \in Seq(Char)
    PROVE  BodyText(c) \in Seq(Char) /\ BodyText(c) ++ x \in Seq(Char)
  <1>1. SpellRead(c) \in Seq(Char)
    BY SpellReadType
  <1>2. Onward(GroupTexts(c), 1) \in Seq(Char)
    <2>1. GroupTexts(c) \in Seq(Seq(Char)) /\ Len(GroupTexts(c)) \in Nat
      BY GroupTextsType, MeaningFacts
    <2>2. 1 \in 1..(Len(GroupTexts(c)) + 1)
      BY <2>1
    <2>3. QED
      BY <2>1, <2>2, OnwardType
  <1>3. BodyText(c) \in Seq(Char)
    BY <1>1, <1>2 DEF BodyText
  <1>4. QED
    BY <1>3, CatType

\* A command, and what follows it.
LEMMA CmdText ==
    ASSUME NEW c \in Meaning, Grammatical(c), NEW x \in Seq(Char)
    PROVE  LET w == Gap(c.gap) ++ (BodyText(c) ++ x)
               v == SpellByte(c.addr_fmt, c.internal_addr, c.gap) ++ (Closing(c.addr_fmt) ++ w)
               z == Gap(c.gap) ++ Cons(c.addr_fmt, v)
           IN  /\ SpellCmd(c) ++ x = Cons(ch_h, Hex2(c.ctrl_byte) ++ z)
               /\ Hex2(c.ctrl_byte) ++ z \in Seq(Char)
               /\ z \in Seq(Char) /\ v \in Seq(Char) /\ w \in Seq(Char)
               /\ Cons(c.addr_fmt, v) \in Seq(Char)
               /\ Closing(c.addr_fmt) ++ w \in Seq(Char)
  <1> DEFINE b == BodyText(c)
             bx == b ++ x
             w == Gap(c.gap) ++ bx
             f == c.addr_fmt
             i == c.internal_addr
             gap == c.gap
             v == SpellByte(f, i, gap) ++ (Closing(f) ++ w)
             av == Cons(f, v)
             z == Gap(c.gap) ++ av
             h == ch_h
             m == <<h>>
             d == Hex2(c.ctrl_byte)
             G == Gap(c.gap)
             a == Spell(f, <<i>>, gap)
  <1>1. b \in Seq(Char) /\ bx \in Seq(Char) /\ G \in Seq(Char) /\ w \in Seq(Char)
    <2>1. b \in Seq(Char) /\ bx \in Seq(Char) /\ G \in Seq(Char)
      BY BodyType, GapType
    <2> HIDE DEF bx
    <2>2. QED
      BY <2>1, CatType
  <1>2. f \in Selector /\ f \in Char /\ i \in Byte /\ (f = ch_a => is_alnum_lat(i))
    BY MeaningFacts DEF Char, Selector
  <1>3. a ++ w = av /\ v \in Seq(Char) /\ Closing(f) ++ w \in Seq(Char)
    <2> HIDE DEF f, i, gap, w
    <2>1. /\ Spell(f, <<i>>, gap) ++ w = Cons(f, SpellByte(f, i, gap) ++ (Closing(f) ++ w))
          /\ SpellByte(f, i, gap) ++ (Closing(f) ++ w) \in Seq(Char)
          /\ Closing(f) ++ w \in Seq(Char)
      BY <1>1, <1>2, OneByteText
    <2>2. QED
      BY <2>1
  <1>4. a \in Seq(Char)
    <2> DEFINE s == <<i>>
    <2>1. s \in Seq(Byte) /\ \A k \in DOMAIN s : s[k] = i
      BY <1>2
    <2> HIDE DEF s, f, gap
    <2>2. f = ch_a => \A k \in DOMAIN s : is_alnum_lat(s[k])
      BY <1>2, <2>1
    <2>3. Spell(f, s, gap) \in Seq(Char)
      BY <1>2, <2>1, <2>2, SpellType
    <2>4. QED
      BY <2>3 DEF s
  <1>5. av \in Seq(Char)
    <2> HIDE DEF f, v
    <2>1. QED
      BY <1>2, <1>3, ConsType
  <1>6. z \in Seq(Char)
    <2> HIDE DEF av
    <2>1. QED
      BY <1>1, <1>5, CatType
  <1>7. h \in Char /\ m \in Seq(Char) /\ d \in Seq(Char)
    BY OneType, MeaningFacts, Hex2Type DEF Char
  <1>8. SpellCmd(c) = ((((m ++ d) ++ G) ++ a) ++ G) ++ b
    <2>1. Onward(GroupTexts(c), 1) = FlattenSeq(GroupTexts(c))
      BY GroupTextsType, OnwardEnds
    <2>2. b = IF c.kind = "read" THEN SpellRead(c) ELSE FlattenSeq(GroupTexts(c))
      BY <2>1 DEF BodyText
    <2> HIDE DEF b
    <2>3. QED
      BY <2>2 DEF SpellCmd, ++, GroupTexts
  <1>9. (((((m ++ d) ++ G) ++ a) ++ G) ++ b) ++ x = m ++ (d ++ z)
    <2> DEFINE p == (m ++ d) ++ G
               o == p ++ a
    <2> HIDE DEF m, d, G, a, b
    <2>1. m ++ d \in Seq(Char) /\ p \in Seq(Char)
      <3>1. m ++ d \in Seq(Char)
        BY <1>7, CatType
      <3>2. QED
        BY <1>1, <3>1, CatType
    <2>2. o \in Seq(Char)
      <3> HIDE DEF p
      <3>1. QED
        BY <1>4, <2>1, CatType
    <2>3. ((o ++ G) ++ b) ++ x = o ++ w
      <3> HIDE DEF o
      <3>1. ((o ++ G) ++ b) ++ x = o ++ (G ++ (b ++ x))
        BY <1>1, <2>2, CatAssoc4
      <3>2. QED
        BY <3>1 DEF G
    <2>4. o ++ w = p ++ av
      <3> HIDE DEF p, w, av
      <3>1. (p ++ a) ++ w = p ++ (a ++ w)
        BY <1>1, <1>4, <2>1, CatAssoc
      <3>2. QED
        BY <1>3, <3>1
    <2>5. p ++ av = m ++ (d ++ z)
      <3> HIDE DEF av
      <3>1. ((m ++ d) ++ G) ++ av = m ++ (d ++ (G ++ av))
        BY <1>1, <1>5, <1>7, CatAssoc4
      <3>2. QED
        BY <3>1 DEF G
    <2>6. QED
      BY <2>3, <2>4, <2>5
  <1>10. m ++ (d ++ z) = Cons(h, d ++ z)
    BY OneCat
  <1>11. d ++ z \in Seq(Char)
    <2> HIDE DEF d, z
    <2>1. QED
      BY <1>6, <1>7, CatType
  <1>12. QED
    BY <1>1, <1>3, <1>5, <1>6, <1>8, <1>9, <1>10, <1>11

-----------------------------------------------------------------------------
(* Transactions. *)

CmdTexts(t) == [k \in DOMAIN t |-> SpellCmd(t[k])]
CmdBytes(t) == [k \in DOMAIN t |-> Data(t[k])]

LEMMA DataMeans ==
    ASSUME NEW c \in Meaning, Grammatical(c)
    PROVE  /\ Data(c) = FlattenSeq(GroupBytes(c)) /\ Data(c) \in Seq(Byte)
           /\ Data(c) = Onward(GroupBytes(c), 1)
           /\ c.kind = "read" => Data(c) = <<>>
  <1>1. Data(c) = FlattenSeq(GroupBytes(c))
    BY DEF Data, GroupBytes
  <1>2. GroupBytes(c) \in Seq(Seq(Byte)) /\ Len(GroupBytes(c)) = Len(c.groups)
    BY GroupTextsType
  <1>3. c.kind = "read" => GroupBytes(c) = <<>>
    <2>1. c.kind = "read" => c.groups = <<>>
      BY MeaningFacts
    <2>2. Len(<<>>) = 0
      OBVIOUS
    <2>3. QED
      BY <1>2, <2>1, <2>2, EmptySeq
  <1>4. QED
    BY <1>1, <1>2, <1>3, FlattenType, FlattenEmpty, OnwardEnds

LEMMA TxnFacts ==
    ASSUME NEW t \in INTENTS
    PROVE  /\ t \in Seq(Meaning) /\ Len(t) \in Nat /\ Len(t) > 0 /\ Len(t) <= MAX_CMDS
           /\ DOMAIN t = 1..Len(t)
           /\ \A k \in 1..Len(t) :
                t[k] \in Meaning /\ Grammatical(t[k]) /\ Len(Data(t[k])) <= PAYLOAD_MAX
  <1>1. t \in Seq(Meaning) /\ t # <<>> /\ \A k \in DOMAIN t : Grammatical(t[k])
    BY CommandsAssumption
  <1>2. Len(t) <= MAX_CMDS /\ \A k \in DOMAIN t : Len(Data(t[k])) <= PAYLOAD_MAX
    BY RoomAssumption
  <1>3. DOMAIN t = 1..Len(t) /\ Len(t) \in Nat /\ \A k \in 1..Len(t) : t[k] \in Meaning
    BY <1>1, ElementOfSeq
  <1>4. Len(t) # 0
    BY <1>1, EmptySeq
  <1>5. Len(t) > 0
    BY <1>3, <1>4
  <1>6. QED
    BY <1>1, <1>2, <1>3, <1>5

LEMMA TxnTexts ==
    ASSUME NEW t \in INTENTS
    PROVE  /\ CmdTexts(t) \in Seq(Seq(Char)) /\ Len(CmdTexts(t)) = Len(t)
           /\ CmdBytes(t) \in Seq(Seq(Byte)) /\ Len(CmdBytes(t)) = Len(t)
           /\ \A k \in 1..Len(t) : CmdTexts(t)[k] = SpellCmd(t[k]) /\ CmdBytes(t)[k] = Data(t[k])
           /\ FlattenSeq(CmdBytes(t)) \in Seq(Byte)
           /\ Len(FlattenSeq(CmdBytes(t))) <= POOL_SIZE
  <1>1. /\ DOMAIN t = 1..Len(t) /\ Len(t) \in Nat
        /\ \A k \in 1..Len(t) : t[k] \in Meaning /\ Grammatical(t[k])
    BY TxnFacts
  <1>2. \A k \in 1..Len(t) : SpellCmd(t[k]) \in Seq(Char) /\ Data(t[k]) \in Seq(Byte)
    BY <1>1, SpellCmdType, DataMeans
  <1>3. /\ CmdTexts(t) \in Seq(Seq(Char)) /\ Len(CmdTexts(t)) = Len(t)
        /\ \A k \in 1..Len(t) : CmdTexts(t)[k] = SpellCmd(t[k])
    BY <1>1, <1>2 DEF CmdTexts
  <1>4. /\ CmdBytes(t) \in Seq(Seq(Byte)) /\ Len(CmdBytes(t)) = Len(t)
        /\ \A k \in 1..Len(t) : CmdBytes(t)[k] = Data(t[k])
    BY <1>1, <1>2 DEF CmdBytes
  <1>5. Len(FlattenSeq(CmdBytes(t))) <= POOL_SIZE
    BY RoomAssumption DEF CmdBytes
  <1>6. QED
    BY <1>3, <1>4, <1>5, FlattenType

\* What can follow a command: another one, or the end.
NextCmd(x) == x = <<>> \/ \E b \in 160..163, r \in Seq(Char) : x = Cons(ch_h, Hex2(b) ++ r)

LEMMA CmdsOnward ==
    ASSUME NEW t \in INTENTS, NEW k \in 1..Len(t)
    PROVE  /\ Onward(CmdTexts(t), k) = SpellCmd(t[k]) ++ Onward(CmdTexts(t), k + 1)
           /\ Onward(CmdBytes(t), k) = Data(t[k]) ++ Onward(CmdBytes(t), k + 1)
  <1>1. /\ CmdTexts(t) \in Seq(Seq(Char)) /\ Len(CmdTexts(t)) = Len(t)
        /\ CmdBytes(t) \in Seq(Seq(Byte)) /\ Len(CmdBytes(t)) = Len(t)
        /\ CmdTexts(t)[k] = SpellCmd(t[k]) /\ CmdBytes(t)[k] = Data(t[k])
    BY TxnTexts
  <1>2. Onward(CmdTexts(t), k) = CmdTexts(t)[k] ++ Onward(CmdTexts(t), k + 1)
    BY <1>1, OnwardCat
  <1>3. Onward(CmdBytes(t), k) = CmdBytes(t)[k] ++ Onward(CmdBytes(t), k + 1)
    BY <1>1, OnwardCat
  <1>4. QED
    BY <1>1, <1>2, <1>3

LEMMA OnwardFacts ==
    ASSUME NEW t \in INTENTS, NEW k \in 1..(Len(t) + 1)
    PROVE  /\ Onward(CmdTexts(t), k) \in Seq(Char) /\ Onward(CmdBytes(t), k) \in Seq(Byte)
           /\ NextCmd(Onward(CmdTexts(t), k))
           /\ k = Len(t) + 1 => Onward(CmdTexts(t), k) = <<>> /\ Onward(CmdBytes(t), k) = <<>>
  <1>1. /\ CmdTexts(t) \in Seq(Seq(Char)) /\ Len(CmdTexts(t)) = Len(t)
        /\ CmdBytes(t) \in Seq(Seq(Byte)) /\ Len(CmdBytes(t)) = Len(t)
    BY TxnTexts
  <1>2. /\ \A j \in 1..(Len(t) + 1) : Onward(CmdTexts(t), j) \in Seq(Char)
        /\ Onward(CmdBytes(t), k) \in Seq(Byte)
    BY <1>1, OnwardType
  <1>3. CASE k = Len(t) + 1
    <2>1. Onward(CmdTexts(t), k) = <<>>
      BY <1>1, <1>3, OnwardEnds
    <2>2. Onward(CmdBytes(t), k) = <<>>
      BY <1>1, <1>3, OnwardEnds
    <2>3. QED
      BY <1>2, <2>1, <2>2 DEF NextCmd
  <1>4. CASE k # Len(t) + 1
    <2>0. Len(t) \in Nat
      BY TxnFacts
    <2>1. k \in 1..Len(t) /\ k + 1 \in 1..(Len(t) + 1)
      BY <1>4, <2>0
    <2> DEFINE c == t[k]
               x == Onward(CmdTexts(t), k + 1)
    <2>2. c \in Meaning /\ Grammatical(c) /\ x \in Seq(Char)
      BY <1>2, <2>1, TxnFacts
    <2>3. Onward(CmdTexts(t), k) = SpellCmd(c) ++ x
      BY <2>1, CmdsOnward
    <2> HIDE DEF c, x
    <2>4. PICK z \in Seq(Char) : SpellCmd(c) ++ x = Cons(ch_h, Hex2(c.ctrl_byte) ++ z)
      BY <2>2, CmdText
    <2>5. c.ctrl_byte \in 160..163
      BY <2>2, MeaningFacts
    <2>6. QED
      BY <1>2, <1>4, <2>3, <2>4, <2>5 DEF NextCmd
  <1>5. QED
    BY <1>3, <1>4

LEMMA CmdAhead ==
    ASSUME line \in Seq(Char), NEW p \in 1..(Len(line) + 1), NextCmd(Ahead(p))
    PROVE  \/ At(p) = NUL /\ Ahead(p) = <<>> /\ p = Len(line) + 1
           \/ At(p) = ch_h /\ at_cmd_start(p)
  <1>1. CASE Ahead(p) = <<>>
    BY <1>1, AheadNone
  <1>2. CASE \E b \in 160..163, r \in Seq(Char) : Ahead(p) = Cons(ch_h, Hex2(b) ++ r)
    <2>1. PICK b \in 160..163, r \in Seq(Char) : Ahead(p) = Cons(ch_h, Hex2(b) ++ r)
      BY <1>2
    <2>2. b \in Byte
      BY DEF Byte
    <2>3. QED
      BY <2>1, <2>2, StartSeen
  <1>3. QED
    BY <1>1, <1>2 DEF NextCmd

\* What is left to be read behind a group: nothing, or a selector first.
SelectorNext(z) == z = <<>> \/ \E f \in Selector, r \in Seq(Char) : z = Cons(f, r)

LEMMA NextCmdSelector ==
    ASSUME NEW x \in Seq(Char), NextCmd(x)
    PROVE  SelectorNext(x)
  <1>1. CASE x = <<>>
    BY <1>1 DEF SelectorNext
  <1>2. CASE \E b \in 160..163, r \in Seq(Char) : x = Cons(ch_h, Hex2(b) ++ r)
    <2>1. PICK b \in 160..163, r \in Seq(Char) : x = Cons(ch_h, Hex2(b) ++ r)
      BY <1>2
    <2>2. b \in Byte
      BY DEF Byte
    <2>3. Hex2(b) \in Seq(Char)
      BY <2>2, Hex2Type
    <2>4. Hex2(b) ++ r \in Seq(Char)
      BY <2>3, CatType
    <2>5. ch_h \in Selector
      BY DEF Selector
    <2>6. QED
      BY <2>1, <2>4, <2>5 DEF SelectorNext
  <1>3. QED
    BY <1>1, <1>2 DEF NextCmd

LEMMA GroupsAhead ==
    ASSUME NEW c \in Meaning, Grammatical(c), NEW g \in 1..(Len(c.groups) + 1),
           NEW x \in Seq(Char), NextCmd(x)
    PROVE  /\ Onward(GroupTexts(c), g) ++ x \in Seq(Char)
           /\ SelectorNext(Onward(GroupTexts(c), g) ++ x)
           /\ g = Len(c.groups) + 1 => Onward(GroupTexts(c), g) ++ x = x
           /\ Onward(GroupBytes(c), g) \in Seq(Byte)
           /\ g = Len(c.groups) + 1 => Onward(GroupBytes(c), g) = <<>>
           /\ g <= Len(c.groups) => Onward(GroupBytes(c), g) = c.groups[g].bytes ++ Onward(GroupBytes(c), g + 1)
  <1>0. Len(c.groups) \in Nat
    BY MeaningFacts
  <1>1. /\ GroupTexts(c) \in Seq(Seq(Char)) /\ Len(GroupTexts(c)) = Len(c.groups)
        /\ GroupBytes(c) \in Seq(Seq(Byte)) /\ Len(GroupBytes(c)) = Len(c.groups)
    BY GroupTextsType
  <1>2. Onward(GroupTexts(c), g) \in Seq(Char) /\ Onward(GroupBytes(c), g) \in Seq(Byte)
    BY <1>1, OnwardType
  <1>3. Onward(GroupTexts(c), g) ++ x \in Seq(Char)
    BY <1>2, CatType
  <1>4. CASE g = Len(c.groups) + 1
    <2>1. Onward(GroupTexts(c), g) = <<>>
      BY <1>1, <1>4, OnwardEnds
    <2>2. Onward(GroupBytes(c), g) = <<>>
      BY <1>1, <1>4, OnwardEnds
    <2>3. <<>> ++ x = x
      BY CatNone
    <2>4. QED
      BY <1>0, <1>2, <1>3, <1>4, <2>1, <2>2, <2>3, NextCmdSelector
  <1>5. CASE g # Len(c.groups) + 1
    <2>1. g \in 1..Len(c.groups)
      BY <1>0, <1>5
    <2>2. PICK r \in Seq(Char) : Onward(GroupTexts(c), g) ++ x = Cons(c.groups[g].fmt, r)
      BY <2>1, GroupText
    <2>3. c.groups[g].fmt \in Selector
      BY <2>1, GroupFacts
    <2>4. Onward(GroupBytes(c), g) = GroupBytes(c)[g] ++ Onward(GroupBytes(c), g + 1)
      BY <1>1, <2>1, OnwardCat
    <2>5. GroupBytes(c)[g] = c.groups[g].bytes
      BY <2>1, GroupTextsType
    <2>6. QED
      BY <1>2, <1>3, <1>5, <2>2, <2>3, <2>4, <2>5 DEF SelectorNext
  <1>6. QED
    BY <1>4, <1>5

LEMMA GapCat ==
    ASSUME NEW g, NEW z \in Seq(Char)
    PROVE  Gap(g) ++ z \in {z, Cons(Underscore, z)} /\ Gap(g) ++ z \in Seq(Char)
           /\ Cons(Underscore, z) \in Seq(Char)
  <1> DEFINE u == Underscore
  <1>1. u \in Char
    BY DEF Char
  <1>2. Gap(g) = <<>> \/ Gap(g) = <<u>>
    BY Zenon DEF Gap
  <1> HIDE DEF u
  <1>3. <<>> ++ z = z /\ <<u>> ++ z = Cons(u, z)
    BY CatNone, OneCat
  <1>4. Cons(u, z) \in Seq(Char)
    BY <1>1, ConsType
  <1>5. QED
    BY <1>2, <1>3, <1>4 DEF u

\* s is z, or z behind a separator.
MaybeGap(s, z) == s = z \/ s = Cons(Underscore, z)

\* What ends a hex or a binary run.
LEMMA SelectorAhead ==
    ASSUME line \in Seq(Char), NEW p \in 1..(Len(line) + 1), NEW z, SelectorNext(z), Ahead(p) = z
    PROVE  At(p) \in Selector \cup {NUL} /\ ~is_hex(At(p)) /\ ~is_bin(At(p)) /\ At(p) # Underscore
  <1>1. CASE z = <<>>
    BY <1>1, AheadNone DEF is_hex, is_bin
  <1>2. CASE \E f \in Selector, r \in Seq(Char) : z = Cons(f, r)
    <2>1. PICK f \in Selector, r \in Seq(Char) : z = Cons(f, r)
      BY <1>2
    <2>2. f \in Char
      BY DEF Selector, Char
    <2>3. At(p) = f
      BY <2>1, <2>2, AheadCons
    <2>4. QED
      BY <2>3 DEF Selector, is_hex, is_bin
  <1>3. QED
    BY <1>1, <1>2 DEF SelectorNext

LEMMA SeparatorAhead ==
    ASSUME line \in Seq(Char), NEW p \in 1..(Len(line) + 1), NEW r \in Seq(Char),
           Ahead(p) = Cons(Underscore, r)
    PROVE  /\ At(p) = Underscore /\ p + 1 \in 1..(Len(line) + 1) /\ Ahead(p + 1) = r
           /\ ~is_hex(At(p)) /\ ~is_bin(At(p)) /\ ~is_alnum_lat(At(p)) /\ At(p) \notin Selector
  <1> DEFINE u == Underscore
  <1>1. u \in Char /\ Ahead(p) = Cons(u, r)
    BY DEF Char
  <1>2. ~is_hex(u) /\ ~is_bin(u) /\ ~is_alnum_lat(u) /\ u \notin Selector
    BY DEF is_hex, is_bin, is_alnum_lat, Selector
  <1> HIDE DEF u
  <1>3. At(p) = u /\ p + 1 \in 1..(Len(line) + 1) /\ Ahead(p + 1) = r
    BY <1>1, AheadCons
  <1>4. QED
    BY <1>2, <1>3 DEF u

LEMMA GroupEndAhead ==
    ASSUME line \in Seq(Char), NEW p \in 1..(Len(line) + 1),
           NEW z \in Seq(Char), SelectorNext(z), MaybeGap(Ahead(p), z)
    PROVE  ~is_hex(At(p)) /\ ~is_bin(At(p)) /\
           ~(\E j \in p..Len(line) : is_bin(At(j)) /\ \A k \in p..(j - 1) : At(k) = Underscore)
  <1>0. Len(line) \in Nat /\ p \in Nat
    OBVIOUS
  <1>1. CASE Ahead(p) = z
    <2>1. ~is_hex(At(p)) /\ ~is_bin(At(p)) /\ At(p) # Underscore
      BY <1>1, SelectorAhead
    <2>2. ASSUME NEW j \in p..Len(line), is_bin(At(j)), \A k \in p..(j - 1) : At(k) = Underscore
          PROVE  FALSE
      <3>1. j # p
        BY <2>1, <2>2
      <3>2. p \in p..(j - 1)
        BY <1>0, <3>1
      <3>3. QED
        BY <2>1, <2>2, <3>2
    <2>3. QED
      BY <2>1, <2>2
  <1>2. CASE Ahead(p) = Cons(Underscore, z)
    <2>1. /\ At(p) = Underscore /\ p + 1 \in 1..(Len(line) + 1) /\ Ahead(p + 1) = z
          /\ ~is_hex(At(p)) /\ ~is_bin(At(p))
      BY <1>2, SeparatorAhead
    <2> DEFINE p1 == p + 1
    <2>2. p1 \in 1..(Len(line) + 1) /\ Ahead(p1) = z
      BY <2>1
    <2>3. ~is_bin(At(p1)) /\ At(p1) # Underscore
      <3> HIDE DEF p1
      <3>1. QED
        BY <2>2, SelectorAhead
    <2>4. ASSUME NEW j \in p..Len(line), is_bin(At(j)), \A k \in p..(j - 1) : At(k) = Underscore
          PROVE  FALSE
      <3>1. j # p /\ j # p1
        BY <2>1, <2>3, <2>4
      <3>2. p1 \in p..(j - 1)
        BY <1>0, <3>1
      <3>3. QED
        BY <2>3, <2>4, <3>2
    <2>5. QED
      BY <2>1, <2>4
  <1>3. QED
    BY <1>1, <1>2 DEF MaybeGap

-----------------------------------------------------------------------------
(* Bytes. *)

LEMMA AlnumChar == ASSUME NEW b, is_alnum_lat(b) PROVE b \in Char /\ b # Underscore /\ b # NUL
  BY DEF is_alnum_lat, Char

LEMMA SpellByteText ==
    ASSUME NEW f \in Selector, NEW b \in Byte, NEW g, f = ch_a => is_alnum_lat(b), NEW y \in Seq(Char)
    PROVE  /\ SpellByte(f, b, g) ++ y \in Seq(Char)
           /\ f = ch_h => SpellByte(f, b, g) ++ y = Hex2(b) ++ y
           /\ f = ch_b => SpellByte(f, b, g) ++ y = BitsFrom0(b, g, y)
           /\ f = ch_a => SpellByte(f, b, g) ++ y = Cons(b, y)
  <1>1. SpellByte(f, b, g) \in Seq(Char)
    BY SpellByteType
  <1>2. SpellByte(f, b, g) ++ y \in Seq(Char)
    BY <1>1, CatType
  <1>3. CASE f = ch_h
    BY <1>2, <1>3 DEF SpellByte
  <1>4. CASE f = ch_b
    <2>1. SpellByte(f, b, g) = Bin8(b, g)
      BY <1>4 DEF SpellByte
    <2>2. QED
      BY <1>2, <1>4, <2>1, Bin8Text
  <1>5. CASE f = ch_a
    <2>1. SpellByte(f, b, g) = <<b>>
      BY <1>5 DEF SpellByte
    <2>2. QED
      BY <1>2, <1>5, <2>1, OneCat
  <1>6. QED
    BY <1>3, <1>4, <1>5 DEF Selector

LEMMA BytesOnward ==
    ASSUME NEW f \in Selector, NEW bytes \in Seq(Byte), NEW g,
           f = ch_a => \A i \in DOMAIN bytes : is_alnum_lat(bytes[i]),
           NEW k \in 1..(Len(bytes) + 1), NEW y \in Seq(Char)
    PROVE  /\ Onward(ByteTexts(f, bytes, g), k) ++ y \in Seq(Char)
           /\ k = Len(bytes) + 1 => Onward(ByteTexts(f, bytes, g), k) ++ y = y
           /\ k <= Len(bytes) =>
                Onward(ByteTexts(f, bytes, g), k) ++ y
                  = SpellByte(f, bytes[k], g) ++ (Onward(ByteTexts(f, bytes, g), k + 1) ++ y)
  <1> DEFINE ss == ByteTexts(f, bytes, g)
  <1>1. ss \in Seq(Seq(Char)) /\ Len(ss) = Len(bytes)
    BY ByteTextsType
  <1>2. Len(bytes) \in Nat
    OBVIOUS
  <1>3. \A j \in 1..(Len(bytes) + 1) : Onward(ss, j) \in Seq(Char)
    <2> HIDE DEF ss
    <2>1. QED
      BY <1>1, OnwardType
  <1>4. Onward(ss, k) ++ y \in Seq(Char)
    <2> HIDE DEF ss
    <2>1. QED
      BY <1>3, CatType
  <1>5. ASSUME k = Len(bytes) + 1
        PROVE  Onward(ss, k) ++ y = y
    <2> HIDE DEF ss
    <2>1. Onward(ss, k) = <<>>
      BY <1>1, <1>5, OnwardEnds
    <2>2. QED
      BY <2>1, CatNone
  <1>6. ASSUME k <= Len(bytes)
        PROVE  Onward(ss, k) ++ y = SpellByte(f, bytes[k], g) ++ (Onward(ss, k + 1) ++ y)
    <2>1. k \in 1..Len(bytes) /\ k + 1 \in 1..(Len(bytes) + 1)
      BY <1>2, <1>6
    <2>2. ss[k] = SpellByte(f, bytes[k], g)
      BY <2>1 DEF ByteTexts
    <2> DEFINE a == ss[k]
               o == Onward(ss, k + 1)
    <2>3. Onward(ss, k) = a ++ o
      <3> HIDE DEF ss
      <3>1. QED
        BY <1>1, <2>1, OnwardCat
    <2>4. o \in Seq(Char)
      BY <1>3, <2>1
    <2>5. a \in Seq(Char)
      <3> HIDE DEF ss
      <3>1. QED
        BY <1>1, <2>1, ElementOfSeq
    <2>6. (a ++ o) ++ y = a ++ (o ++ y)
      <3> HIDE DEF a, o
      <3>1. QED
        BY <2>4, <2>5, CatAssoc
    <2>7. QED
      BY <2>2, <2>3, <2>6
  <1>7. QED
    BY <1>4, <1>5, <1>6

LEMMA BitsFromHead ==
    ASSUME NEW b \in Byte, NEW g, NEW x \in Seq(Char), NEW d \in 0..7
    PROVE  LET r == BitsFrom(b, g, x, d + 1)
               z == Cons(Bit(b, Weight(d + 1)), r)
           IN  r \in Seq(Char) /\ z \in Seq(Char) /\ MaybeGap(BitsFrom(b, g, x, d), z)
  <1> DEFINE r == BitsFrom(b, g, x, d + 1)
             z == Cons(Bit(b, Weight(d + 1)), r)
  <1>1. r \in Seq(Char)
    BY BitsFromType DEF BitsFrom
  <1>2. z \in Seq(Char)
    <2> HIDE DEF r
    <2>1. Bit(b, Weight(d + 1)) \in Char
      BY BitNext
    <2>2. QED
      BY <1>1, <2>1, ConsType
  <1>3. CASE d \notin {3, 7}
    <2>1. BitsFrom(b, g, x, d) = z
      BY <1>3 DEF BitsFrom, Weight, BitsFrom0, BitsFrom1, BitsFrom2, BitsFrom4, BitsFrom5, BitsFrom6
    <2>2. QED
      BY <1>1, <1>2, <2>1 DEF MaybeGap
  <1>4. CASE d \in {3, 7}
    <2>1. BitsFrom(b, g, x, d) = Gap(g) ++ z
      BY <1>4 DEF BitsFrom, Weight, BitsFrom3, BitsFrom7
    <2>2. Gap(g) ++ z \in {z, Cons(Underscore, z)}
      <3> HIDE DEF z
      <3>1. QED
        BY <1>2, GapCat
    <2>3. QED
      BY <1>1, <1>2, <2>1, <2>2 DEF MaybeGap
  <1>5. QED
    BY <1>3, <1>4

\* The decoder of a binary byte b: acc has the bits read, and the others are ahead,
\* with or without their separator, and then x.
InBits(b, gap, x) ==
    /\ acc = b \div Weight(digits)
    /\ \/ Ahead(pos) = BitsFrom(b, gap, x, digits)
       \/ /\ digits < 8
          /\ Ahead(pos) = Cons(Bit(b, Weight(digits + 1)), BitsFrom(b, gap, x, digits + 1))

LEMMA AheadPrime == ASSUME line' = line PROVE Ahead(pos)' = Ahead(pos')
  BY DEF Ahead

LEMMA ShiftBitReads ==
    ASSUME line \in Seq(Char), pos \in 1..(Len(line) + 1), digits \in 0..8,
           NEW b \in Byte, NEW g, NEW x \in Seq(Char), InBits(b, g, x), ShiftBit
    PROVE  InBits(b, g, x)' /\ UNCHANGED <<line, pc, cmds, cmd, pool, fmt, got>>
  <1> DEFINE r == BitsFrom(b, g, x, digits + 1)
             h == Bit(b, Weight(digits + 1))
             z == Cons(h, r)
  <1>0. digits < BYTE_BITS
    BY DEF ShiftBit
  <1>1. digits \in 0..7
    BY <1>0 DEF BYTE_BITS
  <1>2. r \in Seq(Char) /\ z \in Seq(Char) /\ MaybeGap(BitsFrom(b, g, x, digits), z)
    BY <1>1, BitsFromHead
  <1>3. MaybeGap(Ahead(pos), z)
    BY <1>2 DEF InBits, MaybeGap
  <1>4. /\ (2 * (b \div Weight(digits)) + (h - 48)) % 256 = b \div Weight(digits + 1)
        /\ is_bin(h) /\ h \in Char /\ h # Underscore
    BY <1>1, BitNext
  <1>5. acc = b \div Weight(digits)
    BY DEF InBits
  <1>6. CASE Ahead(pos) = z
    <2>1. At(pos) = h /\ pos + 1 \in 1..(Len(line) + 1) /\ Ahead(pos + 1) = r
      <3> HIDE DEF r, h
      <3>1. QED
        BY <1>2, <1>4, <1>6, AheadCons
    <2>2. /\ acc' = (2 * acc + (At(pos) - 48)) % 256
          /\ digits' = digits + 1
          /\ pos' = pos + 1
          /\ UNCHANGED <<line, pc, cmds, cmd, pool, fmt, got>>
      <3> HIDE DEF h
      <3>1. At(pos) # Underscore /\ is_bin(At(pos))
        BY <1>4, <2>1
      <3>2. QED
        BY <3>1 DEF ShiftBit, Fail, FailAt, Advance, input, txn, scratch
    <2>3. Ahead(pos)' = r
      BY <2>1, <2>2, AheadPrime
    <2>4. acc' = b \div Weight(digits + 1)
      BY <1>4, <1>5, <2>1, <2>2
    <2>5. InBits(b, g, x)'
      BY <2>2, <2>3, <2>4 DEF InBits
    <2>6. QED
      BY <2>2, <2>5
  <1>7. CASE Ahead(pos) = Cons(Underscore, z)
    <2>1. /\ At(pos) = Underscore /\ Ahead(pos + 1) = z /\ ~is_bin(At(pos))
      <3> HIDE DEF z
      <3>1. QED
        BY <1>2, <1>7, SeparatorAhead
    <2>2. pos' = pos + 1 /\ UNCHANGED <<line, pc, cmds, cmd, pool, fmt, got, acc, digits>>
      BY <2>1 DEF ShiftBit, Fail, FailAt, Advance, input, txn, scratch
    <2>3. Ahead(pos)' = z
      BY <2>1, <2>2, AheadPrime
    <2>4. InBits(b, g, x)'
      BY <1>1, <1>5, <2>2, <2>3 DEF InBits
    <2>5. QED
      BY <2>2, <2>4
  <1>8. QED
    BY <1>3, <1>6, <1>7 DEF MaybeGap

-----------------------------------------------------------------------------
(* How far the parser's loops are in the text of a command. *)

\* What is behind the internal address of c, and what is behind its selector.
Rest(c, x) == Gap(c.gap) ++ (BodyText(c) ++ x)
AddrText(c, x) == SpellByte(c.addr_fmt, c.internal_addr, c.gap) ++ (Closing(c.addr_fmt) ++ Rest(c, x))

\* How far the loops are in the text of the command c, which x follows, ...
InAddr(c, x) == MaybeGap(Ahead(pos), Cons(c.addr_fmt, AddrText(c, x)))

InAddrByte(c, x) ==
    /\ fmt = c.addr_fmt
    /\ IF fmt = ch_b THEN InBits(c.internal_addr, c.gap, Closing(c.addr_fmt) ++ Rest(c, x))
       ELSE Ahead(pos) = AddrText(c, x)

\* ... with m the bytes of the command that are not decoded yet, ...
InPayload(c, x, m) ==
    \E g \in 1..(Len(c.groups) + 1) :
        /\ MaybeGap(Ahead(pos), Onward(GroupTexts(c), g) ++ x)
        /\ m = Onward(GroupBytes(c), g)

BytesFrom(s, k) == SubSeq(s, k, Len(s))

\* What follows the n-th byte of the g-th group, in the text and in the pool.
TextBehind(c, x, g, n) ==
    Onward(ByteTexts(c.groups[g].fmt, c.groups[g].bytes, c.gap), n + 1)
      ++ (Closing(c.groups[g].fmt) ++ (Gap(c.gap) ++ (Onward(GroupTexts(c), g + 1) ++ x)))
BytesBehind(c, g, n) == BytesFrom(c.groups[g].bytes, n + 1) ++ Onward(GroupBytes(c), g + 1)

InRun(c, x, m) ==
    \E g \in 1..Len(c.groups) :
        /\ fmt = c.groups[g].fmt
        /\ got <= Len(c.groups[g].bytes)
        /\ Ahead(pos) = TextBehind(c, x, g, got)
        /\ m = BytesBehind(c, g, got)

InRunBits(c, x, m) ==
    \E g \in 1..Len(c.groups) :
        /\ fmt = ch_b /\ c.groups[g].fmt = ch_b
        /\ got < Len(c.groups[g].bytes)
        /\ InBits(c.groups[g].bytes[got + 1], c.gap, TextBehind(c, x, g, got + 1))
        /\ m = BytesBehind(c, g, got)

\* ... and in a read.
InTail(c, x) == MaybeGap(Ahead(pos), SpellRead(c) ++ x) \/ (~c.counted /\ Ahead(pos) = x)

FormatOnward(c, x) == FormatText(c) ++ Cons(Underscore, x)

InCount(c, x) ==
    /\ c.counted
    /\ \E k \in 0..3 : /\ digits + k = CountLength(c.rd_len)
                       /\ acc = c.rd_len \div Place(k)
                       /\ Ahead(pos) = CountFrom(c.rd_len, k, FormatOnward(c, x))

InFormat(c, x) == c.counted /\ cmd.rd_len = c.rd_len /\ Ahead(pos) = FormatOnward(c, x)

InClose(c, x) ==
    cmd.rd_len = c.rd_len /\ cmd.rd_fmt = c.rd_fmt /\ Ahead(pos) = Cons(Underscore, x)

\* A command that can be spelled, followed by what can follow it.
Given(c, x) ==
    /\ line \in Seq(Char) /\ pos \in 1..(Len(line) + 1)
    /\ c \in Meaning /\ Grammatical(c)
    /\ x \in Seq(Char) /\ NextCmd(x)

LEMMA RestType ==
    ASSUME NEW c, NEW x, Given(c, x)
    PROVE  /\ BodyText(c) ++ x \in Seq(Char) /\ Rest(c, x) \in Seq(Char)
           /\ MaybeGap(Rest(c, x), BodyText(c) ++ x)
           /\ Closing(c.addr_fmt) ++ Rest(c, x) \in Seq(Char)
           /\ AddrText(c, x) \in Seq(Char) /\ Cons(c.addr_fmt, AddrText(c, x)) \in Seq(Char)
           /\ SpellCmd(c) ++ x = Cons(ch_h, Hex2(c.ctrl_byte)
                                    ++ (Gap(c.gap) ++ Cons(c.addr_fmt, AddrText(c, x))))
  <1>1. c \in Meaning /\ Grammatical(c) /\ x \in Seq(Char)
    BY DEF Given
  <1> DEFINE bx == BodyText(c) ++ x
  <1>2. bx \in Seq(Char)
    BY <1>1, BodyType
  <1>3. Gap(c.gap) ++ bx \in {bx, Cons(Underscore, bx)}
    <2> HIDE DEF bx
    <2>1. QED
      BY <1>2, GapCat
  <1>4. QED
    BY <1>1, <1>2, <1>3, CmdText DEF Rest, AddrText, MaybeGap

\* The closing '_' of an ASCII byte or group, and nothing for the others.
LEMMA ClosingCat ==
    ASSUME NEW f, NEW z \in Seq(Char)
    PROVE  /\ f = ch_a => Closing(f) ++ z = Cons(Underscore, z)
           /\ f # ch_a => Closing(f) ++ z = z
  <1> DEFINE u == Underscore
             l == <<u>>
  <1>1. l ++ z = Cons(u, z)
    <2> HIDE DEF u
    <2>1. QED
      BY OneCat
  <1>2. <<>> ++ z = z
    BY CatNone
  <1>3. f = ch_a => Closing(f) = l
    BY DEF Closing
  <1>4. f # ch_a => Closing(f) = <<>>
    BY DEF Closing
  <1> HIDE DEF l
  <1>5. QED
    BY <1>1, <1>2, <1>3, <1>4

LEMMA InBitsStart ==
    ASSUME NEW b \in Byte, NEW g, NEW x \in Seq(Char),
           acc' = 0, digits' = 0, Ahead(pos)' = BitsFrom0(b, g, x)
    PROVE  InBits(b, g, x)'
  <1>1. b \div 256 = 0
    BY DEF Byte
  <1>2. Weight(0) = 256
    BY DEF Weight
  <1>3. BitsFrom(b, g, x, 0) = BitsFrom0(b, g, x)
    BY DEF BitsFrom
  <1>4. QED
    BY <1>1, <1>2, <1>3 DEF InBits

LEMMA InBitsEnd ==
    ASSUME NEW b \in Byte, NEW g, NEW x \in Seq(Char), InBits(b, g, x), digits = 8
    PROVE  acc = b /\ Ahead(pos) = x
  <1>1. b \div 1 = b
    BY DEF Byte
  <1>2. Weight(8) = 1
    BY DEF Weight
  <1>3. BitsFrom(b, g, x, 8) = x
    BY DEF BitsFrom
  <1>4. QED
    BY <1>1, <1>2, <1>3 DEF InBits

Same == UNCHANGED <<line, cmds, cmd, pool>>

LEMMA AddrSelectorReads ==
    ASSUME NEW c, NEW x, Given(c, x), InAddr(c, x), AddrSelector
    PROVE  Same /\ ((pc' = "addr" /\ InAddr(c, x)') \/ (pc' = "addrByte" /\ InAddrByte(c, x)'))
  <1> DEFINE f == c.addr_fmt
             b == c.internal_addr
             g == c.gap
             y == Closing(f) ++ Rest(c, x)
             v == AddrText(c, x)
             z == Cons(f, v)
  <1>1. /\ line \in Seq(Char) /\ pos \in 1..(Len(line) + 1)
        /\ f \in Selector /\ f \in Char /\ f # Underscore /\ b \in Byte /\ (f = ch_a => is_alnum_lat(b))
    BY MeaningFacts DEF Given, Char, Selector
  <1>2. y \in Seq(Char) /\ v \in Seq(Char) /\ z \in Seq(Char)
    BY RestType
  <1>3. v = SpellByte(f, b, g) ++ y
    BY DEF AddrText
  <1>4. MaybeGap(Ahead(pos), z)
    BY DEF InAddr
  <1>5. CASE Ahead(pos) = Cons(Underscore, z)
    <2>1. At(pos) = Underscore /\ Ahead(pos + 1) = z /\ At(pos) \notin Selector
      <3> HIDE DEF z
      <3>1. QED
        BY <1>1, <1>2, <1>5, SeparatorAhead
    <2>2. pos' = pos + 1 /\ pc' = "addr" /\ Same
      BY <2>1 DEF AddrSelector, Fail, FailAt, Advance, input, txn, Same
    <2>3. Ahead(pos)' = z
      BY <2>1, <2>2, AheadPrime DEF Same
    <2>4. InAddr(c, x)'
      BY <2>3 DEF InAddr, MaybeGap
    <2>5. QED
      BY <2>2, <2>4
  <1>6. CASE Ahead(pos) = z
    <2>1. At(pos) = f /\ Ahead(pos + 1) = v
      <3> HIDE DEF f, v
      <3>1. QED
        BY <1>1, <1>2, <1>6, AheadCons
    <2>2. fmt' = f /\ acc' = 0 /\ digits' = 0 /\ pos' = pos + 1 /\ pc' = "addrByte" /\ Same
      BY <1>1, <2>1 DEF AddrSelector, Fail, FailAt, Advance, input, txn, Same
    <2>3. Ahead(pos)' = v
      BY <2>1, <2>2, AheadPrime DEF Same
    <2>4. CASE f = ch_b
      <3>1. v = BitsFrom0(b, g, y)
        <4> HIDE DEF y, v, f, b, g
        <4>1. QED
          BY <1>1, <1>2, <1>3, <2>4, SpellByteText
      <3>2. InBits(b, g, y)'
        <4> HIDE DEF y, v, b, g
        <4>1. QED
          BY <1>1, <1>2, <2>2, <2>3, <3>1, InBitsStart
      <3>3. InAddrByte(c, x)'
        BY <2>2, <2>4, <3>2 DEF InAddrByte
      <3>4. QED
        BY <2>2, <3>3
    <2>5. CASE f # ch_b
      <3>1. InAddrByte(c, x)'
        BY <2>2, <2>3, <2>5 DEF InAddrByte
      <3>2. QED
        BY <2>2, <3>1
    <2>6. QED
      BY <2>4, <2>5
  <1>7. QED
    BY <1>4, <1>5, <1>6 DEF MaybeGap

\* The internal address is decoded, with its closing '_', and the body is next.
LEMMA AddrStored ==
    ASSUME NEW c, NEW x, Given(c, x), cmd.kind = c.kind,
           NEW p, Ahead(p) = Rest(c, x), StoreAddr(c.internal_addr, p)
    PROVE  /\ UNCHANGED <<line, cmds, pool>>
           /\ cmd' = [cmd EXCEPT !.internal_addr = c.internal_addr]
           /\ c.kind = "read"  => pc' = "tail" /\ InTail(c, x)'
           /\ c.kind = "write" => pc' = "payload" /\ InPayload(c, x, Data(c))'
  <1>1. /\ UNCHANGED <<line, cmds, pool>> /\ pos' = p
        /\ cmd' = [cmd EXCEPT !.internal_addr = c.internal_addr]
        /\ pc' = IF c.kind = "read" THEN "tail" ELSE "payload"
    BY DEF StoreAddr, input, txn
  <1>2. Ahead(pos)' = Rest(c, x)
    BY <1>1, AheadPrime
  <1>3. MaybeGap(Rest(c, x), BodyText(c) ++ x)
    BY RestType
  <1>4. ASSUME c.kind = "read"
        PROVE  InTail(c, x)'
    <2>1. BodyText(c) = SpellRead(c)
      BY <1>4 DEF BodyText
    <2>2. MaybeGap(Ahead(pos)', SpellRead(c) ++ x)
      BY <1>2, <1>3, <2>1
    <2>3. QED
      BY <2>2 DEF InTail, MaybeGap
  <1>5. ASSUME c.kind = "write"
        PROVE  InPayload(c, x, Data(c))'
    <2>1. BodyText(c) = Onward(GroupTexts(c), 1)
      BY <1>5 DEF BodyText
    <2>2. MaybeGap(Ahead(pos)', Onward(GroupTexts(c), 1) ++ x)
      BY <1>2, <1>3, <2>1
    <2>3. Data(c) = Onward(GroupBytes(c), 1) /\ 1 \in 1..(Len(c.groups) + 1)
      BY DataMeans, MeaningFacts DEF Given
    <2>4. QED
      BY <2>2, <2>3 DEF InPayload, MaybeGap
  <1>6. QED
    BY <1>1, <1>4, <1>5

LEMMA AddrHexReads ==
    ASSUME NEW c, NEW x, Given(c, x), InAddrByte(c, x), cmd.kind = c.kind, AddrHex
    PROVE  \E p : Ahead(p) = Rest(c, x) /\ StoreAddr(c.internal_addr, p)
  <1> DEFINE f == c.addr_fmt
             b == c.internal_addr
             g == c.gap
             w == Rest(c, x)
             y == Closing(f) ++ w
  <1>1. /\ line \in Seq(Char) /\ pos \in 1..(Len(line) + 1)
        /\ f \in Selector /\ b \in Byte /\ (f = ch_a => is_alnum_lat(b))
        /\ w \in Seq(Char) /\ y \in Seq(Char)
    BY MeaningFacts, RestType DEF Given
  <1>0. fmt = ch_h
    BY DEF AddrHex
  <1>2. f = ch_h /\ Ahead(pos) = SpellByte(f, b, g) ++ y
    BY <1>0 DEF InAddrByte, AddrText
  <1>3. y = w
    <2> HIDE DEF w, f
    <2>1. QED
      BY <1>1, <1>2, ClosingCat
  <1>4. SpellByte(f, b, g) ++ y = Hex2(b) ++ y
    <2> HIDE DEF y, f, b, g
    <2>1. QED
      BY <1>1, <1>2, SpellByteText
  <1>5. Ahead(pos) = Hex2(b) ++ w
    BY <1>2, <1>3, <1>4
  <1>6. TwoHexAt(pos) /\ HexByteAt(pos) = b /\ Ahead(pos + 2) = w
    <2> HIDE DEF w, b
    <2>1. QED
      BY <1>1, <1>5, AheadHex2
  <1>7. StoreAddr(b, pos + 2)
    BY <1>6 DEF AddrHex
  <1>8. QED
    BY <1>6, <1>7

LEMMA AddrAsciiReads ==
    ASSUME NEW c, NEW x, Given(c, x), InAddrByte(c, x), cmd.kind = c.kind, AddrAscii
    PROVE  \E p : Ahead(p) = Rest(c, x) /\ StoreAddr(c.internal_addr, p)
  <1> DEFINE f == c.addr_fmt
             b == c.internal_addr
             g == c.gap
             w == Rest(c, x)
             y == Closing(f) ++ w
             uw == Cons(Underscore, w)
             p == pos + 1
  <1>1. /\ line \in Seq(Char) /\ pos \in 1..(Len(line) + 1)
        /\ f \in Selector /\ b \in Byte /\ (f = ch_a => is_alnum_lat(b))
        /\ w \in Seq(Char) /\ y \in Seq(Char)
    BY MeaningFacts, RestType DEF Given
  <1>0. fmt = ch_a
    BY DEF AddrAscii
  <1>2. f = ch_a /\ Ahead(pos) = SpellByte(f, b, g) ++ y
    BY <1>0 DEF InAddrByte, AddrText
  <1>3. y = uw
    <2> HIDE DEF w, f
    <2>1. QED
      BY <1>1, <1>2, ClosingCat
  <1>4. SpellByte(f, b, g) ++ y = Cons(b, y)
    <2> HIDE DEF y, f, b, g
    <2>1. QED
      BY <1>1, <1>2, SpellByteText
  <1>5. Ahead(pos) = Cons(b, uw)
    BY <1>2, <1>3, <1>4
  <1>6. b \in Char /\ is_alnum_lat(b)
    <2> HIDE DEF b
    <2>1. QED
      BY <1>1, <1>2, AlnumChar
  <1>7. uw \in Seq(Char)
    BY <1>1, <1>3
  <1>8. At(pos) = b /\ p \in 1..(Len(line) + 1) /\ Ahead(p) = uw
    <2> HIDE DEF b, uw
    <2>1. QED
      BY <1>1, <1>5, <1>6, <1>7, AheadCons
  <1>9. At(p) = Underscore /\ Ahead(p + 1) = w
    <2> HIDE DEF p, w
    <2>1. QED
      BY <1>1, <1>8, SeparatorAhead
  <1>10. p + 1 = pos + 2
    BY <1>1
  <1>11. StoreAddr(b, pos + 2)
    BY <1>6, <1>8, <1>9 DEF AddrAscii
  <1>12. QED
    BY <1>9, <1>10, <1>11

LEMMA AddrBinReads ==
    ASSUME NEW c, NEW x, Given(c, x), InAddrByte(c, x), cmd.kind = c.kind,
           digits \in 0..8, AddrBin
    PROVE  \/ Same /\ pc' = pc /\ InAddrByte(c, x)'
           \/ \E p : Ahead(p) = Rest(c, x) /\ StoreAddr(c.internal_addr, p)
  <1> DEFINE f == c.addr_fmt
             b == c.internal_addr
             g == c.gap
             w == Rest(c, x)
             y == Closing(f) ++ w
  <1>1. /\ line \in Seq(Char) /\ pos \in 1..(Len(line) + 1)
        /\ b \in Byte /\ w \in Seq(Char) /\ y \in Seq(Char)
    BY MeaningFacts, RestType DEF Given
  <1>2. f = ch_b /\ fmt = f /\ InBits(b, g, y)
    BY DEF AddrBin, InAddrByte
  <1>3. y = w
    <2> HIDE DEF w, f
    <2>1. QED
      BY <1>1, <1>2, ClosingCat
  <1>4. CASE ShiftBit
    <2>1. InBits(b, g, y)' /\ UNCHANGED <<line, pc, cmds, cmd, pool, fmt, got>>
      <3> HIDE DEF y, b, g
      <3>1. QED
        BY <1>1, <1>2, <1>4, ShiftBitReads
    <2>2. InAddrByte(c, x)'
      BY <1>2, <2>1 DEF InAddrByte
    <2>3. QED
      BY <2>1, <2>2 DEF Same
  <1>5. CASE digits >= BYTE_BITS /\ StoreAddr(acc, pos)
    <2>1. digits = 8
      BY <1>5 DEF BYTE_BITS
    <2>2. acc = b /\ Ahead(pos) = y
      <3> HIDE DEF y, b, g
      <3>1. QED
        BY <1>1, <1>2, <2>1, InBitsEnd
    <2>3. QED
      BY <1>3, <1>5, <2>2
  <1>6. QED
    BY <1>4, <1>5 DEF AddrBin

-----------------------------------------------------------------------------
(* The body of a write. *)

LEMMA BytesFromMeans ==
    ASSUME NEW S, NEW s \in Seq(S)
    PROVE  /\ BytesFrom(s, 1) = s
           /\ BytesFrom(s, Len(s) + 1) = <<>>
           /\ \A k \in 1..Len(s) : BytesFrom(s, k) = Cons(s[k], BytesFrom(s, k + 1))
           /\ \A k \in 1..(Len(s) + 1) : BytesFrom(s, k) \in Seq(S)
  <1>1. Len(s) \in Nat
    OBVIOUS
  <1>2. \A k \in 1..(Len(s) + 1) :
          /\ BytesFrom(s, k) \in Seq(S) /\ Len(BytesFrom(s, k)) = Len(s) - k + 1
          /\ \A j \in 1..(Len(s) - k + 1) : BytesFrom(s, k)[j] = s[k + j - 1]
    <2> TAKE k \in 1..(Len(s) + 1)
    <2> DEFINE e == k - 1
               d == Len(s) - k + 1
    <2>1. e \in Nat /\ d \in Nat /\ e + d <= Len(s) /\ e + d = Len(s) /\ e + 1 = k
      BY <1>1
    <2>2. \A j \in 1..d : e + j = k + j - 1
      BY <1>1
    <2>3. d = Len(s) - k + 1
      OBVIOUS
    <2> HIDE DEF e, d
    <2>4. /\ SubSeq(s, e + 1, e + d) \in Seq(S)
          /\ Len(SubSeq(s, e + 1, e + d)) = d
          /\ \A j \in 1..d : SubSeq(s, e + 1, e + d)[j] = s[e + j]
      BY <2>1, SliceMeans
    <2>5. QED
      BY <2>1, <2>2, <2>3, <2>4 DEF BytesFrom
  <1>3. BytesFrom(s, Len(s) + 1) = <<>>
    <2>1. BytesFrom(s, Len(s) + 1) \in Seq(S) /\ Len(BytesFrom(s, Len(s) + 1)) = 0
      BY <1>1, <1>2
    <2>2. QED
      BY <2>1, EmptySeq
  <1>4. BytesFrom(s, 1) = s
    <2> DEFINE t == BytesFrom(s, 1)
    <2>1. t \in Seq(S) /\ Len(t) = Len(s) /\ \A j \in 1..Len(t) : t[j] = s[j]
      BY <1>1, <1>2
    <2> HIDE DEF t
    <2>2. t = s
      BY <2>1, SeqEqual
    <2>3. QED
      BY <2>2 DEF t
  <1>5. ASSUME NEW k \in 1..Len(s)
        PROVE  BytesFrom(s, k) = Cons(s[k], BytesFrom(s, k + 1))
    <2> DEFINE t == BytesFrom(s, k)
               r == BytesFrom(s, k + 1)
               h == s[k]
    <2>1. k \in 1..(Len(s) + 1) /\ k + 1 \in 1..(Len(s) + 1) /\ h \in S
      BY <1>1, <1>5, ElementOfSeq
    <2>2. /\ t \in Seq(S) /\ Len(t) = Len(s) - k + 1
          /\ \A j \in 1..(Len(s) - k + 1) : t[j] = s[k + j - 1]
      BY <1>2, <2>1
    <2>3. /\ r \in Seq(S) /\ Len(r) = Len(s) - (k + 1) + 1
          /\ \A j \in 1..(Len(s) - (k + 1) + 1) : r[j] = s[(k + 1) + j - 1]
      BY <1>2, <2>1
    <2>4. t[1] = h
      BY <1>1, <2>1, <2>2
    <2>6. Len(r) = Len(s) - k /\ Len(t) = Len(r) + 1
      <3>1. Len(s) - (k + 1) + 1 = Len(s) - k
        BY <1>1
      <3>2. QED
        BY <2>2, <2>3, <3>1
    <2>5. ASSUME NEW j \in 1..Len(r)
          PROVE  t[j + 1] = r[j]
      <3>1. /\ j + 1 \in 1..(Len(s) - k + 1) /\ j \in 1..(Len(s) - (k + 1) + 1)
            /\ k + (j + 1) - 1 = (k + 1) + j - 1
        BY <1>1, <2>6
      <3>2. t[j + 1] = s[k + (j + 1) - 1] /\ r[j] = s[(k + 1) + j - 1]
        <4> HIDE DEF t, r
        <4>1. QED
          BY <2>2, <2>3, <3>1
      <3>3. QED
        BY <3>1, <3>2
    <2> HIDE DEF t, r, h
    <2>7. /\ Cons(h, r) \in Seq(S) /\ Len(Cons(h, r)) = Len(r) + 1 /\ Cons(h, r)[1] = h
          /\ \A j \in 1..Len(r) : Cons(h, r)[j + 1] = r[j]
      BY <2>1, <2>3, ConsMeans DEF Cons
    <2>8. \A i \in 1..Len(t) : t[i] = Cons(h, r)[i]
      <3> TAKE i \in 1..Len(t)
      <3>1. CASE i = 1
        BY <2>4, <2>7, <3>1
      <3>2. CASE i # 1
        <4>1. Len(r) \in Nat
          BY <2>3
        <4>2. i - 1 \in 1..Len(r) /\ (i - 1) + 1 = i
          BY <2>6, <3>2, <4>1
        <4>3. t[(i - 1) + 1] = r[i - 1] /\ Cons(h, r)[(i - 1) + 1] = r[i - 1]
          BY <2>5, <2>7, <4>2
        <4>4. QED
          BY <4>2, <4>3
      <3>3. QED
        BY <3>1, <3>2
    <2>9. t = Cons(h, r)
      BY <2>2, <2>6, <2>7, <2>8, SeqEqual
    <2>10. QED
      BY <2>9 DEF t, r, h
  <1>6. QED
    BY <1>2, <1>3, <1>4, <1>5

LEMMA TextBehindMeans ==
    ASSUME NEW c, NEW x, Given(c, x), NEW g \in 1..Len(c.groups),
           NEW n \in 0..Len(c.groups[g].bytes)
    PROVE  LET p == c.groups[g]
               z == Onward(GroupTexts(c), g + 1) ++ x
           IN  /\ TextBehind(c, x, g, n) \in Seq(Char) /\ z \in Seq(Char) /\ Gap(c.gap) ++ z \in Seq(Char)
               /\ n < Len(p.bytes) =>
                    TextBehind(c, x, g, n) = SpellByte(p.fmt, p.bytes[n + 1], c.gap) ++ TextBehind(c, x, g, n + 1)
  <1> DEFINE f == c.groups[g].fmt
             bytes == c.groups[g].bytes
             gap == c.gap
             z == Onward(GroupTexts(c), g + 1) ++ x
             gz == Gap(gap) ++ z
             y == Closing(f) ++ gz
             k == n + 1
             s == ByteTexts(f, bytes, gap)
  <1>1. c \in Meaning /\ Grammatical(c) /\ x \in Seq(Char)
    BY DEF Given
  <1>2. /\ f \in Selector /\ bytes \in Seq(Byte)
        /\ f = ch_a => \A i \in DOMAIN bytes : is_alnum_lat(bytes[i])
    BY <1>1, GroupFacts
  <1>3. z \in Seq(Char) /\ gz \in Seq(Char)
    BY <1>1, GroupText
  <1>4. y \in Seq(Char)
    <2> HIDE DEF f, gz
    <2>1. Closing(f) \in Seq(Char)
      BY ClosingType
    <2>2. QED
      BY <1>3, <2>1, CatType
  <1>5. k \in 1..(Len(bytes) + 1) /\ Len(bytes) \in Nat /\ n \in Nat
    BY <1>2
  <1>6. /\ Onward(s, k) ++ y \in Seq(Char)
        /\ k = Len(bytes) + 1 => Onward(s, k) ++ y = y
        /\ k <= Len(bytes) => Onward(s, k) ++ y = SpellByte(f, bytes[k], gap) ++ (Onward(s, k + 1) ++ y)
    <2> HIDE DEF f, bytes, gap, y, k
    <2>1. QED
      BY <1>2, <1>4, <1>5, BytesOnward
  <1>7. TextBehind(c, x, g, n) = Onward(s, k) ++ y /\ TextBehind(c, x, g, n + 1) = Onward(s, k + 1) ++ y
    BY DEF TextBehind
  <1>8. n < Len(bytes) <=> k <= Len(bytes)
    BY <1>5
  <1> HIDE DEF s, y
  <1>9. QED
    BY <1>3, <1>6, <1>7, <1>8

LEMMA TextBehindLast ==
    ASSUME NEW c, NEW x, Given(c, x), NEW g \in 1..Len(c.groups)
    PROVE  LET p == c.groups[g]
           IN  TextBehind(c, x, g, Len(p.bytes)) = Closing(p.fmt) ++ (Gap(c.gap) ++ (Onward(GroupTexts(c), g + 1) ++ x))
  <1> PICK n : n = Len(c.groups[g].bytes)
    OBVIOUS
  <1> DEFINE f == c.groups[g].fmt
             bytes == c.groups[g].bytes
             gap == c.gap
             z == Onward(GroupTexts(c), g + 1) ++ x
             gz == Gap(gap) ++ z
             y == Closing(f) ++ gz
             k == n + 1
             s == ByteTexts(f, bytes, gap)
  <1>1. c \in Meaning /\ Grammatical(c) /\ x \in Seq(Char)
    BY DEF Given
  <1>2. /\ f \in Selector /\ bytes \in Seq(Byte)
        /\ f = ch_a => \A i \in DOMAIN bytes : is_alnum_lat(bytes[i])
    BY <1>1, GroupFacts
  <1>3. z \in Seq(Char) /\ gz \in Seq(Char)
    BY <1>1, GroupText
  <1>4. y \in Seq(Char)
    <2> HIDE DEF f, gz
    <2>1. Closing(f) \in Seq(Char)
      BY ClosingType
    <2>2. QED
      BY <1>3, <2>1, CatType
  <1>5. k \in 1..(Len(bytes) + 1) /\ k = Len(bytes) + 1
    BY <1>2
  <1>6. Onward(s, k) ++ y = y
    <2> HIDE DEF f, bytes, gap, y, k
    <2>1. QED
      BY <1>2, <1>4, <1>5, BytesOnward
  <1>7. TextBehind(c, x, g, n) = Onward(s, k) ++ y
    BY DEF TextBehind
  <1> HIDE DEF s, k
  <1>8. TextBehind(c, x, g, n) = y
    BY <1>6, <1>7
  <1>9. QED
    BY <1>8

LEMMA BytesBehindMeans ==
    ASSUME NEW c, NEW x, Given(c, x), NEW g \in 1..Len(c.groups),
           NEW n \in 0..Len(c.groups[g].bytes)
    PROVE  LET p == c.groups[g]
               o == Onward(GroupBytes(c), g + 1)
           IN  /\ BytesBehind(c, g, n) \in Seq(Byte)
               /\ n = Len(p.bytes) => BytesBehind(c, g, n) = o
               /\ n < Len(p.bytes) => /\ BytesBehind(c, g, n) = Cons(p.bytes[n + 1], BytesBehind(c, g, n + 1))
                                      /\ BytesBehind(c, g, n + 1) \in Seq(Byte)
                                      /\ p.bytes[n + 1] \in Byte
               /\ Onward(GroupBytes(c), g) = BytesBehind(c, g, 0)
  <1> DEFINE s == c.groups[g].bytes
             o == Onward(GroupBytes(c), g + 1)
             k == n + 1
  <1>1. c \in Meaning /\ Grammatical(c)
    BY DEF Given
  <1>0. s \in Seq(Byte) /\ Len(s) \in Nat
    BY <1>1, GroupFacts
  <1>2. s \in Seq(Byte) /\ Len(s) \in Nat /\ k \in 1..(Len(s) + 1) /\ n \in Nat
    BY <1>0
  <1>3. o \in Seq(Byte) /\ Onward(GroupBytes(c), g) = s ++ o
    <2>1. /\ GroupBytes(c) \in Seq(Seq(Byte)) /\ Len(GroupBytes(c)) = Len(c.groups)
          /\ GroupBytes(c)[g] = s /\ Len(c.groups) \in Nat
      BY <1>1, GroupTextsType, MeaningFacts
    <2>2. g \in 1..Len(GroupBytes(c)) /\ g + 1 \in 1..(Len(GroupBytes(c)) + 1)
      BY <2>1
    <2>3. o \in Seq(Byte)
      BY <2>1, <2>2, OnwardType
    <2>4. Onward(GroupBytes(c), g) = GroupBytes(c)[g] ++ Onward(GroupBytes(c), g + 1)
      BY <2>1, <2>2, OnwardCat
    <2>5. QED
      BY <2>1, <2>3, <2>4
  <1>4. /\ BytesFrom(s, 1) = s /\ BytesFrom(s, Len(s) + 1) = <<>>
        /\ \A j \in 1..Len(s) : BytesFrom(s, j) = Cons(s[j], BytesFrom(s, j + 1))
        /\ \A j \in 1..(Len(s) + 1) : BytesFrom(s, j) \in Seq(Byte)
    <2> HIDE DEF s
    <2>1. QED
      BY <1>2, BytesFromMeans
  <1>5. /\ BytesBehind(c, g, n) = BytesFrom(s, k) ++ o
        /\ BytesBehind(c, g, n + 1) = BytesFrom(s, k + 1) ++ o
        /\ BytesBehind(c, g, 0) = BytesFrom(s, 1) ++ o
    BY DEF BytesBehind
  <1>6. BytesBehind(c, g, n) \in Seq(Byte)
    <2>1. BytesFrom(s, k) \in Seq(Byte)
      BY <1>2, <1>4
    <2> DEFINE t == BytesFrom(s, k)
    <2> HIDE DEF t, o
    <2>2. t ++ o \in Seq(Byte)
      BY <1>3, <2>1, CatType DEF t
    <2>3. QED
      BY <1>5, <2>2 DEF t
  <1>7. ASSUME n = Len(s)
        PROVE  BytesBehind(c, g, n) = o
    <2>1. BytesBehind(c, g, n) = <<>> ++ o
      BY <1>4, <1>5, <1>7
    <2> HIDE DEF o
    <2>2. QED
      BY <1>3, <2>1, CatNone
  <1>8. ASSUME n < Len(s)
        PROVE  /\ BytesBehind(c, g, n) = Cons(s[k], BytesBehind(c, g, n + 1))
               /\ BytesBehind(c, g, n + 1) \in Seq(Byte) /\ s[k] \in Byte
    <2> DEFINE t == BytesFrom(s, k + 1)
               h == s[k]
    <2>1. k \in 1..Len(s) /\ k + 1 \in 1..(Len(s) + 1) /\ h \in Byte
      BY <1>2, <1>8, ElementOfSeq
    <2>2. BytesFrom(s, k) = Cons(h, t) /\ t \in Seq(Byte)
      BY <1>4, <2>1
    <2>3. BytesBehind(c, g, n + 1) = t ++ o /\ BytesBehind(c, g, n) = Cons(h, t) ++ o
      BY <1>5, <2>2
    <2> HIDE DEF t, o, h
    <2>4. Cons(h, t) ++ o = Cons(h, t ++ o) /\ t ++ o \in Seq(Byte)
      BY <1>3, <2>1, <2>2, ConsCat, CatType
    <2>5. QED
      BY <2>1, <2>3, <2>4 DEF h
  <1>9. Onward(GroupBytes(c), g) = BytesBehind(c, g, 0)
    BY <1>3, <1>4, <1>5
  <1>10. QED
    BY <1>6, <1>7, <1>8, <1>9

\* The command is over, with all its bytes decoded.
Over(c, x, m) ==
    /\ m = <<>>
    /\ \E k, p : /\ EndCmd(k, p) /\ Ahead(p) = x
                 /\ k = [cmd EXCEPT !.rd_len = c.rd_len, !.rd_fmt = c.rd_fmt]

LEMMA PayloadHeadReads ==
    ASSUME NEW c, NEW x, NEW m, Given(c, x), InPayload(c, x, m), PayloadHead,
           cmd \in Slot, cmd.rd_len = c.rd_len, cmd.rd_fmt = c.rd_fmt
    PROVE  \/ Same /\ ((pc' = "payload" /\ InPayload(c, x, m)') \/ (pc' = "run" /\ InRun(c, x, m)'))
           \/ Over(c, x, m)
  <1>1. /\ line \in Seq(Char) /\ pos \in 1..(Len(line) + 1)
        /\ c \in Meaning /\ Grammatical(c) /\ x \in Seq(Char) /\ NextCmd(x)
    BY DEF Given
  <1>2. PICK g \in 1..(Len(c.groups) + 1) :
          MaybeGap(Ahead(pos), Onward(GroupTexts(c), g) ++ x) /\ m = Onward(GroupBytes(c), g)
    BY DEF InPayload
  <1> DEFINE z == Onward(GroupTexts(c), g) ++ x
  <1>3. /\ z \in Seq(Char)
        /\ g = Len(c.groups) + 1 => z = x /\ m = <<>>
    BY <1>1, <1>2, GroupsAhead
  <1>4. CASE Ahead(pos) = Cons(Underscore, z)
    <2>1. At(pos) = Underscore /\ Ahead(pos + 1) = z /\ At(pos) \notin Selector
      <3> HIDE DEF z
      <3>1. QED
        BY <1>1, <1>3, <1>4, SeparatorAhead
    <2>2. At(pos) # NUL /\ ~at_cmd_start(pos)
      BY <2>1 DEF at_cmd_start
    <2>3. pos' = pos + 1 /\ pc' = "payload" /\ Same
      BY <2>1, <2>2 DEF PayloadHead, Fail, FailAt, Advance, input, txn, Same
    <2>4. Ahead(pos)' = z
      BY <2>1, <2>3, AheadPrime DEF Same
    <2>5. InPayload(c, x, m)'
      BY <1>2, <2>4 DEF InPayload, MaybeGap
    <2>6. QED
      BY <2>3, <2>5
  <1>5. CASE Ahead(pos) = z /\ g = Len(c.groups) + 1
    <2>1. Ahead(pos) = x /\ m = <<>>
      BY <1>3, <1>5
    <2>2. At(pos) = NUL \/ (At(pos) = ch_h /\ at_cmd_start(pos))
      BY <1>1, <2>1, CmdAhead
    <2>5. /\ At(pos) = NUL \/ at_cmd_start(pos)
          /\ At(pos) # Underscore
          /\ ~(At(pos) \in Selector /\ ~at_cmd_start(pos))
          /\ At(pos) \in Selector \cup {Underscore, NUL}
      BY <2>2 DEF Selector
    <2>3. EndCmd(cmd, pos)
      BY <2>5 DEF PayloadHead
    <2>4. cmd = [cmd EXCEPT !.rd_len = c.rd_len, !.rd_fmt = c.rd_fmt]
      BY DEF Slot
    <2>6. QED
      BY <2>1, <2>3, <2>4 DEF Over
  <1>6. CASE Ahead(pos) = z /\ g # Len(c.groups) + 1
    <2>0. Len(c.groups) \in Nat
      BY <1>1, MeaningFacts
    <2>1. g \in 1..Len(c.groups)
      BY <1>6, <2>0
    <2> DEFINE f == c.groups[g].fmt
               bytes == c.groups[g].bytes
               r == TextBehind(c, x, g, 0)
               r1 == TextBehind(c, x, g, 1)
               b == bytes[1]
    <2>2. /\ f \in Selector /\ bytes \in Seq(Byte) /\ Len(bytes) \in Nat /\ Len(bytes) > 0
          /\ f = ch_h => b \notin 160..163
          /\ f = ch_a => \A i \in DOMAIN bytes : is_alnum_lat(bytes[i])
      BY <1>1, <2>1, GroupFacts
    <2>3. z = Cons(f, r)
      BY <1>1, <2>1, GroupText DEF TextBehind
    <2>4. 0 \in 0..Len(bytes) /\ 1 \in 0..Len(bytes) /\ 0 < Len(bytes) /\ 0 + 1 = 1
      BY <2>2
    <2>5. r \in Seq(Char) /\ r1 \in Seq(Char) /\ r = SpellByte(f, b, c.gap) ++ r1
      <3>1. r \in Seq(Char) /\ r = SpellByte(f, bytes[0 + 1], c.gap) ++ TextBehind(c, x, g, 0 + 1)
        BY <2>1, <2>4, TextBehindMeans
      <3>2. r1 \in Seq(Char)
        BY <2>1, <2>4, TextBehindMeans
      <3>3. QED
        BY <2>4, <3>1, <3>2
    <2>6. f \in Char /\ f # Underscore /\ f # NUL /\ b \in Byte
      BY <2>2, <2>4, ElementOfSeq DEF Selector, Char
    <2>7. At(pos) = f /\ Ahead(pos + 1) = r
      <3>1. Ahead(pos) = Cons(f, r)
        BY <1>6, <2>3
      <3> HIDE DEF f, r
      <3>2. QED
        BY <1>1, <2>5, <2>6, <3>1, AheadCons
    <2>8. ~at_cmd_start(pos)
      <3>1. CASE f # ch_h
        BY <2>7, <3>1 DEF at_cmd_start
      <3>2. CASE f = ch_h
        <4>1. SpellByte(f, b, c.gap) ++ r1 = Hex2(b) ++ r1
          <5> DEFINE gap == c.gap
          <5>1. SpellByte(f, b, gap) ++ r1 = Hex2(b) ++ r1
            <6> HIDE DEF b, r1, gap, f
            <6>1. f # ch_a
              BY <3>2
            <6>2. QED
              BY <2>2, <2>5, <2>6, <3>2, <6>1, SpellByteText
          <5>2. QED
            BY <5>1
        <4>2. Ahead(pos) = Cons(ch_h, Hex2(b) ++ r1)
          BY <1>6, <2>3, <2>5, <3>2, <4>1
        <4>3. at_cmd_start(pos) <=> b \in 160..163
          <5> HIDE DEF b, r1
          <5>1. QED
            BY <1>1, <2>5, <2>6, <4>2, StartSeen
        <4>4. QED
          BY <2>2, <3>2, <4>3
      <3>3. QED
        BY <3>1, <3>2
    <2>9. fmt' = f /\ got' = 0 /\ pos' = pos + 1 /\ pc' = "run" /\ Same
      <3> HIDE DEF f
      <3>1. At(pos) \in Selector /\ At(pos) # NUL /\ At(pos) # Underscore
        BY <2>2, <2>6, <2>7
      <3>2. QED
        BY <2>7, <2>8, <3>1 DEF PayloadHead, Fail, FailAt, Advance, input, txn, Same
    <2>10. Ahead(pos)' = r
      BY <2>7, <2>9, AheadPrime DEF Same
    <2>11. m = BytesBehind(c, g, 0)
      BY <1>2, <2>1, <2>4, BytesBehindMeans
    <2>12. InRun(c, x, m)'
      BY <2>1, <2>2, <2>9, <2>10, <2>11 DEF InRun
    <2>13. QED
      BY <2>9, <2>12
  <1>7. QED
    BY <1>2, <1>4, <1>5, <1>6 DEF MaybeGap

\* There is room for the next byte, if one is left.
Room(m) == m # <<>> => ~(cmd.payload_len >= PAYLOAD_MAX) /\ ~(Len(pool) >= POOL_SIZE)

\* A byte of those left is decoded.
Took(c, x, m) ==
    \E b \in Byte, n \in Seq(Byte) : m = Cons(b, n) /\ (\E p : StoreByte(b, p)) /\ InRun(c, x, n)'

LEMMA PushReads ==
    ASSUME NEW c, NEW x, NEW m, Given(c, x), NEW g \in 1..Len(c.groups), fmt = c.groups[g].fmt,
           got \in Nat, got < Len(c.groups[g].bytes), m = BytesBehind(c, g, got), Room(m),
           NEW p, Ahead(p) = TextBehind(c, x, g, got + 1),
           PushPayload(c.groups[g].bytes[got + 1], p)
    PROVE  Took(c, x, m)
  <1> PICK k : k = got
    OBVIOUS
  <1> PICK b, n : b = c.groups[g].bytes[k + 1] /\ n = BytesBehind(c, g, k + 1)
    OBVIOUS
  <1>1. k \in 0..Len(c.groups[g].bytes) /\ k < Len(c.groups[g].bytes) /\ k + 1 <= Len(c.groups[g].bytes)
    <2>1. Len(c.groups[g].bytes) \in Nat
      BY GroupFacts DEF Given
    <2>2. QED
      BY <2>1
  <1>2. m = Cons(b, n) /\ b \in Byte /\ n \in Seq(Byte)
    <2>1. /\ BytesBehind(c, g, k) = Cons(c.groups[g].bytes[k + 1], BytesBehind(c, g, k + 1))
          /\ BytesBehind(c, g, k + 1) \in Seq(Byte)
          /\ c.groups[g].bytes[k + 1] \in Byte
      BY <1>1, BytesBehindMeans
    <2>2. QED
      BY <2>1
  <1>3. m # <<>>
    <2>1. Len(Cons(b, n)) = Len(n) + 1 /\ Len(n) \in Nat
      BY <1>2, ConsMeans DEF Cons
    <2>2. Len(m) # 0
      BY <1>2, <2>1
    <2>3. QED
      BY <2>2
  <1>4. StoreByte(b, p)
    BY <1>3 DEF PushPayload, Room
  <1>5. got' = k + 1 /\ pos' = p /\ UNCHANGED <<line, fmt>>
    BY <1>4 DEF StoreByte, input
  <1>6. Ahead(pos)' = TextBehind(c, x, g, k + 1)
    BY <1>5, AheadPrime
  <1>7. InRun(c, x, n)'
    BY <1>1, <1>5, <1>6 DEF InRun
  <1>8. QED
    BY <1>2, <1>4, <1>7 DEF Took

LEMMA GroupEnds ==
    ASSUME NEW c, NEW x, NEW m, Given(c, x), NEW g \in 1..Len(c.groups),
           got = Len(c.groups[g].bytes), m = BytesBehind(c, g, got),
           NEW p, NEW e, MaybeGap(Ahead(p), Onward(GroupTexts(c), g + 1) ++ x), EndGroup(p, e)
    PROVE  Same /\ pc' = "payload" /\ InPayload(c, x, m)'
  <1>1. Len(c.groups[g].bytes) \in Nat /\ Len(c.groups[g].bytes) > 0 /\ Len(c.groups) \in Nat
    BY GroupFacts, MeaningFacts DEF Given
  <1>2. pos' = p /\ pc' = "payload" /\ Same
    <2>1. got # 0
      BY <1>1
    <2>2. QED
      BY <2>1 DEF EndGroup, input, txn, Same
  <1>3. Ahead(pos)' = Ahead(p)
    BY <1>2, AheadPrime DEF Same
  <1>4. m = Onward(GroupBytes(c), g + 1)
    <2> PICK k : k = got
      OBVIOUS
    <2>1. k \in 0..Len(c.groups[g].bytes) /\ k = Len(c.groups[g].bytes)
      BY <1>1
    <2>2. BytesBehind(c, g, k) = Onward(GroupBytes(c), g + 1)
      BY <2>1, BytesBehindMeans
    <2>3. QED
      BY <2>2
  <1>5. g + 1 \in 1..(Len(c.groups) + 1)
    BY <1>1
  <1>6. InPayload(c, x, m)'
    BY <1>3, <1>4, <1>5 DEF InPayload, MaybeGap
  <1>7. QED
    BY <1>2, <1>6

\* Where a run is: before one of the bytes of the g-th group, or behind the last.
InGroup(c, x, m, g) ==
    LET p == c.groups[g]
        z == Onward(GroupTexts(c), g + 1) ++ x
    IN  /\ fmt = p.fmt /\ m = BytesBehind(c, g, got) /\ p.fmt \in Selector
        /\ z \in Seq(Char) /\ SelectorNext(z)
        /\ \/ /\ got < Len(p.bytes) /\ p.bytes[got + 1] \in Byte
              /\ p.fmt = ch_a => is_alnum_lat(p.bytes[got + 1])
              /\ TextBehind(c, x, g, got + 1) \in Seq(Char)
              /\ Ahead(pos) = SpellByte(p.fmt, p.bytes[got + 1], c.gap)
                                 ++ TextBehind(c, x, g, got + 1)
           \/ /\ got = Len(p.bytes)
              /\ p.fmt # ch_a => MaybeGap(Ahead(pos), z)
              /\ p.fmt = ch_a => \E v \in Seq(Char) : MaybeGap(v, z) /\ Ahead(pos) = Cons(Underscore, v)

LEMMA RunMeans ==
    ASSUME NEW c, NEW x, NEW m, Given(c, x), got \in Nat, InRun(c, x, m)
    PROVE  \E g \in 1..Len(c.groups) : InGroup(c, x, m, g)
  <1>1. PICK g \in 1..Len(c.groups) :
          /\ fmt = c.groups[g].fmt
          /\ got <= Len(c.groups[g].bytes)
          /\ Ahead(pos) = TextBehind(c, x, g, got)
          /\ m = BytesBehind(c, g, got)
    BY DEF InRun
  <1> DEFINE f == c.groups[g].fmt
             bytes == c.groups[g].bytes
             z == Onward(GroupTexts(c), g + 1) ++ x
             v == Gap(c.gap) ++ z
  <1>2. c \in Meaning /\ Grammatical(c) /\ x \in Seq(Char) /\ NextCmd(x)
    BY DEF Given
  <1>3. /\ f \in Selector /\ bytes \in Seq(Byte) /\ Len(bytes) \in Nat
        /\ f = ch_a => \A i \in DOMAIN bytes : is_alnum_lat(bytes[i])
    BY <1>2, GroupFacts
  <1>4. z \in Seq(Char) /\ SelectorNext(z)
    <2>1. Len(c.groups) \in Nat
      BY <1>2, MeaningFacts
    <2>2. g + 1 \in 1..(Len(c.groups) + 1)
      BY <2>1
    <2>3. QED
      BY <1>2, <2>2, GroupsAhead
  <1> PICK n : n = got
    OBVIOUS
  <1>5. n \in 0..Len(bytes) /\ n \in Nat
    BY <1>1, <1>3
  <1>6. CASE n < Len(bytes)
    <2>1. n + 1 \in 1..Len(bytes) /\ n + 1 \in 0..Len(bytes)
      BY <1>3, <1>5, <1>6
    <2>2. bytes[n + 1] \in Byte
      <3> HIDE DEF bytes
      <3>1. QED
        BY <1>3, <2>1, ElementOfSeq
    <2>3. f = ch_a => is_alnum_lat(bytes[n + 1])
      BY <1>3, <2>1
    <2>4. TextBehind(c, x, g, n) = SpellByte(f, bytes[n + 1], c.gap) ++ TextBehind(c, x, g, n + 1)
      BY <1>5, <1>6, TextBehindMeans
    <2>5. TextBehind(c, x, g, n + 1) \in Seq(Char)
      BY <2>1, TextBehindMeans
    <2> HIDE DEF f, bytes, z
    <2>6. QED
      BY <1>1, <1>3, <1>4, <1>6, <2>2, <2>3, <2>4, <2>5 DEF InGroup, f, bytes, z
  <1>7. CASE n = Len(bytes)
    <2>0. TextBehind(c, x, g, n) = Closing(f) ++ v
      <3>1. TextBehind(c, x, g, Len(bytes)) = Closing(f) ++ v
        BY TextBehindLast
      <3>2. QED
        BY <1>7, <3>1
    <2>1. TextBehind(c, x, g, n) = Closing(f) ++ v /\ v \in Seq(Char)
      <3>1. v \in Seq(Char)
        BY <1>5, TextBehindMeans
      <3>2. QED
        BY <2>0, <3>1
    <2>2. v \in {z, Cons(Underscore, z)}
      <3> DEFINE gap == c.gap
      <3>1. Gap(gap) ++ z \in {z, Cons(Underscore, z)}
        <4> HIDE DEF gap, z
        <4>1. QED
          BY <1>4, GapCat
      <3>2. QED
        BY <3>1
    <2>3. /\ f = ch_a => Closing(f) ++ v = Cons(Underscore, v)
          /\ f # ch_a => Closing(f) ++ v = v
      <3> HIDE DEF v
      <3>1. QED
        BY <2>1, ClosingCat
    <2> HIDE DEF v
    <2>4. MaybeGap(v, z)
      BY <2>2 DEF MaybeGap
    <2>5. /\ f # ch_a => MaybeGap(Ahead(pos), z)
          /\ f = ch_a => Ahead(pos) = Cons(Underscore, v)
      BY <1>1, <2>1, <2>3, <2>4
    <2> HIDE DEF f, bytes, z
    <2>6. QED
      BY <1>1, <1>3, <1>4, <1>7, <2>1, <2>4, <2>5 DEF InGroup, f, bytes, z
  <1>8. QED
    BY <1>3, <1>5, <1>6, <1>7

LEMMA HexRunReads ==
    ASSUME NEW c, NEW x, NEW m, Given(c, x), got \in Nat, InRun(c, x, m), Room(m), HexRun
    PROVE  (Same /\ pc' = "payload" /\ InPayload(c, x, m)') \/ Took(c, x, m)
  <1> PICK g \in 1..Len(c.groups) : InGroup(c, x, m, g)
    BY RunMeans
  <1> DEFINE f == c.groups[g].fmt
             bytes == c.groups[g].bytes
             gap == c.gap
             b == bytes[got + 1]
             y == TextBehind(c, x, g, got + 1)
             z == Onward(GroupTexts(c), g + 1) ++ x
  <1>1. line \in Seq(Char) /\ pos \in 1..(Len(line) + 1)
    BY DEF Given
  <1> USE DEF InGroup
  <1>2. f = ch_h
    <2>1. fmt = ch_h
      BY DEF HexRun
    <2>2. QED
      BY <2>1
  <1>3. CASE got < Len(bytes)
    <2>1. b \in Byte /\ y \in Seq(Char) /\ Ahead(pos) = SpellByte(f, b, gap) ++ y /\ f \in Selector
      BY <1>3
    <2>2. SpellByte(f, b, gap) ++ y = Hex2(b) ++ y
      <3> HIDE DEF y, f, b, gap
      <3>1. f # ch_a
        BY <1>2
      <3>2. QED
        BY <1>2, <2>1, <3>1, SpellByteText
    <2>3. TwoHexAt(pos) /\ HexByteAt(pos) = b /\ Ahead(pos + 2) = y
      <3>1. Ahead(pos) = Hex2(b) ++ y
        BY <2>1, <2>2
      <3> HIDE DEF y, b
      <3>2. QED
        BY <1>1, <2>1, <3>1, AheadHex2
    <2>4. PushPayload(b, pos + 2)
      <3>1. is_hex(At(pos)) /\ is_hex(At(pos + 1))
        BY <2>3 DEF TwoHexAt
      <3>2. QED
        BY <2>3, <3>1 DEF HexRun
    <2>5. Took(c, x, m)
      BY <1>3, <2>3, <2>4, PushReads
    <2>6. QED
      BY <2>5
  <1>4. CASE got = Len(bytes)
    <2>1. MaybeGap(Ahead(pos), z) /\ z \in Seq(Char) /\ SelectorNext(z)
      BY <1>2, <1>4
    <2>2. ~is_hex(At(pos))
      <3> HIDE DEF z
      <3>1. QED
        BY <1>1, <2>1, GroupEndAhead
    <2>3. EndGroup(pos, "empty hex group")
      BY <2>2 DEF HexRun, TwoHexAt
    <2>4. QED
      BY <1>4, <2>1, <2>3, GroupEnds
  <1>5. QED
    BY <1>3, <1>4

LEMMA AsciiRunReads ==
    ASSUME NEW c, NEW x, NEW m, Given(c, x), got \in Nat, InRun(c, x, m), Room(m), AsciiRun
    PROVE  (Same /\ pc' = "payload" /\ InPayload(c, x, m)') \/ Took(c, x, m)
  <1> PICK g \in 1..Len(c.groups) : InGroup(c, x, m, g)
    BY RunMeans
  <1> DEFINE f == c.groups[g].fmt
             bytes == c.groups[g].bytes
             gap == c.gap
             b == bytes[got + 1]
             y == TextBehind(c, x, g, got + 1)
             z == Onward(GroupTexts(c), g + 1) ++ x
  <1>1. line \in Seq(Char) /\ pos \in 1..(Len(line) + 1)
    BY DEF Given
  <1> USE DEF InGroup
  <1>2. f = ch_a
    <2>1. fmt = ch_a
      BY DEF AsciiRun
    <2>2. QED
      BY <2>1
  <1>3. CASE got < Len(bytes)
    <2>1. /\ b \in Byte /\ y \in Seq(Char) /\ Ahead(pos) = SpellByte(f, b, gap) ++ y
          /\ f \in Selector /\ is_alnum_lat(b)
      BY <1>2, <1>3
    <2>2. SpellByte(f, b, gap) ++ y = Cons(b, y)
      <3> HIDE DEF y, f, b, gap
      <3>1. QED
        BY <1>2, <2>1, SpellByteText
    <2>3. b \in Char /\ b # Underscore /\ b # NUL
      <3> HIDE DEF b
      <3>1. QED
        BY <2>1, AlnumChar
    <2>4. At(pos) = b /\ Ahead(pos + 1) = y
      <3>1. Ahead(pos) = Cons(b, y)
        BY <2>1, <2>2
      <3> HIDE DEF y, b
      <3>2. QED
        BY <1>1, <2>1, <2>3, <3>1, AheadCons
    <2>5. PushPayload(b, pos + 1)
      <3> HIDE DEF b
      <3>1. QED
        BY <2>1, <2>3, <2>4 DEF AsciiRun
    <2>6. Took(c, x, m)
      BY <1>3, <2>4, <2>5, PushReads
    <2>7. QED
      BY <2>6
  <1>4. CASE got = Len(bytes)
    <2>1. PICK v \in Seq(Char) : MaybeGap(v, z) /\ Ahead(pos) = Cons(Underscore, v)
      BY <1>2, <1>4
    <2>2. At(pos) = Underscore /\ Ahead(pos + 1) = v /\ ~is_alnum_lat(At(pos))
      BY <1>1, <2>1, SeparatorAhead
    <2>3. EndGroup(pos + 1, "empty ascii group")
      <3>1. At(pos) # NUL
        BY <2>2
      <3>2. QED
        BY <2>2, <3>1 DEF AsciiRun
    <2>4. MaybeGap(Ahead(pos + 1), z)
      BY <2>1, <2>2
    <2>5. QED
      BY <1>4, <2>3, <2>4, GroupEnds
  <1>5. QED
    BY <1>3, <1>4

LEMMA BinRunReads ==
    ASSUME NEW c, NEW x, NEW m, Given(c, x), got \in Nat, InRun(c, x, m), BinRun
    PROVE  Same /\ ((pc' = "payload" /\ InPayload(c, x, m)') \/ (pc' = "bits" /\ InRunBits(c, x, m)'))
  <1> PICK g \in 1..Len(c.groups) : InGroup(c, x, m, g)
    BY RunMeans
  <1> PICK k : k = got
    OBVIOUS
  <1> DEFINE f == c.groups[g].fmt
             bytes == c.groups[g].bytes
             gap == c.gap
             b == bytes[k + 1]
             y == TextBehind(c, x, g, k + 1)
             z == Onward(GroupTexts(c), g + 1) ++ x
  <1>1. line \in Seq(Char) /\ pos \in 1..(Len(line) + 1)
    BY DEF Given
  <1> USE DEF InGroup
  <1>2. fmt = ch_b /\ f = ch_b
    <2>1. fmt = ch_b
      BY DEF BinRun
    <2>2. QED
      BY <2>1
  <1>3. CASE k < Len(bytes)
    <2>1. b \in Byte /\ y \in Seq(Char) /\ Ahead(pos) = SpellByte(f, b, gap) ++ y /\ f \in Selector
      BY <1>3
    <2>2. SpellByte(f, b, gap) ++ y = BitsFrom0(b, gap, y)
      <3> HIDE DEF y, f, b, gap
      <3>1. f # ch_a
        BY <1>2
      <3>2. QED
        BY <1>2, <2>1, <3>1, SpellByteText
    <2> DEFINE h == Bit(b, 128)
               r == BitsFrom1(b, gap, y)
    <2>3. h \in Char /\ is_bin(h) /\ r \in Seq(Char) /\ Ahead(pos) = Cons(h, r)
      <3>1. is_bin(Bit(b, Weight(0 + 1))) /\ Bit(b, Weight(0 + 1)) \in Char
        <4> HIDE DEF b
        <4>1. 0 \in 0..7
          OBVIOUS
        <4>2. QED
          BY <2>1, <4>1, BitNext
      <3>2. Weight(0 + 1) = 128
        BY DEF Weight
      <3>3. r \in Seq(Char)
        <4> HIDE DEF b, y
        <4>1. QED
          BY <2>1, BitsFromType
      <3>4. QED
        BY <2>1, <2>2, <3>1, <3>2, <3>3 DEF BitsFrom0
    <2>4. At(pos) = h /\ pos + 1 \in 1..(Len(line) + 1)
      <3> HIDE DEF h, r
      <3>1. QED
        BY <1>1, <2>3, AheadCons
    <2>5. BitAhead
      <3>1. pos \in pos..Len(line) /\ pos..(pos - 1) = {}
        BY <1>1, <2>4
      <3>2. is_bin(At(pos))
        BY <2>3, <2>4
      <3>3. QED
        BY <3>1, <3>2 DEF BitAhead
    <2>6. acc' = 0 /\ digits' = 0 /\ pos' = pos /\ pc' = "bits" /\ fmt' = fmt /\ got' = got /\ Same
      BY <2>5 DEF BinRun, input, txn, Same
    <2>7. Ahead(pos)' = BitsFrom0(b, gap, y)
      BY <2>1, <2>2, <2>6, AheadPrime DEF Same
    <2>8. InBits(b, gap, y)'
      <3> HIDE DEF b, y
      <3>1. QED
        BY <2>1, <2>6, <2>7, InBitsStart
    <2>9. m = BytesBehind(c, g, k)
      OBVIOUS
    <2>10. InRunBits(c, x, m)'
      <3>1. got' = k
        BY <2>6
      <3>2. fmt' = ch_b /\ c.groups[g].fmt = ch_b
        BY <1>2, <2>6
      <3>3. k < Len(c.groups[g].bytes) /\ InBits(c.groups[g].bytes[k + 1], c.gap, TextBehind(c, x, g, k + 1))'
        BY <1>3, <2>8
      <3> HIDE DEF InGroup
      <3>4. QED
        BY <2>9, <3>1, <3>2, <3>3 DEF InRunBits
    <2>11. QED
      BY <2>6, <2>10
  <1>4. CASE k = Len(bytes)
    <2>1. MaybeGap(Ahead(pos), z) /\ z \in Seq(Char) /\ SelectorNext(z)
      BY <1>2, <1>4
    <2>2. ~BitAhead
      <3> HIDE DEF z
      <3>1. ~(\E j \in pos..Len(line) : is_bin(At(j)) /\ \A i \in pos..(j - 1) : At(i) = Underscore)
        BY <1>1, <2>1, GroupEndAhead
      <3>2. QED
        BY <3>1 DEF BitAhead
    <2>3. EndGroup(pos, "empty binary group")
      BY <2>2 DEF BinRun
    <2>4. QED
      BY <1>4, <2>1, <2>3, GroupEnds
  <1>5. QED
    BY <1>3, <1>4

LEMMA BinByteReads ==
    ASSUME NEW c, NEW x, NEW m, Given(c, x), got \in Nat, InRunBits(c, x, m), Room(m),
           digits \in 0..8, BinByte
    PROVE  (Same /\ pc' = "bits" /\ InRunBits(c, x, m)') \/ Took(c, x, m)
  <1> PICK k : k = got
    OBVIOUS
  <1>1. PICK g \in 1..Len(c.groups) :
        /\ fmt = ch_b /\ c.groups[g].fmt = ch_b
        /\ k < Len(c.groups[g].bytes)
        /\ InBits(c.groups[g].bytes[k + 1], c.gap, TextBehind(c, x, g, k + 1))
        /\ m = BytesBehind(c, g, k)
    BY DEF InRunBits
  <1> DEFINE bytes == c.groups[g].bytes
             gap == c.gap
             b == bytes[k + 1]
             y == TextBehind(c, x, g, k + 1)
  <1>2. /\ line \in Seq(Char) /\ pos \in 1..(Len(line) + 1)
        /\ bytes \in Seq(Byte) /\ Len(bytes) \in Nat
    BY GroupFacts DEF Given
  <1>3. k \in 0..Len(bytes) /\ k + 1 \in 1..Len(bytes) /\ k + 1 \in 0..Len(bytes)
    BY <1>1, <1>2
  <1>4. b \in Byte
    <2> HIDE DEF bytes
    <2>1. QED
      BY <1>2, <1>3, ElementOfSeq
  <1>5. y \in Seq(Char)
    BY <1>3, TextBehindMeans
  <1>6. InBits(b, gap, y)
    BY <1>1
  <1>7. CASE ShiftBit
    <2>1. InBits(b, gap, y)' /\ UNCHANGED <<line, pc, cmds, cmd, pool, fmt, got>>
      <3> HIDE DEF b, y
      <3>1. QED
        BY <1>2, <1>4, <1>5, <1>6, <1>7, ShiftBitReads
    <2>2. InRunBits(c, x, m)'
      <3>1. got' = k /\ fmt' = ch_b
        BY <1>1, <2>1
      <3>2. InBits(c.groups[g].bytes[k + 1], c.gap, TextBehind(c, x, g, k + 1))'
        BY <2>1
      <3>3. QED
        BY <1>1, <3>1, <3>2 DEF InRunBits
    <2>3. pc' = "bits"
      BY <2>1 DEF BinByte
    <2>4. QED
      BY <2>1, <2>2, <2>3 DEF Same
  <1>8. CASE digits >= BYTE_BITS /\ PushPayload(acc, pos)
    <2>1. digits = 8
      BY <1>8 DEF BYTE_BITS
    <2>2. acc = b /\ Ahead(pos) = y
      <3> HIDE DEF b, y
      <3>1. QED
        BY <1>4, <1>5, <1>6, <2>1, InBitsEnd
    <2>3. PushPayload(c.groups[g].bytes[got + 1], pos) /\ Ahead(pos) = TextBehind(c, x, g, got + 1)
      BY <1>8, <2>2
    <2>4. fmt = c.groups[g].fmt /\ got < Len(c.groups[g].bytes) /\ m = BytesBehind(c, g, got)
      BY <1>1
    <2>5. Took(c, x, m)
      BY <2>3, <2>4, PushReads
    <2>6. QED
      BY <2>5
  <1>9. QED
    BY <1>7, <1>8 DEF BinByte

-----------------------------------------------------------------------------
(* The body of a read. *)

\* What ends a count: the format, or the '_'.
LEMMA FormatAhead ==
    ASSUME NEW c, NEW x, Given(c, x)
    PROVE  /\ FormatOnward(c, x) \in Seq(Char) /\ Cons(Underscore, x) \in Seq(Char)
           /\ c.rd_fmt = FMT_NONE => FormatOnward(c, x) = Cons(Underscore, x)
           /\ c.rd_fmt # FMT_NONE => FormatOnward(c, x) = Cons(c.rd_fmt, Cons(Underscore, x)) /\ c.rd_fmt \in Char
           /\ \A p \in 1..(Len(line) + 1) : Ahead(p) = FormatOnward(c, x) =>
                 At(p) \in Selector \cup {Underscore} /\ ~is_hex(At(p)) /\ At(p) \notin 48..51
  <1> DEFINE u == Underscore
             z == Cons(u, x)
             f == c.rd_fmt
             y == FormatOnward(c, x)
  <1>1. /\ line \in Seq(Char) /\ c \in Meaning /\ Grammatical(c) /\ x \in Seq(Char)
        /\ f \in Selector \cup {FMT_NONE} /\ u \in Char
    BY MeaningFacts DEF Given, Char
  <1>2. z \in Seq(Char)
    <2> HIDE DEF u
    <2>1. QED
      BY <1>1, ConsType
  <1>3. /\ y \in Seq(Char)
        /\ f = FMT_NONE => y = z
        /\ f # FMT_NONE => y = Cons(f, z) /\ f \in Char
    <2>1. y = FormatText(c) ++ z
      BY DEF FormatOnward
    <2> HIDE DEF y, z
    <2>2. QED
      BY <1>1, <1>2, <2>1, FormatCat DEF f
  <1>4. ASSUME NEW p \in 1..(Len(line) + 1), Ahead(p) = y
        PROVE  At(p) \in Selector \cup {Underscore}
    <2>1. CASE f = FMT_NONE
      <3>1. Ahead(p) = Cons(u, x)
        BY <1>3, <1>4, <2>1
      <3> HIDE DEF u
      <3>2. At(p) = u
        BY <1>1, <3>1, AheadCons
      <3>3. QED
        BY <3>2 DEF u
    <2>2. CASE f # FMT_NONE
      <3>1. Ahead(p) = Cons(f, z) /\ f \in Char
        BY <1>3, <1>4, <2>2
      <3> HIDE DEF z, f
      <3>2. At(p) = f
        BY <1>1, <1>2, <3>1, AheadCons
      <3>3. QED
        BY <1>1, <2>2, <3>2
    <2>3. QED
      BY <2>1, <2>2
  <1>5. \A d \in Selector \cup {Underscore} : ~is_hex(d) /\ d \notin 48..51
    BY DEF Selector, is_hex
  <1>6. \A p \in 1..(Len(line) + 1) : Ahead(p) = y =>
                 At(p) \in Selector \cup {Underscore} /\ ~is_hex(At(p)) /\ At(p) \notin 48..51
    BY <1>4, <1>5
  <1>7. QED
    BY <1>2, <1>3, <1>6

\* A count that can be spelled is not taken for the start of a command.
LEMMA CountIsNoStart ==
    ASSUME NEW c, NEW x, Given(c, x), c.counted,
           Ahead(pos) = Cons(ch_h, CountFrom(c.rd_len, CountLength(c.rd_len), FormatOnward(c, x)))
    PROVE  ~at_cmd_start(pos)
  <1> DEFINE n == c.rd_len
             y == FormatOnward(c, x)
             h == ch_h
             p == pos + 1
             q == p + 1
  <1>1. /\ line \in Seq(Char) /\ pos \in 1..(Len(line) + 1) /\ h \in Char
        /\ n \in 0..RD_COUNT_MAX /\ n \notin 160..163 /\ y \in Seq(Char)
    BY MeaningFacts, FormatAhead DEF Given, Char
  <1>0. n \in 0..1022
    <2>1. n \in 0..RD_COUNT_MAX
      BY <1>1
    <2> HIDE DEF n
    <2>2. QED
      BY <2>1 DEF RD_COUNT_MAX
  <1>2. \A k \in 1..3 : CountDigitOf(n, k) \in Char
    <2> HIDE DEF n
    <2>1. QED
      BY <1>1, CountDigitMeans
  <1>3. CountFrom1(n, y) \in Seq(Char) /\ CountFrom2(n, y) \in Seq(Char) /\ CountFrom3(n, y) \in Seq(Char)
    <2> HIDE DEF n, y
    <2>1. QED
      BY <1>1, CountFromType
  <1>4. \A r \in Seq(Char) : Ahead(pos) = Cons(h, r) => p \in 1..(Len(line) + 1) /\ Ahead(p) = r
    <2> HIDE DEF h
    <2>1. QED
      BY <1>1, AheadCons
  <1>5. \A d \in Char, r \in Seq(Char) : p \in 1..(Len(line) + 1) /\ Ahead(p) = Cons(d, r) =>
              At(p) = d /\ q \in 1..(Len(line) + 1) /\ Ahead(q) = r
    <2> HIDE DEF p
    <2>1. QED
      BY <1>1, AheadCons
  <1>6. q = pos + 2
    BY <1>1
  <1> HIDE DEF p, q, y
  <1>7. CASE n < 16
    <2>1. CountLength(n) = 1
      BY <1>7 DEF CountLength
    <2>2. Ahead(pos) = Cons(h, Cons(CountDigitOf(n, 1), y))
      BY <2>1 DEF CountFrom, CountFrom1, y
    <2>3. Cons(CountDigitOf(n, 1), y) \in Seq(Char) /\ CountDigitOf(n, 1) \in Char
      BY <1>2, <1>3 DEF CountFrom1
    <2>4. q \in 1..(Len(line) + 1) /\ Ahead(q) = y
      <3> HIDE DEF n, h
      <3>1. p \in 1..(Len(line) + 1) /\ Ahead(p) = Cons(CountDigitOf(n, 1), y)
        BY <1>4, <2>2, <2>3
      <3>2. QED
        BY <1>1, <1>5, <2>3, <3>1
    <2>5. At(q) \notin 48..51
      BY <2>4, FormatAhead DEF y
    <2>6. QED
      BY <1>6, <2>5 DEF at_cmd_start
  <1>8. CASE ~(n < 16) /\ n < 256
    <2>1. CountLength(n) = 2 /\ n \in Byte
      BY <1>0, <1>8 DEF CountLength, Byte
    <2>2. Digits(n) = Hex2(n)
      BY <1>8 DEF Digits
    <2>3. Digits(n) ++ y = CountFrom(n, CountLength(n), y)
      <3> HIDE DEF n
      <3>1. QED
        BY <1>1, DigitsText
    <2>4. Ahead(pos) = Cons(ch_h, Hex2(n) ++ y)
      BY <2>2, <2>3 DEF y
    <2> HIDE DEF n
    <2>5. at_cmd_start(pos) <=> n \in 160..163
      BY <1>1, <2>1, <2>4, StartSeen
    <2>6. QED
      BY <1>1, <2>5
  <1>9. CASE ~(n < 256)
    <2>1. CountLength(n) = 3
      BY <1>0, <1>9 DEF CountLength
    <2> DEFINE d == CountDigitOf(n, 3)
               r == CountFrom2(n, y)
    <2>2. Ahead(pos) = Cons(h, Cons(d, r))
      BY <2>1 DEF CountFrom, CountFrom3, y
    <2>3. Cons(d, r) \in Seq(Char) /\ d \in Char /\ r \in Seq(Char)
      BY <1>2, <1>3 DEF CountFrom3
    <2>4. At(p) = d
      <3> HIDE DEF h, d, r
      <3>1. p \in 1..(Len(line) + 1) /\ Ahead(p) = Cons(d, r)
        BY <1>4, <2>2, <2>3
      <3>2. QED
        BY <1>5, <2>3, <3>1
    <2>5. d # ch_A
      <3> DEFINE e == (n \div 256) % 16
      <3>1. e \in 0..15 /\ e # 10
        BY <1>0, <1>9
      <3>2. d = HexDigit(e)
        BY DEF CountDigitOf, Place
      <3> HIDE DEF e
      <3>3. QED
        BY <3>1, <3>2, HexDigitMeans
    <2>6. QED
      BY <2>4, <2>5 DEF at_cmd_start, p
  <1>10. QED
    BY <1>0, <1>7, <1>8, <1>9

LEMMA ReadTailReads ==
    ASSUME NEW c, NEW x, Given(c, x), c.kind = "read", InTail(c, x), ReadTail
    PROVE  \/ Same /\ ((pc' = "tail" /\ InTail(c, x)') \/ (pc' = "count" /\ InCount(c, x)'))
           \/ Over(c, x, <<>>)
  <1> DEFINE z == Cons(Underscore, x)
             y == FormatOnward(c, x)
             k == CountLength(c.rd_len)
             r == CountFrom(c.rd_len, k, y)
             s == SpellRead(c) ++ x
  <1>1. /\ line \in Seq(Char) /\ pos \in 1..(Len(line) + 1) /\ x \in Seq(Char) /\ NextCmd(x)
        /\ c \in Meaning /\ Grammatical(c)
    BY DEF Given
  <1>2. /\ z \in Seq(Char)
        /\ ~c.counted => s = z
        /\ c.counted => s = Cons(ch_h, r) /\ r \in Seq(Char)
    BY <1>1, ReadText DEF FormatOnward
  <1>3. s \in Seq(Char)
    <2>1. SpellRead(c) \in Seq(Char)
      BY <1>1, SpellReadType
    <2>2. QED
      BY <1>1, <2>1, CatType
  <1>4. CASE Ahead(pos) = Cons(Underscore, s)
    <2>1. At(pos) = Underscore /\ Ahead(pos + 1) = s
      <3> HIDE DEF s
      <3>1. QED
        BY <1>1, <1>3, <1>4, SeparatorAhead
    <2>2. At(pos) # NUL /\ At(pos) # ch_h /\ ~at_cmd_start(pos)
      BY <2>1 DEF at_cmd_start
    <2>3. pos' = pos + 1 /\ pc' = "tail" /\ Same
      BY <2>1, <2>2 DEF ReadTail, Fail, FailAt, Advance, input, txn, Same
    <2>4. Ahead(pos)' = s
      BY <2>1, <2>3, AheadPrime DEF Same
    <2>5. InTail(c, x)'
      BY <2>4 DEF InTail, MaybeGap
    <2>6. QED
      BY <2>3, <2>5
  <1>5. CASE Ahead(pos) = s /\ ~c.counted
    <2>1. At(pos) = Underscore /\ Ahead(pos + 1) = x
      <3>1. Ahead(pos) = Cons(Underscore, x)
        BY <1>2, <1>5
      <3>2. QED
        BY <1>1, <3>1, SeparatorAhead
    <2>2. At(pos) # NUL /\ At(pos) # ch_h /\ ~at_cmd_start(pos)
      BY <2>1 DEF at_cmd_start
    <2>3. pos' = pos + 1 /\ pc' = "tail" /\ Same
      BY <2>1, <2>2 DEF ReadTail, Fail, FailAt, Advance, input, txn, Same
    <2>4. Ahead(pos)' = x
      BY <2>1, <2>3, AheadPrime DEF Same
    <2>5. InTail(c, x)'
      BY <1>5, <2>4 DEF InTail, MaybeGap
    <2>6. QED
      BY <2>3, <2>5
  <1>6. CASE Ahead(pos) = s /\ c.counted
    <2> DEFINE h == ch_h
    <2>1. Ahead(pos) = Cons(h, r) /\ r \in Seq(Char) /\ h \in Char
      BY <1>2, <1>6 DEF Char
    <2>2. At(pos) = h /\ Ahead(pos + 1) = r
      <3> HIDE DEF h, r
      <3>1. QED
        BY <1>1, <2>1, AheadCons
    <2>3. ~at_cmd_start(pos)
      BY <1>6, <2>1, CountIsNoStart
    <2>4. pos' = pos + 1 /\ pc' = "count" /\ acc' = 0 /\ digits' = 0 /\ Same
      <3>1. At(pos) = ch_h /\ At(pos) # NUL /\ At(pos) # Underscore
        BY <2>2
      <3>2. QED
        BY <2>3, <3>1 DEF ReadTail, Fail, FailAt, Advance, input, txn, Same
    <2>5. Ahead(pos)' = r
      BY <2>2, <2>4, AheadPrime DEF Same
    <2>6. c.rd_len \div Place(k) = 0 /\ k \in 1..3
      <3> DEFINE n == c.rd_len
      <3>1. n \in 0..RD_COUNT_MAX
        BY <1>1, MeaningFacts
      <3>2. n \div Place(CountLength(n)) = 0 /\ CountLength(n) \in 1..3
        <4> HIDE DEF n
        <4>1. QED
          BY <1>1, <3>1, DigitsText
      <3>3. QED
        BY <3>2
    <2>7. InCount(c, x)'
      <3> HIDE DEF k, y
      <3>1. k \in 0..3 /\ 0 + k = k
        BY <2>6
      <3>2. digits' + k = CountLength(c.rd_len) /\ acc' = c.rd_len \div Place(k)
        BY <2>4, <2>6, <3>1 DEF k
      <3>3. QED
        BY <1>6, <2>5, <3>1, <3>2 DEF InCount, y
    <2>8. QED
      BY <2>4, <2>7
  <1>7. CASE ~c.counted /\ Ahead(pos) = x
    <2>1. (At(pos) = NUL \/ (At(pos) = ch_h /\ at_cmd_start(pos)))
      BY <1>1, <1>7, CmdAhead
    <2>2. /\ At(pos) = NUL \/ at_cmd_start(pos)
          /\ At(pos) # Underscore
          /\ ~(At(pos) = ch_h /\ ~at_cmd_start(pos))
          /\ At(pos) \in {Underscore, NUL, ch_h}
      BY <2>1
    <2>3. EndCmd([cmd EXCEPT !.rd_len = 0, !.rd_fmt = FMT_NONE], pos)
      BY <2>2 DEF ReadTail
    <2>4. c.rd_len = 0 /\ c.rd_fmt = FMT_NONE
      BY <1>1, <1>7, MeaningFacts
    <2>5. QED
      BY <1>7, <2>3, <2>4 DEF Over
  <1>8. QED
    BY <1>4, <1>5, <1>6, <1>7 DEF InTail, MaybeGap

LEMMA ReadCountReads ==
    ASSUME NEW c, NEW x, Given(c, x), digits \in Nat, InCount(c, x), ReadCount
    PROVE  /\ UNCHANGED <<line, cmds, pool>>
           /\ \/ cmd' = cmd /\ pc' = "count" /\ InCount(c, x)'
              \/ cmd' = [cmd EXCEPT !.rd_len = c.rd_len] /\ pc' = "format" /\ Ahead(pos)' = FormatOnward(c, x)
  <1> PICK n, y, d : n = c.rd_len /\ y = FormatOnward(c, x) /\ d = digits
    OBVIOUS
  <1>1. /\ line \in Seq(Char) /\ pos \in 1..(Len(line) + 1)
        /\ n \in 0..RD_COUNT_MAX /\ y \in Seq(Char) /\ d \in Nat
    BY MeaningFacts, FormatAhead DEF Given
  <1>0. n \in 0..1022
    <2>1. n \in 0..RD_COUNT_MAX
      BY <1>1
    <2>2. QED
      BY <2>1 DEF RD_COUNT_MAX
  <1>2. PICK k \in 0..3 : d + k = CountLength(n) /\ acc = n \div Place(k) /\ Ahead(pos) = CountFrom(n, k, y)
    BY DEF InCount
  <1>3. CountLength(n) \in 1..3 /\ c.counted
    BY <1>1, DigitsText DEF InCount
  <1>4. CASE k # 0
    <2> DEFINE j == k - 1
               h == CountDigitOf(n, k)
               r == CountFrom(n, j, y)
    <2>1. k \in 1..3 /\ j \in 0..3 /\ d < 3 /\ (d + 1) + j = CountLength(n)
      BY <1>1, <1>2, <1>3, <1>4
    <2>2. /\ 16 * (n \div Place(k)) + ((n \div Place(j)) % 16) = n \div Place(j)
          /\ h \in Char /\ is_hex(h) /\ hex_val(h) = (n \div Place(j)) % 16
      BY <1>1, <2>1, CountDigitMeans
    <2>3. Ahead(pos) = Cons(h, r)
      <3>1. k = 1 \/ k = 2 \/ k = 3
        BY <2>1
      <3>2. QED
        BY <1>2, <3>1 DEF CountFrom, CountFrom1, CountFrom2, CountFrom3
    <2>4. r \in Seq(Char)
      <3> HIDE DEF j
      <3>1. QED
        BY <1>1, <2>1, CountFromType
    <2>5. At(pos) = h /\ Ahead(pos + 1) = r
      <3> HIDE DEF h, r
      <3>1. QED
        BY <1>1, <2>2, <2>3, <2>4, AheadCons
    <2>6. /\ acc' = 16 * acc + hex_val(h) /\ digits' = d + 1 /\ pos' = pos + 1
          /\ pc' = "count" /\ cmd' = cmd /\ UNCHANGED <<line, cmds, pool>>
      <3>1. CountDigitAhead
        BY <2>1, <2>2, <2>5 DEF CountDigitAhead, COUNT_DIGITS
      <3>2. CountDigit /\ pc = "count"
        BY <3>1 DEF ReadCount
      <3> HIDE DEF h
      <3>3. QED
        BY <2>5, <3>2 DEF CountDigit, input, txn
    <2>7. Ahead(pos)' = r
      BY <2>5, <2>6, AheadPrime
    <2>8. acc' = n \div Place(j)
      BY <1>2, <2>2, <2>6
    <2>9. InCount(c, x)'
      <3> HIDE DEF j
      <3>1. j \in 0..3 /\ digits' + j = CountLength(n) /\ acc' = n \div Place(j) /\ Ahead(pos)' = CountFrom(n, j, y)
        BY <2>1, <2>6, <2>7, <2>8
      <3>2. QED
        BY <1>3, <3>1 DEF InCount
    <2>10. QED
      BY <2>6, <2>9
  <1>5. CASE k = 0
    <2>1. acc = n /\ Ahead(pos) = y /\ d = CountLength(n)
      <3>1. n \div 1 = n
        BY <1>0
      <3>2. QED
        BY <1>1, <1>2, <1>5, <3>1 DEF Place, CountFrom
    <2>2. ~is_hex(At(pos))
      BY <1>1, <2>1, FormatAhead
    <2>3. d # 0 /\ d > 0 /\ acc <= RD_COUNT_MAX /\ ~(acc > RD_COUNT_MAX)
      BY <1>0, <1>3, <2>1 DEF RD_COUNT_MAX
    <2>4. CountTaken
      BY <2>2, <2>3 DEF ReadCount, CountDigitAhead
    <2>5. /\ cmd' = [cmd EXCEPT !.rd_len = n] /\ pc' = "format" /\ pos' = pos
          /\ UNCHANGED <<line, cmds, pool>>
      BY <2>1, <2>4 DEF CountTaken, input, txn
    <2>6. Ahead(pos)' = y
      BY <2>1, <2>5, AheadPrime
    <2>7. QED
      BY <2>5, <2>6
  <1>6. QED
    BY <1>4, <1>5

LEMMA ReadFormatReads ==
    ASSUME NEW c, NEW x, Given(c, x), InFormat(c, x), ReadFormat
    PROVE  /\ UNCHANGED <<line, cmds, pool>>
           /\ cmd' = [cmd EXCEPT !.rd_fmt = c.rd_fmt] /\ pc' = "close" /\ Ahead(pos)' = Cons(Underscore, x)
  <1> DEFINE f == c.rd_fmt
             z == Cons(Underscore, x)
             y == FormatOnward(c, x)
  <1>1. /\ line \in Seq(Char) /\ pos \in 1..(Len(line) + 1) /\ x \in Seq(Char)
        /\ f \in Selector \cup {FMT_NONE} /\ c.counted
        /\ (c.rd_len > 0 => f # FMT_NONE) /\ c.rd_len \in 0..RD_COUNT_MAX
    BY MeaningFacts DEF Given, InFormat
  <1>2. Ahead(pos) = y /\ cmd.rd_len = c.rd_len
    BY DEF InFormat
  <1>3. /\ z \in Seq(Char)
        /\ f = FMT_NONE => y = z
        /\ f # FMT_NONE => y = Cons(f, z) /\ f \in Char
    BY FormatAhead
  <1>4. CASE f # FMT_NONE
    <2>1. At(pos) = f /\ Ahead(pos + 1) = z
      <3>1. Ahead(pos) = Cons(f, z) /\ f \in Char
        BY <1>2, <1>3, <1>4
      <3> HIDE DEF f, z
      <3>2. QED
        BY <1>1, <1>3, <3>1, AheadCons
    <2>2. At(pos) \in Selector
      BY <1>1, <1>4, <2>1
    <2>3. /\ cmd' = [cmd EXCEPT !.rd_fmt = f] /\ pc' = "close" /\ pos' = pos + 1
          /\ UNCHANGED <<line, cmds, pool>>
      <3> HIDE DEF f
      <3>1. QED
        BY <2>1, <2>2 DEF ReadFormat, Fail, input, txn
    <2>4. QED
      BY <2>1, <2>3, AheadPrime
  <1>5. CASE f = FMT_NONE
    <2>1. Ahead(pos) = Cons(Underscore, x)
      BY <1>2, <1>3, <1>5
    <2>2. At(pos) \notin Selector
      BY <1>1, <2>1, SeparatorAhead
    <2>3. cmd.rd_len = 0 /\ ~(cmd.rd_len > 0)
      <3> DEFINE n == c.rd_len
      <3>0. n \in 0..RD_COUNT_MAX /\ ~(n > 0)
        BY <1>1, <1>5
      <3> HIDE DEF n
      <3>1. n \in 0..1022 /\ ~(n > 0)
        BY <3>0 DEF RD_COUNT_MAX
      <3>3. n = 0
        BY <3>1
      <3>4. c.rd_len = 0
        BY <3>3 DEF n
      <3>2. QED
        BY <1>2, <3>4
    <2>4. /\ cmd' = [cmd EXCEPT !.rd_fmt = FMT_NONE] /\ pc' = "close" /\ pos' = pos
          /\ UNCHANGED <<line, cmds, pool>>
      BY <2>2, <2>3 DEF ReadFormat, Fail, input, txn
    <2>5. QED
      BY <1>5, <2>1, <2>4, AheadPrime
  <1>6. QED
    BY <1>4, <1>5

LEMMA ReadCloseReads ==
    ASSUME NEW c, NEW x, Given(c, x), cmd \in Slot, InClose(c, x), ReadClose
    PROVE  Over(c, x, <<>>)
  <1>1. /\ line \in Seq(Char) /\ pos \in 1..(Len(line) + 1) /\ x \in Seq(Char)
        /\ cmd.rd_len = c.rd_len /\ cmd.rd_fmt = c.rd_fmt /\ Ahead(pos) = Cons(Underscore, x)
    BY DEF Given, InClose
  <1>2. At(pos) = Underscore /\ Ahead(pos + 1) = x
    BY <1>1, SeparatorAhead
  <1>3. EndCmd(cmd, pos + 1)
    BY <1>2 DEF ReadClose
  <1>4. cmd = [cmd EXCEPT !.rd_len = c.rd_len, !.rd_fmt = c.rd_fmt]
    BY <1>1 DEF Slot
  <1>5. QED
    BY <1>2, <1>3, <1>4 DEF Over

-----------------------------------------------------------------------------
(* The command that is being decoded. *)

\* What its slot has of c so far.
Known(c) ==
    /\ cmd.kind = c.kind /\ cmd.ctrl_byte = c.ctrl_byte
    /\ pc \notin {"addr", "addrByte"} => cmd.internal_addr = c.internal_addr
    /\ c.kind = "write" => cmd.rd_len = 0 /\ cmd.rd_fmt = FMT_NONE

\* How far the loop that runs is, with m the bytes that are not decoded yet.
Position(c, x, m) ==
    /\ pc \notin {"payload", "run", "bits"} => m = Data(c)
    /\ pc = "addr"     => InAddr(c, x)
    /\ pc = "addrByte" => InAddrByte(c, x)
    /\ pc = "payload"  => InPayload(c, x, m)
    /\ pc = "run"      => InRun(c, x, m)
    /\ pc = "bits"     => InRunBits(c, x, m)
    /\ pc = "tail"     => InTail(c, x)
    /\ pc = "count"    => InCount(c, x)
    /\ pc = "format"   => InFormat(c, x)
    /\ pc = "close"    => InClose(c, x)

\* A step goes on with the command, or decodes a byte of it, or ends it.
GoesOn(c, x, m) ==
    /\ UNCHANGED <<line, cmds>> /\ Decoding' /\ Known(c)' /\ Position(c, x, m)'
    /\ cmd'.payload_off = cmd.payload_off

Outcome(c, x, m) ==
    \/ pool' = pool /\ GoesOn(c, x, m)
    \/ \E b \in Byte, n \in Seq(Byte) : m = Cons(b, n) /\ pool' = Append(pool, b) /\ GoesOn(c, x, n)
    \/ Over(c, x, m)

LEMMA TookOutcome ==
    ASSUME NEW c, NEW x, NEW m, cmd \in Slot, Known(c), pc \in {"run", "bits"}, Took(c, x, m)
    PROVE  Outcome(c, x, m)
  <1>1. PICK b \in Byte, n \in Seq(Byte) : m = Cons(b, n) /\ (\E p : StoreByte(b, p)) /\ InRun(c, x, n)'
    BY DEF Took
  <1>2. /\ pool' = Append(pool, b) /\ pc' = "run" /\ UNCHANGED <<line, cmds>>
        /\ cmd' = [cmd EXCEPT !.payload_len = @ + 1]
    BY <1>1 DEF StoreByte, input
  <1>3. Known(c)' /\ cmd'.payload_off = cmd.payload_off
    BY <1>2 DEF Known, Slot
  <1>4. Position(c, x, n)' /\ Decoding'
    BY <1>1, <1>2 DEF Position, Decoding
  <1>5. QED
    BY <1>1, <1>2, <1>3, <1>4 DEF Outcome, GoesOn

LEMMA StoredOutcome ==
    ASSUME NEW c, NEW x, NEW m, Given(c, x), cmd \in Slot, Known(c), m = Data(c),
           NEW p, Ahead(p) = Rest(c, x), StoreAddr(c.internal_addr, p)
    PROVE  Outcome(c, x, m)
  <1> PICK d : d = Data(c)
    OBVIOUS
  <1>1. cmd.kind = c.kind /\ c.kind \in {"read", "write"}
    BY MeaningFacts DEF Known, Given
  <1>2. /\ UNCHANGED <<line, cmds, pool>>
        /\ cmd' = [cmd EXCEPT !.internal_addr = c.internal_addr]
        /\ c.kind = "read"  => pc' = "tail" /\ InTail(c, x)'
        /\ c.kind = "write" => pc' = "payload" /\ InPayload(c, x, Data(c))'
    BY <1>1, AddrStored
  <1>3. Known(c)' /\ cmd'.payload_off = cmd.payload_off
    BY <1>2 DEF Known, Slot
  <1>4. Position(c, x, m)' /\ Decoding'
    BY <1>1, <1>2 DEF Position, Decoding
  <1>5. QED
    BY <1>2, <1>3, <1>4 DEF Outcome, GoesOn

LEMMA AddrOutcome ==
    ASSUME NEW c, NEW x, NEW m, Given(c, x), cmd \in Slot, Known(c), Position(c, x, m),
           digits \in 0..8, AddrSelector \/ AddrHex \/ AddrAscii \/ AddrBin
    PROVE  Outcome(c, x, m)
  <1>1. CASE AddrSelector
    <2>1. pc = "addr"
      BY <1>1 DEF AddrSelector
    <2>2. m = Data(c) /\ InAddr(c, x)
      BY <2>1 DEF Position
    <2>3. Same /\ ((pc' = "addr" /\ InAddr(c, x)') \/ (pc' = "addrByte" /\ InAddrByte(c, x)'))
      BY <1>1, <2>2, AddrSelectorReads
    <2>4. Known(c)'
      BY <2>3 DEF Known, Same
    <2>5. Position(c, x, m)' /\ Decoding'
      BY <2>2, <2>3 DEF Position, Decoding
    <2>6. QED
      BY <2>3, <2>4, <2>5 DEF Outcome, GoesOn, Same
  <1>2. CASE AddrHex \/ AddrAscii \/ AddrBin
    <2>1. pc = "addrByte"
      BY <1>2 DEF AddrHex, AddrAscii, AddrBin
    <2>2. m = Data(c) /\ InAddrByte(c, x) /\ cmd.kind = c.kind
      BY <2>1 DEF Position, Known
    <2>3. \/ Same /\ pc' = pc /\ InAddrByte(c, x)'
          \/ \E p : Ahead(p) = Rest(c, x) /\ StoreAddr(c.internal_addr, p)
      BY <1>2, <2>2, AddrHexReads, AddrAsciiReads, AddrBinReads
    <2>4. CASE Same /\ pc' = pc /\ InAddrByte(c, x)'
      <3>1. Known(c)'
        BY <2>4 DEF Known, Same
      <3>2. Position(c, x, m)' /\ Decoding'
        BY <2>1, <2>2, <2>4 DEF Position, Decoding
      <3>3. QED
        BY <2>4, <3>1, <3>2 DEF Outcome, GoesOn, Same
    <2>5. CASE \E p : Ahead(p) = Rest(c, x) /\ StoreAddr(c.internal_addr, p)
      <3>1. PICK p : Ahead(p) = Rest(c, x) /\ StoreAddr(c.internal_addr, p)
        BY <2>5
      <3>2. QED
        BY <2>2, <3>1, StoredOutcome
    <2>6. QED
      BY <2>3, <2>4, <2>5
  <1>3. QED
    BY <1>1, <1>2

LEMMA PayloadOutcome ==
    ASSUME NEW c, NEW x, NEW m, Given(c, x), cmd \in Slot, Known(c), Position(c, x, m),
           cmd.kind = "write", got \in Nat, digits \in 0..8, Room(m),
           PayloadHead \/ HexRun \/ BinRun \/ BinByte \/ AsciiRun
    PROVE  Outcome(c, x, m)
  <1>1. /\ c.kind = "write" /\ cmd.rd_len = c.rd_len /\ cmd.rd_fmt = c.rd_fmt
    BY MeaningFacts DEF Known, Given
  <1>2. ASSUME Same, pc \notin {"addr", "addrByte"},
               \/ pc' = "payload" /\ InPayload(c, x, m)'
               \/ pc' = "run" /\ InRun(c, x, m)'
               \/ pc' = "bits" /\ InRunBits(c, x, m)'
        PROVE  Outcome(c, x, m)
    <2>1. Known(c)'
      BY <1>2 DEF Known, Same
    <2>2. Position(c, x, m)' /\ Decoding'
      BY <1>2 DEF Position, Decoding
    <2>3. QED
      BY <1>2, <2>1, <2>2 DEF Outcome, GoesOn, Same
  <1>3. CASE PayloadHead
    <2>1. pc = "payload"
      BY <1>3 DEF PayloadHead
    <2>2. InPayload(c, x, m)
      BY <2>1 DEF Position
    <2>3. \/ Same /\ ((pc' = "payload" /\ InPayload(c, x, m)') \/ (pc' = "run" /\ InRun(c, x, m)'))
          \/ Over(c, x, m)
      BY <1>1, <1>3, <2>2, PayloadHeadReads
    <2>4. QED
      BY <1>2, <2>1, <2>3 DEF Outcome
  <1>4. CASE HexRun \/ AsciiRun \/ BinRun
    <2>1. pc = "run"
      BY <1>4 DEF HexRun, AsciiRun, BinRun
    <2>2. InRun(c, x, m)
      BY <2>1 DEF Position
    <2>3. \/ Same /\ ((pc' = "payload" /\ InPayload(c, x, m)') \/ (pc' = "bits" /\ InRunBits(c, x, m)'))
          \/ Took(c, x, m)
      BY <1>4, <2>2, HexRunReads, AsciiRunReads, BinRunReads
    <2>4. QED
      BY <1>2, <2>1, <2>3, TookOutcome
  <1>5. CASE BinByte
    <2>1. pc = "bits"
      BY <1>5 DEF BinByte
    <2>2. InRunBits(c, x, m)
      BY <2>1 DEF Position
    <2>3. (Same /\ pc' = "bits" /\ InRunBits(c, x, m)') \/ Took(c, x, m)
      BY <1>5, <2>2, BinByteReads
    <2>4. QED
      BY <1>2, <2>1, <2>3, TookOutcome
  <1>6. QED
    BY <1>3, <1>4, <1>5

LEMMA ReadOutcome ==
    ASSUME NEW c, NEW x, NEW m, Given(c, x), cmd \in Slot, Known(c), Position(c, x, m),
           cmd.kind = "read", digits \in 0..8, ReadTail \/ ReadCount \/ ReadFormat \/ ReadClose
    PROVE  Outcome(c, x, m)
  <1>1. c.kind = "read" /\ digits \in Nat
    BY DEF Known
  <1>2. pc \in {"tail", "count", "format", "close"}
    BY DEF ReadTail, ReadCount, ReadFormat, ReadClose
  <1>3. m = Data(c) /\ m = <<>>
    BY <1>1, <1>2, DataMeans DEF Position, Given
  <1>4. ASSUME UNCHANGED <<line, cmds, pool>>,
               cmd' \in {cmd, [cmd EXCEPT !.rd_len = c.rd_len], [cmd EXCEPT !.rd_fmt = c.rd_fmt]},
               \/ pc' = "tail" /\ InTail(c, x)'
               \/ pc' = "count" /\ InCount(c, x)'
               \/ pc' = "format" /\ InFormat(c, x)'
               \/ pc' = "close" /\ InClose(c, x)'
        PROVE  Outcome(c, x, m)
    <2>1. Known(c)' /\ cmd'.payload_off = cmd.payload_off
      BY <1>1, <1>2, <1>4 DEF Known, Slot
    <2>2. Position(c, x, m)' /\ Decoding'
      BY <1>3, <1>4 DEF Position, Decoding
    <2>3. QED
      BY <1>4, <2>1, <2>2 DEF Outcome, GoesOn
  <1>5. CASE ReadTail
    <2>1. pc = "tail"
      BY <1>5 DEF ReadTail
    <2>2. InTail(c, x)
      BY <2>1 DEF Position
    <2>3. \/ Same /\ ((pc' = "tail" /\ InTail(c, x)') \/ (pc' = "count" /\ InCount(c, x)'))
          \/ Over(c, x, <<>>)
      BY <1>1, <1>5, <2>2, ReadTailReads
    <2>4. CASE Over(c, x, <<>>)
      BY <1>3, <2>4 DEF Outcome
    <2>5. CASE Same /\ ((pc' = "tail" /\ InTail(c, x)') \/ (pc' = "count" /\ InCount(c, x)'))
      BY <1>4, <2>5 DEF Same
    <2>6. QED
      BY <2>3, <2>4, <2>5
  <1>6. CASE ReadCount
    <2>1. pc = "count"
      BY <1>6 DEF ReadCount
    <2>2. InCount(c, x)
      BY <2>1 DEF Position
    <2>3. /\ UNCHANGED <<line, cmds, pool>>
          /\ \/ cmd' = cmd /\ pc' = "count" /\ InCount(c, x)'
             \/ cmd' = [cmd EXCEPT !.rd_len = c.rd_len] /\ pc' = "format" /\ Ahead(pos)' = FormatOnward(c, x)
      BY <1>1, <1>6, <2>2, ReadCountReads
    <2>4. CASE cmd' = cmd /\ pc' = "count" /\ InCount(c, x)'
      BY <1>4, <2>3, <2>4
    <2>5. CASE cmd' = [cmd EXCEPT !.rd_len = c.rd_len] /\ pc' = "format" /\ Ahead(pos)' = FormatOnward(c, x)
      <3>1. cmd'.rd_len = c.rd_len /\ c.counted
        BY <2>2, <2>5 DEF Slot, InCount
      <3>2. InFormat(c, x)'
        BY <2>5, <3>1 DEF InFormat
      <3>3. QED
        BY <1>4, <2>3, <2>5, <3>2
    <2>6. QED
      BY <2>3, <2>4, <2>5
  <1>7. CASE ReadFormat
    <2>1. pc = "format"
      BY <1>7 DEF ReadFormat
    <2>2. InFormat(c, x)
      BY <2>1 DEF Position
    <2>3. /\ UNCHANGED <<line, cmds, pool>>
          /\ cmd' = [cmd EXCEPT !.rd_fmt = c.rd_fmt] /\ pc' = "close" /\ Ahead(pos)' = Cons(Underscore, x)
      BY <1>7, <2>2, ReadFormatReads
    <2>4. cmd'.rd_len = c.rd_len /\ cmd'.rd_fmt = c.rd_fmt
      BY <2>2, <2>3 DEF Slot, InFormat
    <2>5. InClose(c, x)'
      BY <2>3, <2>4 DEF InClose
    <2>6. QED
      BY <1>4, <2>3, <2>5
  <1>8. CASE ReadClose
    <2>1. pc = "close"
      BY <1>8 DEF ReadClose
    <2>2. InClose(c, x)
      BY <2>1 DEF Position
    <2>3. Over(c, x, <<>>)
      BY <1>8, <2>2, ReadCloseReads
    <2>4. QED
      BY <1>3, <2>3 DEF Outcome
  <1>9. QED
    BY <1>5, <1>6, <1>7, <1>8

\* A step of the call, while it decodes a command.
LEMMA DecodingOutcome ==
    ASSUME NEW c, NEW x, NEW m, Given(c, x), IInv, Decoding, Known(c), Position(c, x, m), Room(m), Step
    PROVE  Outcome(c, x, m)
  <1>1. cmd \in Slot /\ digits \in 0..8 /\ got \in Nat
    BY DEF IInv, TypeOK, BYTE_BITS
  <1>2. /\ pc \in {"payload", "run", "bits"} => cmd.kind = "write"
        /\ pc \in {"tail", "count", "format", "close"} => cmd.kind = "read"
    BY DEF IInv, PhaseInv
  <1>3. pc \notin {"entry", "chain", "special"}
    BY DEF Decoding
  <1>4. ~(SkipBlank \/ Dispatch \/ Chain \/ BeginCmd)
    BY <1>3 DEF SkipBlank, Dispatch, Chain, BeginCmd
  <1>5. ~(SpecialOut \/ SpecialInp \/ SpecialHelp \/ SpecialUnknown)
    BY <1>3 DEF SpecialOut, SpecialInp, SpecialHelp, SpecialUnknown
  <1>6. CASE AddrSelector \/ AddrHex \/ AddrAscii \/ AddrBin
    BY <1>1, <1>6, AddrOutcome
  <1>7. CASE PayloadHead \/ HexRun \/ BinRun \/ BinByte \/ AsciiRun
    <2>1. pc \in {"payload", "run", "bits"}
      BY <1>7 DEF PayloadHead, HexRun, BinRun, BinByte, AsciiRun
    <2>2. cmd.kind = "write"
      BY <1>2, <2>1
    <2>3. QED
      BY <1>1, <1>7, <2>2, PayloadOutcome
  <1>8. CASE ReadTail \/ ReadCount \/ ReadFormat \/ ReadClose
    <2>1. pc \in {"tail", "count", "format", "close"}
      BY <1>8 DEF ReadTail, ReadCount, ReadFormat, ReadClose
    <2>2. cmd.kind = "read"
      BY <1>2, <2>1
    <2>3. QED
      BY <1>1, <1>8, <2>2, ReadOutcome
  <1>9. QED
    BY <1>4, <1>5, <1>6, <1>7, <1>8 DEF Step

-----------------------------------------------------------------------------
(* The bytes of the commands, in the pool. *)

LEMMA AppendCat ==
    ASSUME NEW S, NEW s \in Seq(S), NEW b \in S, NEW n \in Seq(S)
    PROVE  Append(s, b) ++ n = s ++ Cons(b, n)
  <1> DEFINE l == <<b>>
  <1>1. l \in Seq(S) /\ Append(s, b) = s ++ l /\ Cons(b, n) = l ++ n
    BY OneType, AppendIsConcat DEF ++, Cons
  <1> HIDE DEF l
  <1>2. (s ++ l) ++ n = s ++ (l ++ n)
    BY <1>1, CatAssoc
  <1>3. QED
    BY <1>1, <1>2

LEMMA SliceOfAppend ==
    ASSUME NEW S, NEW s \in Seq(S), NEW b \in S, NEW a \in Nat, NEW k \in Nat, a + k <= Len(s)
    PROVE  SubSeq(Append(s, b), a + 1, a + k) = SubSeq(s, a + 1, a + k)
  <1> DEFINE t == Append(s, b)
             u == SubSeq(s, a + 1, a + k)
             v == SubSeq(t, a + 1, a + k)
  <1>1. t \in Seq(S) /\ Len(t) = Len(s) + 1 /\ \A i \in 1..Len(s) : t[i] = s[i]
    BY AppendProperties
  <1>2. a + k <= Len(t) /\ \A j \in 1..k : a + j \in 1..Len(s)
    BY <1>1
  <1>3. u \in Seq(S) /\ Len(u) = k /\ \A j \in 1..k : u[j] = s[a + j]
    BY SliceMeans
  <1>4. v \in Seq(S) /\ Len(v) = k /\ \A j \in 1..k : v[j] = t[a + j]
    <2> HIDE DEF t
    <2>1. QED
      BY <1>1, <1>2, SliceMeans
  <1>5. \A j \in 1..k : v[j] = u[j]
    <2> HIDE DEF t, u, v
    <2>1. QED
      BY <1>1, <1>2, <1>3, <1>4
  <1> HIDE DEF u, v
  <1>6. v = u
    BY <1>3, <1>4, <1>5, SeqEqual
  <1>7. QED
    BY <1>6 DEF u, v

LEMMA TailOfAppend ==
    ASSUME NEW S, NEW s \in Seq(S), NEW b \in S, NEW a \in Nat, a <= Len(s)
    PROVE  SubSeq(Append(s, b), a + 1, Len(Append(s, b))) = Append(SubSeq(s, a + 1, Len(s)), b)
  <1> DEFINE t == Append(s, b)
             k == Len(s) - a
             l == k + 1
             u == SubSeq(s, a + 1, a + k)
             v == SubSeq(t, a + 1, a + l)
             w == Append(u, b)
  <1>1. /\ t \in Seq(S) /\ Len(t) = Len(s) + 1 /\ t[Len(s) + 1] = b
        /\ \A i \in 1..Len(s) : t[i] = s[i]
    BY AppendProperties
  <1>2. /\ Len(s) \in Nat /\ k \in Nat /\ l \in Nat /\ a + k = Len(s) /\ a + l = Len(s) + 1 /\ l = k + 1
        /\ \A j \in 1..l : j # l => j \in 1..k /\ a + j \in 1..Len(s)
    OBVIOUS
  <1> HIDE DEF k, l
  <1>3. u \in Seq(S) /\ Len(u) = k /\ \A j \in 1..k : u[j] = s[a + j]
    <2>1. a + k <= Len(s)
      BY <1>2
    <2>2. QED
      BY <1>2, <2>1, SliceMeans
  <1>4. v \in Seq(S) /\ Len(v) = l /\ \A j \in 1..l : v[j] = t[a + j]
    <2> HIDE DEF t
    <2>1. a + l <= Len(t)
      BY <1>1, <1>2
    <2>2. QED
      BY <1>1, <1>2, <2>1, SliceMeans
  <1>5. w \in Seq(S) /\ Len(w) = l /\ w[l] = b /\ \A j \in 1..k : w[j] = u[j]
    <2> HIDE DEF u
    <2>1. QED
      BY <1>2, <1>3, AppendProperties
  <1>6. \A j \in 1..l : v[j] = w[j]
    <2> HIDE DEF t, u, v, w
    <2> TAKE j \in 1..l
    <2>1. CASE j = l
      BY <1>1, <1>2, <1>4, <1>5, <2>1
    <2>2. CASE j # l
      BY <1>1, <1>2, <1>3, <1>4, <1>5, <2>2
    <2>3. QED
      BY <2>1, <2>2
  <1>7. v = w
    <2> HIDE DEF v, w
    <2>1. QED
      BY <1>4, <1>5, <1>6, SeqEqual
  <1>8. QED
    BY <1>1, <1>2, <1>7

Held == SubSeq(pool, cmd.payload_off + 1, Len(pool))

LEMMA HeldFacts ==
    ASSUME IInv, Decoding
    PROVE  /\ pool \in Seq(Byte) /\ cmd.payload_off \in Nat /\ cmd.payload_off <= Len(pool)
           /\ Held \in Seq(Byte) /\ Len(Held) = cmd.payload_len /\ SliceEnd(cmd) = Len(pool)
  <1>1. pool \in Seq(Byte) /\ cmd \in Slot /\ cmd.payload_off + cmd.payload_len = Len(pool)
    BY DEF IInv, TypeOK, SlicesTile, SliceEnd
  <1>2. cmd.payload_off \in Nat /\ cmd.payload_len \in Nat
    BY <1>1, LimitsType DEF Slot
  <1> PICK a, k : a = cmd.payload_off /\ k = cmd.payload_len
    OBVIOUS
  <1>3. SubSeq(pool, a + 1, a + k) \in Seq(Byte) /\ Len(SubSeq(pool, a + 1, a + k)) = k
    BY <1>1, <1>2, SliceMeans
  <1>4. a + k = Len(pool) /\ a <= Len(pool)
    BY <1>1, <1>2
  <1>5. QED
    BY <1>1, <1>2, <1>3, <1>4 DEF Held, SliceEnd

LEMMA RoomFor ==
    ASSUME IInv, Decoding, NEW c, NEW m \in Seq(Byte), NEW z \in Seq(Byte),
           Held ++ m = Data(c), Len(Data(c)) <= PAYLOAD_MAX, Len(pool ++ (m ++ z)) <= POOL_SIZE
    PROVE  Room(m)
  <1>1. pool \in Seq(Byte) /\ Held \in Seq(Byte) /\ Len(Held) = cmd.payload_len
    BY HeldFacts
  <1>2. Len(Held ++ m) = Len(Held) + Len(m)
    BY <1>1, ConcatProperties DEF ++
  <1>3. m ++ z \in Seq(Byte) /\ Len(m ++ z) = Len(m) + Len(z)
    BY ConcatProperties DEF ++
  <1>4. Len(pool ++ (m ++ z)) = Len(pool) + Len(m ++ z)
    BY <1>1, <1>3, ConcatProperties DEF ++
  <1>5. Len(pool) \in Nat /\ Len(Held) \in Nat /\ Len(m) \in Nat /\ Len(z) \in Nat
    BY <1>1
  <1>6. m # <<>> => Len(m) # 0
    BY EmptySeq
  <1>7. QED
    BY <1>1, <1>2, <1>3, <1>4, <1>5, <1>6, LimitsType DEF Room

\* What the commands decoded so far own does not change.
LEMMA DecodedStays ==
    ASSUME NEW k \in Slot, SliceEnd(k) <= Len(pool), pool \in Seq(Byte),
           pool' = pool \/ \E b \in Byte : pool' = Append(pool, b)
    PROVE  Decoded(k)' = Decoded(k)
  <1> DEFINE a == k.payload_off
             l == k.payload_len
  <1>1. a \in Nat /\ l \in Nat /\ SliceEnd(k) = a + l
    BY LimitsType DEF Slot, SliceEnd
  <1>2. SubSeq(pool, a + 1, a + l)' = SubSeq(pool, a + 1, a + l)
    <2>1. CASE pool' = pool
      BY <2>1
    <2>2. CASE \E b \in Byte : pool' = Append(pool, b)
      <3>1. PICK b \in Byte : pool' = Append(pool, b)
        BY <2>2
      <3> HIDE DEF a, l
      <3>2. SubSeq(Append(pool, b), a + 1, a + l) = SubSeq(pool, a + 1, a + l)
        BY <1>1, SliceOfAppend
      <3>3. QED
        BY <3>1, <3>2
    <2>3. QED
      BY <2>1, <2>2
  <1>3. QED
    BY <1>2 DEF Decoded, SliceEnd

\* A command that is over has been decoded to what was meant.
LEMMA OverDecodes ==
    ASSUME NEW c, NEW x, NEW m, Given(c, x), IInv, Decoding, Known(c),
           pc \notin {"addr", "addrByte"}, Over(c, x, m), Held ++ m = Data(c)
    PROVE  /\ UNCHANGED <<line, pool>> /\ pc' = "chain" /\ Ahead(pos)' = x
           /\ \E k \in Slot : /\ cmds' = Append(cmds, k)
                              /\ Decoded(k)' = Meant(c)
  <1>1. PICK k, p : /\ EndCmd(k, p) /\ Ahead(p) = x
                    /\ k = [cmd EXCEPT !.rd_len = c.rd_len, !.rd_fmt = c.rd_fmt]
    BY DEF Over
  <1>2. UNCHANGED <<line, pool>> /\ pc' = "chain" /\ pos' = p /\ cmds' = Append(cmds, k)
    BY <1>1 DEF EndCmd, input
  <1>3. Ahead(pos)' = x
    BY <1>1, <1>2, AheadPrime
  <1>4. Held = Data(c)
    <2>1. m = <<>> /\ Held \in Seq(Byte)
      BY HeldFacts DEF Over
    <2>2. Held ++ <<>> = Held
      <3> DEFINE h == Held
      <3>1. h \in Seq(Byte)
        BY <2>1
      <3> HIDE DEF h
      <3>2. h ++ <<>> = h
        BY <3>1, CatNone
      <3>3. QED
        BY <3>2 DEF h
    <2>3. QED
      BY <2>1, <2>2
  <1>5. cmd \in Slot /\ c.rd_len \in 0..RD_COUNT_MAX /\ c.rd_fmt \in Selector \cup {FMT_NONE}
    BY MeaningFacts DEF IInv, TypeOK, Given
  <1>6. /\ k \in Slot /\ k.kind = cmd.kind /\ k.ctrl_byte = cmd.ctrl_byte
        /\ k.internal_addr = cmd.internal_addr /\ k.rd_len = c.rd_len /\ k.rd_fmt = c.rd_fmt
        /\ k.payload_off = cmd.payload_off /\ SliceEnd(k) = SliceEnd(cmd)
    BY <1>1, <1>5 DEF Slot, SliceEnd
  <1>7. SubSeq(pool, k.payload_off + 1, SliceEnd(k)) = Data(c)
    BY <1>4, <1>6, HeldFacts DEF Held
  <1>8. SubSeq(pool, k.payload_off + 1, SliceEnd(k))' = Data(c)
    BY <1>2, <1>7 DEF SliceEnd
  <1>9. Decoded(k)' = Meant(c)
    BY <1>6, <1>8 DEF Decoded, Meant, Known
  <1>10. QED
    BY <1>2, <1>3, <1>6, <1>9


-----------------------------------------------------------------------------
(* The call on the text of t. *)

CmdInv(c, x, m) == Known(c) /\ Position(c, x, m) /\ Held ++ m = Data(c)

\* The commands counted so far are the ones that were meant, ...
SoFar(t) == \A j \in 1..Len(cmds) : \E k \in Slot : k = cmds[j] /\ Decoded(k) = Meant(t[j])

\* ... the text and the bytes of the others are ahead, ...
Between(t) ==
    \E n \in 1..(Len(t) + 1) :
        /\ n = Len(cmds) + 1
        /\ Ahead(pos) = Onward(CmdTexts(t), n)
        /\ pool ++ Onward(CmdBytes(t), n) = FlattenSeq(CmdBytes(t))

\* ... or in one of them, with m the bytes of it that are not decoded yet.
Within(t) ==
    \E n \in 1..Len(t), m \in Seq(Byte) :
        /\ n = Len(cmds) + 1
        /\ CmdInv(t[n], Onward(CmdTexts(t), n + 1), m)
        /\ pool ++ (m ++ Onward(CmdBytes(t), n + 1)) = FlattenSeq(CmdBytes(t))

Reads(t) ==
    /\ t \in INTENTS
    /\ SoFar(t)
    /\ \/ pc \in {"entry", "chain"} /\ Between(t)
       \/ Decoding /\ Within(t)
       \/ pc = "accepted" /\ Len(cmds) = Len(t)

LEMMA SoFarStays ==
    ASSUME NEW t, IInv, SoFar(t), cmds' = cmds,
           pool' = pool \/ \E b \in Byte : pool' = Append(pool, b)
    PROVE  SoFar(t)'
  <1>1. ASSUME NEW j \in 1..Len(cmds)
        PROVE  \E k \in Slot : k = cmds[j] /\ Decoded(k)' = Meant(t[j])
    <2>1. PICK k \in Slot : k = cmds[j] /\ Decoded(k) = Meant(t[j])
      BY DEF SoFar
    <2>2. pool \in Seq(Byte)
      BY DEF IInv, TypeOK
    <2>3. SliceEnd(k) <= Len(pool)
      <3>1. EndOf(j) <= Len(pool)
        BY DEF IInv, SlicesTile
      <3>2. EndOf(j) = SliceEnd(k)
        BY <2>1 DEF EndOf
      <3>3. QED
        BY <3>1, <3>2
    <2>4. Decoded(k)' = Decoded(k)
      BY <2>2, <2>3, DecodedStays
    <2>5. QED
      BY <2>1, <2>4
  <1>2. QED
    BY <1>1 DEF SoFar, Slot

\* A command is counted that was meant.
LEMMA SoFarGrows ==
    ASSUME NEW t, IInv, SoFar(t), NEW k \in Slot, cmds' = Append(cmds, k), pool' = pool,
           NEW n, n = Len(cmds) + 1, Decoded(k)' = Meant(t[n])
    PROVE  SoFar(t)' /\ Len(cmds') = n
  <1>1. /\ cmds \in Seq(Slot) /\ Len(cmds') = n /\ cmds'[n] = k
        /\ \A j \in 1..Len(cmds) : cmds'[j] = cmds[j]
    BY AppendProperties DEF IInv, TypeOK
  <1>2. ASSUME NEW j \in 1..n
        PROVE  \E l \in Slot : l = cmds'[j] /\ Decoded(l)' = Meant(t[j])
    <2>1. CASE j = n
      BY <1>1, <2>1
    <2>2. CASE j # n
      <3>1. j \in 1..Len(cmds)
        BY <1>1, <2>2
      <3>2. PICK l \in Slot : l = cmds[j] /\ Decoded(l) = Meant(t[j])
        BY <3>1 DEF SoFar
      <3>3. Decoded(l)' = Decoded(l)
        BY DEF Decoded, SliceEnd
      <3>4. QED
        BY <1>1, <3>1, <3>2, <3>3
    <2>3. QED
      BY <2>1, <2>2
  <1>3. QED
    BY <1>1, <1>2 DEF SoFar, Slot


\* Where the command that is being decoded stands in t.
LEMMA WithinFacts ==
    ASSUME NEW t \in INTENTS, IInv, NEW n \in 1..Len(t)
    PROVE  LET x == Onward(CmdTexts(t), n + 1)
               z == Onward(CmdBytes(t), n + 1)
           IN  /\ Given(t[n], x) /\ Len(Data(t[n])) <= PAYLOAD_MAX /\ Data(t[n]) \in Seq(Byte)
               /\ z \in Seq(Byte)
               /\ n + 1 \in 1..(Len(t) + 1)
  <1>1. /\ Len(t) \in Nat /\ t[n] \in Meaning /\ Grammatical(t[n])
        /\ Len(Data(t[n])) <= PAYLOAD_MAX
    BY TxnFacts
  <1> DEFINE k == n + 1
  <1>2. k \in 1..(Len(t) + 1)
    BY <1>1
  <1>3. /\ Onward(CmdTexts(t), k) \in Seq(Char) /\ Onward(CmdBytes(t), k) \in Seq(Byte)
        /\ NextCmd(Onward(CmdTexts(t), k))
    <2> HIDE DEF k
    <2>1. QED
      BY <1>2, OnwardFacts
  <1>4. line \in Seq(Char) /\ pos \in 1..(Len(line) + 1)
    BY DEF IInv, TypeOK, Char
  <1>5. Data(t[n]) \in Seq(Byte)
    BY <1>1, DataMeans
  <1>6. QED
    BY <1>1, <1>2, <1>3, <1>4, <1>5 DEF Given

\* No command ends before its internal address is known.
LEMMA AddrIsNotOver ==
    ASSUME pc \in {"addr", "addrByte"}, Step
    PROVE  pc' # "chain"
  <1>1. AddrSelector \/ AddrHex \/ AddrAscii \/ AddrBin
    BY DEF Step, SkipBlank, Dispatch, Chain, BeginCmd, PayloadHead, HexRun, BinRun, BinByte, AsciiRun,
           ReadTail, ReadCount, ReadFormat, ReadClose, SpecialOut, SpecialInp, SpecialHelp, SpecialUnknown
  <1>2. CASE AddrSelector
    BY <1>2 DEF AddrSelector, Advance, Fail, FailAt
  <1>3. CASE AddrHex
    BY <1>3 DEF AddrHex, StoreAddr, Fail, FailAt
  <1>4. CASE AddrAscii
    BY <1>4 DEF AddrAscii, StoreAddr, Fail, FailAt
  <1>5. CASE AddrBin
    BY <1>5 DEF AddrBin, ShiftBit, StoreAddr, Advance, Fail, FailAt
  <1>6. QED
    BY <1>1, <1>2, <1>3, <1>4, <1>5

\* A byte of the command is decoded: it moves from what is ahead to the pool.
LEMMA ByteMoves ==
    ASSUME IInv, Decoding, NEW b \in Byte, NEW m \in Seq(Byte), NEW z \in Seq(Byte),
           pool' = Append(pool, b), cmd'.payload_off = cmd.payload_off
    PROVE  /\ Held' ++ m = Held ++ Cons(b, m)
           /\ pool' ++ (m ++ z) = pool ++ (Cons(b, m) ++ z)
  <1>1. /\ pool \in Seq(Byte) /\ Held \in Seq(Byte)
        /\ cmd.payload_off \in Nat /\ cmd.payload_off <= Len(pool)
    BY HeldFacts
  <1> PICK a : a = cmd.payload_off
    OBVIOUS
  <1> PICK h : h = Held
    OBVIOUS
  <1>2. SubSeq(Append(pool, b), a + 1, Len(Append(pool, b))) = Append(SubSeq(pool, a + 1, Len(pool)), b)
    BY <1>1, TailOfAppend
  <1>3. Held' = Append(h, b)
    BY <1>2 DEF Held
  <1>4. Append(h, b) ++ m = h ++ Cons(b, m)
    BY <1>1, AppendCat
  <1> DEFINE y == m ++ z
  <1>5. y \in Seq(Byte) /\ Cons(b, m) ++ z = Cons(b, y)
    BY CatType, ConsCat
  <1>6. Append(pool, b) ++ y = pool ++ Cons(b, y)
    <2> HIDE DEF y
    <2>1. QED
      BY <1>1, <1>5, AppendCat
  <1>7. QED
    BY <1>3, <1>4, <1>5, <1>6

LEMMA DecodingReads ==
    ASSUME NEW t, IInv, Reads(t), Decoding, Step
    PROVE  Reads(t)'
  <1>1. t \in INTENTS /\ SoFar(t) /\ Within(t)
    BY DEF Reads, Decoding
  <1>2. PICK n \in 1..Len(t), m \in Seq(Byte) :
           /\ n = Len(cmds) + 1
           /\ CmdInv(t[n], Onward(CmdTexts(t), n + 1), m)
           /\ pool ++ (m ++ Onward(CmdBytes(t), n + 1)) = FlattenSeq(CmdBytes(t))
    BY <1>1 DEF Within
  <1> PICK c : c = t[n]
    OBVIOUS
  <1> PICK x : x = Onward(CmdTexts(t), n + 1)
    OBVIOUS
  <1> PICK z : z = Onward(CmdBytes(t), n + 1)
    OBVIOUS
  <1> PICK d : d = FlattenSeq(CmdBytes(t))
    OBVIOUS
  <1>3. /\ Given(c, x) /\ Len(Data(c)) <= PAYLOAD_MAX /\ Data(c) \in Seq(Byte) /\ z \in Seq(Byte)
        /\ n + 1 \in 1..(Len(t) + 1)
    BY <1>1, WithinFacts
  <1>4. /\ Known(c) /\ Position(c, x, m) /\ Held ++ m = Data(c)
        /\ pool ++ (m ++ z) = d
    BY <1>2 DEF CmdInv
  <1>5. Len(d) <= POOL_SIZE
    BY <1>1, TxnTexts
  <1>6. Room(m)
    BY <1>3, <1>4, <1>5, RoomFor
  <1>7. Outcome(c, x, m)
    BY <1>3, <1>4, <1>6, DecodingOutcome
  <1>8. ASSUME NEW l \in Seq(Byte), GoesOn(c, x, l),
               pool' = pool \/ \E b \in Byte : pool' = Append(pool, b),
               Held' ++ l = Data(c), pool' ++ (l ++ z) = d
        PROVE  Reads(t)'
    <2>1. cmds' = cmds /\ Decoding' /\ Known(c)' /\ Position(c, x, l)'
      BY <1>8 DEF GoesOn
    <2>2. SoFar(t)'
      BY <1>1, <1>8, <2>1, SoFarStays
    <2>3. CmdInv(c, x, l)'
      BY <1>8, <2>1 DEF CmdInv
    <2>4. Within(t)'
      BY <1>2, <1>8, <2>1, <2>3 DEF Within
    <2>5. QED
      BY <1>1, <2>1, <2>2, <2>4 DEF Reads
  <1>9. CASE pool' = pool /\ GoesOn(c, x, m)
    <2>1. Held' = Held
      BY <1>9 DEF Held, GoesOn
    <2>2. Held' ++ m = Data(c) /\ pool' ++ (m ++ z) = d
      BY <1>4, <1>9, <2>1
    <2>3. QED
      BY <1>8, <1>9, <2>2
  <1>10. CASE \E b \in Byte, l \in Seq(Byte) : m = Cons(b, l) /\ pool' = Append(pool, b) /\ GoesOn(c, x, l)
    <2>1. PICK b \in Byte, l \in Seq(Byte) : m = Cons(b, l) /\ pool' = Append(pool, b) /\ GoesOn(c, x, l)
      BY <1>10
    <2>2. cmd'.payload_off = cmd.payload_off
      BY <2>1 DEF GoesOn
    <2>3. Held' ++ l = Held ++ Cons(b, l) /\ pool' ++ (l ++ z) = pool ++ (Cons(b, l) ++ z)
      BY <1>3, <2>1, <2>2, ByteMoves
    <2>4. Held' ++ l = Data(c) /\ pool' ++ (l ++ z) = d
      BY <1>4, <2>1, <2>3
    <2>5. QED
      BY <1>8, <2>1, <2>4
  <1>11. CASE Over(c, x, m)
    <2>1. pc' = "chain"
      BY <1>11 DEF Over, EndCmd
    <2>2. pc \notin {"addr", "addrByte"}
      BY <2>1, AddrIsNotOver
    <2>3. UNCHANGED <<line, pool>> /\ Ahead(pos)' = x
      BY <1>3, <1>4, <1>11, <2>2, OverDecodes
    <2>4. PICK k \in Slot : cmds' = Append(cmds, k) /\ Decoded(k)' = Meant(c)
      BY <1>3, <1>4, <1>11, <2>2, OverDecodes
    <2>5. SoFar(t)' /\ Len(cmds') = n
      BY <1>1, <1>2, <2>3, <2>4, SoFarGrows
    <2>6. m = <<>>
      BY <1>11 DEF Over
    <2>7. pool' ++ z = d
      <3>1. m ++ z = z
        BY <1>3, <2>6, CatNone
      <3>2. QED
        BY <1>4, <2>3, <3>1
    <2> DEFINE p == n + 1
    <2>8. p \in 1..(Len(t) + 1) /\ p = Len(cmds') + 1
      BY <1>3, <2>5
    <2>9. Ahead(pos)' = Onward(CmdTexts(t), p) /\ pool' ++ Onward(CmdBytes(t), p) = FlattenSeq(CmdBytes(t))
      BY <2>3, <2>7
    <2>10. Between(t)'
      <3> HIDE DEF p
      <3>1. QED
        BY <2>8, <2>9 DEF Between
    <2>11. QED
      BY <1>1, <2>1, <2>5, <2>10 DEF Reads
  <1>12. QED
    BY <1>7, <1>9, <1>10, <1>11 DEF Outcome


\* The next command is in sight.
LEMMA NextStarts ==
    ASSUME NEW t \in INTENTS, IInv, NEW n \in 1..Len(t), Ahead(pos) = Onward(CmdTexts(t), n)
    PROVE  LET c == t[n]
               x == Onward(CmdTexts(t), n + 1)
           IN  /\ at_cmd_start(pos) /\ At(pos) = ch_h /\ CtrlByte = c.ctrl_byte
               /\ pos + 3 \in 1..(Len(line) + 1)
               /\ Ahead(pos + 3) = Gap(c.gap) ++ Cons(c.addr_fmt, AddrText(c, x))
  <1> PICK c : c = t[n]
    OBVIOUS
  <1> PICK x : x = Onward(CmdTexts(t), n + 1)
    OBVIOUS
  <1>1. Given(c, x)
    BY WithinFacts
  <1> DEFINE w == Cons(c.addr_fmt, AddrText(c, x))
             r == Gap(c.gap) ++ w
             b == c.ctrl_byte
  <1>2. w \in Seq(Char) /\ SpellCmd(c) ++ x = Cons(ch_h, Hex2(b) ++ r)
    BY <1>1, RestType
  <1>3. r \in Seq(Char)
    <2> HIDE DEF w
    <2>1. QED
      BY <1>2, GapCat
  <1>4. b \in 160..163 /\ b \in Byte
    <2>1. c \in Meaning /\ Grammatical(c)
      BY <1>1 DEF Given
    <2>2. c.ctrl_byte \in 160..163
      BY <2>1, MeaningFacts
    <2>3. QED
      BY <2>2 DEF Byte
  <1>5. Ahead(pos) = Cons(ch_h, Hex2(b) ++ r)
    BY <1>2, CmdsOnward
  <1>6. line \in Seq(Char) /\ pos \in 1..(Len(line) + 1)
    BY <1>1 DEF Given
  <1>7. /\ at_cmd_start(pos) /\ At(pos) = ch_h /\ HexByteAt(pos + 1) = b
        /\ pos + 3 \in 1..(Len(line) + 1) /\ Ahead(pos + 3) = r
    <2> HIDE DEF r, b
    <2>1. QED
      BY <1>3, <1>4, <1>5, <1>6, StartSeen
  <1>8. QED
    BY <1>7 DEF CtrlByte

LEMMA EntryReads ==
    ASSUME NEW t, IInv, Reads(t), pc = "entry", Step
    PROVE  Reads(t)'
  <1>1. t \in INTENTS /\ SoFar(t) /\ Between(t)
    BY DEF Reads, Decoding
  <1>2. PICK n \in 1..(Len(t) + 1) :
           /\ n = Len(cmds) + 1 /\ Ahead(pos) = Onward(CmdTexts(t), n)
           /\ pool ++ Onward(CmdBytes(t), n) = FlattenSeq(CmdBytes(t))
    BY <1>1 DEF Between
  <1>3. n \in 1..Len(t)
    <2>1. cmds = <<>>
      BY DEF IInv, PhaseInv
    <2>2. Len(t) \in Nat /\ Len(t) > 0
      BY <1>1, TxnFacts
    <2>3. QED
      BY <1>2, <2>1, <2>2
  <1>4. at_cmd_start(pos) /\ At(pos) = ch_h
    BY <1>1, <1>2, <1>3, NextStarts
  <1>5. Dispatch
    <2>1. SkipBlank \/ Dispatch
      BY DEF Step, Chain, BeginCmd, AddrSelector, AddrHex, AddrAscii, AddrBin, PayloadHead, HexRun,
             BinRun, BinByte, AsciiRun, ReadTail, ReadCount, ReadFormat, ReadClose,
             SpecialOut, SpecialInp, SpecialHelp, SpecialUnknown
    <2>2. ~SkipBlank
      BY <1>4 DEF SkipBlank, Blank
    <2>3. QED
      BY <2>1, <2>2
  <1>6. pc' = "chain" /\ UNCHANGED <<line, pos, cmds, pool>>
    BY <1>4, <1>5 DEF Dispatch, Fail, FailAt, input, txn
  <1>7. Ahead(pos)' = Ahead(pos)
    BY <1>6 DEF Ahead
  <1>8. SoFar(t)' /\ Between(t)'
    BY <1>1, <1>2, <1>6, <1>7, SoFarStays DEF Between
  <1>9. QED
    BY <1>1, <1>6, <1>8 DEF Reads

\* The next command of the chain is opened, ...
LEMMA OpensNext ==
    ASSUME NEW t \in INTENTS, IInv, SoFar(t), pc = "chain", Chain \/ BeginCmd, NEW n \in 1..Len(t),
           n = Len(cmds) + 1, Ahead(pos) = Onward(CmdTexts(t), n),
           pool ++ Onward(CmdBytes(t), n) = FlattenSeq(CmdBytes(t))
    PROVE  Reads(t)'
  <1> PICK c : c = t[n]
    OBVIOUS
  <1> PICK x : x = Onward(CmdTexts(t), n + 1)
    OBVIOUS
  <1>1. /\ at_cmd_start(pos) /\ At(pos) = ch_h /\ CtrlByte = c.ctrl_byte
        /\ pos + 3 \in 1..(Len(line) + 1)
        /\ Ahead(pos + 3) = Gap(c.gap) ++ Cons(c.addr_fmt, AddrText(c, x))
    BY NextStarts
  <1>2. Given(c, x) /\ Data(c) \in Seq(Byte)
    BY WithinFacts
  <1>3. ~(Len(cmds) >= MAX_CMDS)
    <2>1. Len(t) \in Nat /\ Len(t) <= MAX_CMDS
      BY TxnFacts
    <2>2. Len(cmds) \in Nat
      BY DEF IInv, TypeOK
    <2>3. QED
      BY <2>1, <2>2, LimitsType
  <1>4. ~Chain
    BY <1>1 DEF Chain
  <1>5. /\ cmd' = Opened /\ pos' = pos + 3 /\ pc' = "addr"
        /\ UNCHANGED <<line, cmds, pool>>
    BY <1>3, <1>4 DEF BeginCmd, input, txn
  <1>6. Known(c)'
    <2>1. c.kind = (IF c.ctrl_byte \in {161, 163} THEN "read" ELSE "write")
      BY <1>2 DEF Given, Grammatical
    <2>2. /\ cmd'.kind = c.kind /\ cmd'.ctrl_byte = c.ctrl_byte
          /\ cmd'.rd_len = 0 /\ cmd'.rd_fmt = FMT_NONE
      BY <1>1, <1>5, <2>1 DEF Opened, NoCmd
    <2>3. QED
      BY <1>5, <2>2 DEF Known
  <1>7. InAddr(c, x)'
    <2> DEFINE w == Cons(c.addr_fmt, AddrText(c, x))
    <2>1. w \in Seq(Char)
      BY <1>2, RestType
    <2>2. Gap(c.gap) ++ w \in {w, Cons(Underscore, w)}
      <3> HIDE DEF w
      <3>1. QED
        BY <2>1, GapCat
    <2>3. Ahead(pos)' = Gap(c.gap) ++ w
      BY <1>1, <1>5 DEF Ahead
    <2>4. QED
      BY <2>2, <2>3 DEF InAddr, MaybeGap
  <1>8. Position(c, x, Data(c))'
    BY <1>5, <1>7 DEF Position
  <1>9. Held' ++ Data(c) = Data(c)
    <2>1. pool \in Seq(Byte)
      BY DEF IInv, TypeOK
    <2>2. cmd'.payload_off = Len(pool)
      BY <1>5 DEF Opened, NoCmd
    <2>3. Held' = <<>>
      BY <1>5, <2>1, <2>2, SubSeqEmpty DEF Held
    <2>4. QED
      BY <1>2, <2>3, CatNone
  <1>10. pool' ++ (Data(c) ++ Onward(CmdBytes(t), n + 1)) = FlattenSeq(CmdBytes(t))
    BY <1>5, CmdsOnward
  <1>11. CmdInv(c, x, Data(c))'
    BY <1>6, <1>8, <1>9 DEF CmdInv
  <1>12. Within(t)'
    BY <1>2, <1>5, <1>10, <1>11 DEF Within
  <1>13. SoFar(t)' /\ Decoding'
    BY <1>5, SoFarStays DEF Decoding
  <1>14. QED
    BY <1>12, <1>13 DEF Reads

\* ... or the chain is over.
LEMMA ClosesChain ==
    ASSUME NEW t \in INTENTS, IInv, SoFar(t), pc = "chain", Chain \/ BeginCmd,
           Len(t) = Len(cmds), Ahead(pos) = Onward(CmdTexts(t), Len(t) + 1)
    PROVE  Reads(t)'
  <1>1. Ahead(pos) = <<>>
    <2>1. Len(t) + 1 \in 1..(Len(t) + 1)
      BY TxnFacts
    <2>2. QED
      BY <2>1, OnwardFacts
  <1>2. At(pos) = NUL
    BY <1>1, AheadNone DEF IInv, TypeOK, Char
  <1>3. ~BeginCmd
    BY <1>2 DEF BeginCmd, at_cmd_start
  <1>4. pc' = "accepted" /\ UNCHANGED <<cmds, pool>>
    BY <1>2, <1>3 DEF Chain, txn
  <1>5. SoFar(t)'
    BY <1>4, SoFarStays
  <1>6. QED
    BY <1>4, <1>5 DEF Reads

LEMMA ChainReads ==
    ASSUME NEW t, IInv, Reads(t), pc = "chain", Step
    PROVE  Reads(t)'
  <1>1. t \in INTENTS /\ SoFar(t) /\ Between(t)
    BY DEF Reads, Decoding
  <1>2. PICK n \in 1..(Len(t) + 1) :
           /\ n = Len(cmds) + 1 /\ Ahead(pos) = Onward(CmdTexts(t), n)
           /\ pool ++ Onward(CmdBytes(t), n) = FlattenSeq(CmdBytes(t))
    BY <1>1 DEF Between
  <1>3. Chain \/ BeginCmd
    BY DEF Step, SkipBlank, Dispatch, AddrSelector, AddrHex, AddrAscii, AddrBin, PayloadHead, HexRun,
           BinRun, BinByte, AsciiRun, ReadTail, ReadCount, ReadFormat, ReadClose,
           SpecialOut, SpecialInp, SpecialHelp, SpecialUnknown
  <1>4. Len(t) \in Nat /\ Len(cmds) \in Nat
    BY <1>1, TxnFacts DEF IInv, TypeOK
  <1>5. CASE n \in 1..Len(t)
    BY <1>1, <1>2, <1>3, <1>5, OpensNext
  <1>6. CASE n = Len(t) + 1
    BY <1>1, <1>2, <1>3, <1>4, <1>6, ClosesChain
  <1>7. QED
    BY <1>4, <1>5, <1>6

\* A call starts with the whole text ahead of it.
LEMMA ParseReads ==
    ASSUME NEW t \in INTENTS, Parse(SpellTxn(t))
    PROVE  Reads(t)'
  <1>1. /\ line' = SpellTxn(t) /\ pos' = 1 /\ pc' = "entry" /\ cmds' = <<>> /\ pool' = <<>>
    BY DEF Parse
  <1>2. /\ CmdTexts(t) \in Seq(Seq(Char)) /\ CmdBytes(t) \in Seq(Seq(Byte))
        /\ FlattenSeq(CmdBytes(t)) \in Seq(Byte)
    BY TxnTexts
  <1>3. Onward(CmdTexts(t), 1) = SpellTxn(t)
    BY <1>2, OnwardEnds DEF SpellTxn, CmdTexts
  <1>4. Onward(CmdBytes(t), 1) = FlattenSeq(CmdBytes(t))
    BY <1>2, OnwardEnds
  <1>5. <<>> ++ FlattenSeq(CmdBytes(t)) = FlattenSeq(CmdBytes(t))
    BY <1>2, CatNone
  <1>6. SpellTxn(t) \in Seq(Char)
    BY SpellTxnType
  <1>7. SubSeq(SpellTxn(t), 1, Len(SpellTxn(t))) = SpellTxn(t)
    BY <1>6, SubSeqFull
  <1>8. Ahead(pos)' = Onward(CmdTexts(t), 1)
    BY <1>1, <1>3, <1>7 DEF Ahead
  <1>9. pool' ++ Onward(CmdBytes(t), 1) = FlattenSeq(CmdBytes(t))
    BY <1>1, <1>4, <1>5
  <1>10. 1 \in 1..(Len(t) + 1) /\ 1 = Len(cmds') + 1
    BY <1>1, TxnFacts
  <1>11. Between(t)'
    BY <1>8, <1>9, <1>10 DEF Between
  <1>12. SoFar(t)'
    BY <1>1 DEF SoFar
  <1>13. QED
    BY <1>1, <1>11, <1>12 DEF Reads

LEMMA StepReads ==
    ASSUME NEW t, IInv, Reads(t), Step
    PROVE  Reads(t)'
  <1>1. CASE pc = "accepted"
    BY <1>1 DEF Step, SkipBlank, Dispatch, Chain, BeginCmd, AddrSelector, AddrHex, AddrAscii, AddrBin,
           PayloadHead, HexRun, BinRun, BinByte, AsciiRun, ReadTail, ReadCount, ReadFormat,
           ReadClose, SpecialOut, SpecialInp, SpecialHelp, SpecialUnknown
  <1>2. CASE pc = "entry"
    BY <1>2, EntryReads
  <1>3. CASE pc = "chain"
    BY <1>3, ChainReads
  <1>4. CASE Decoding
    BY <1>4, DecodingReads
  <1>5. QED
    BY <1>1, <1>2, <1>3, <1>4 DEF Reads

LEMMA StutterReads ==
    ASSUME NEW t, IInv, Reads(t), UNCHANGED <<line, pos, pc, cmds, cmd, pool, fmt, acc, digits, got>>
    PROVE  Reads(t)'
  <1>1. SoFar(t)'
    BY SoFarStays DEF Reads
  <1>2. Ahead(pos)' = Ahead(pos)
    BY DEF Ahead
  <1>3. Between(t) => Between(t)'
    BY <1>2 DEF Between
  <1>4. ASSUME NEW c, NEW x, NEW m, CmdInv(c, x, m)
        PROVE  CmdInv(c, x, m)'
    <2>1. Known(c)'
      BY <1>4 DEF CmdInv, Known
    <2>2. Held' = Held
      BY DEF Held
    <2>3. Position(c, x, m)'
      <3>1. InAddr(c, x) => InAddr(c, x)'
        BY <1>2 DEF InAddr
      <3>2. \A b, g, y : InBits(b, g, y) => InBits(b, g, y)'
        BY <1>2 DEF InBits
      <3>3. InAddrByte(c, x) => InAddrByte(c, x)'
        BY <1>2, <3>2 DEF InAddrByte
      <3>4. InPayload(c, x, m) => InPayload(c, x, m)'
        BY <1>2 DEF InPayload
      <3>5. InRun(c, x, m) => InRun(c, x, m)'
        BY <1>2 DEF InRun
      <3>6. InRunBits(c, x, m) => InRunBits(c, x, m)'
        BY <1>2, <3>2 DEF InRunBits
      <3>7. InTail(c, x) => InTail(c, x)'
        BY <1>2 DEF InTail
      <3>8. InCount(c, x) => InCount(c, x)'
        BY <1>2 DEF InCount
      <3>9. InFormat(c, x) => InFormat(c, x)'
        BY <1>2 DEF InFormat
      <3>10. InClose(c, x) => InClose(c, x)'
        BY <1>2 DEF InClose
      <3>11. QED
        BY <1>4, <3>1, <3>3, <3>4, <3>5, <3>6, <3>7, <3>8, <3>9, <3>10 DEF CmdInv, Position
    <2>4. QED
      BY <1>4, <2>1, <2>2, <2>3 DEF CmdInv
  <1>5. Within(t) => Within(t)'
    BY <1>4 DEF Within
  <1>6. QED
    BY <1>1, <1>3, <1>5 DEF Reads, Decoding

-----------------------------------------------------------------------------
(* Theorem. *)

\* What is at the cursor while a line that was meant is parsed.
GInv ==
    /\ IInv
    /\ pc = "idle" => intent = <<>>
    /\ pc # "idle" /\ intent # <<>> => Reads(intent)

LEMMA GInitInv == GInit => GInv
  BY InitInv DEF GInit, GInv, Init

LEMMA GNextKeepsInv == GInv /\ [GNext]_gvars => GInv'
  <1> SUFFICES ASSUME GInv, [GNext]_gvars
               PROVE  GInv'
    OBVIOUS
  <1> PICK t : t = intent
    OBVIOUS
  <1>1. IInv /\ (pc # "idle" /\ t # <<>> => Reads(t))
    BY DEF GInv
  <1>2. CASE ParseOn
    <2>1. IInv'
      BY <1>1, <1>2, NextKeepsInv DEF Next, ParseOn
    <2>2. pc # "idle"
      BY <1>2 DEF ParseOn, Step, SkipBlank, Dispatch, Chain, BeginCmd, AddrSelector, AddrHex, AddrAscii,
                  AddrBin, PayloadHead, HexRun, BinRun, BinByte, AsciiRun, ReadTail, ReadCount,
                  ReadFormat, ReadClose, SpecialOut, SpecialInp, SpecialHelp, SpecialUnknown
    <2>3. t # <<>> => Reads(t)'
      BY <1>1, <1>2, <2>2, StepReads DEF ParseOn
    <2>4. t # <<>> => pc' # "idle"
      BY <2>3 DEF Reads, Decoding
    <2>5. QED
      BY <1>2, <2>1, <2>2, <2>3, <2>4 DEF GInv, ParseOn
  <1>3. CASE SpellOut
    <2>1. PICK i \in INTENTS : Parse(SpellTxn(i)) /\ intent' = i
      BY <1>3 DEF SpellOut
    <2>2. IInv'
      BY <1>1, <2>1, SpellTxnType, ParseKeepsInv DEF Char
    <2>3. Reads(i)'
      BY <2>1, ParseReads
    <2>4. pc' = "entry"
      BY <2>1 DEF Parse
    <2>5. QED
      BY <2>1, <2>2, <2>3, <2>4 DEF GInv
  <1>4. CASE Scribble
    <2>1. PICK l \in LINES : pc = "idle" /\ Parse(l) /\ intent' = t
      BY <1>4 DEF Scribble
    <2>2. IInv'
      BY <1>1, <2>1, LinesAssumption, ParseKeepsInv
    <2>3. t = <<>> /\ pc' = "entry"
      BY <2>1 DEF GInv, Parse
    <2>4. QED
      BY <2>1, <2>2, <2>3 DEF GInv
  <1>5. CASE UNCHANGED gvars
    <2>1. UNCHANGED vars /\ intent' = t /\ UNCHANGED <<line, pos, pc, cmds, cmd, pool, fmt, acc, digits, got>>
      BY <1>5 DEF gvars, vars
    <2>2. IInv'
      BY <1>1, <2>1, NextKeepsInv
    <2>3. pc # "idle" /\ t # <<>> => Reads(t)'
      BY <1>1, <2>1, StutterReads
    <2>4. QED
      BY <2>1, <2>2, <2>3 DEF GInv
  <1>6. QED
    BY <1>2, <1>3, <1>4, <1>5 DEF GNext

LEMMA GInvMeans == GInv => RoundTrip
  <1> SUFFICES ASSUME GInv, intent # <<>>
               PROVE  /\ pc # "rejected"
                      /\ pc = "accepted" =>
                            [k \in DOMAIN intent |-> Meant(intent[k])]
                                = [k \in DOMAIN cmds |-> Decoded(cmds[k])]
    BY DEF RoundTrip
  <1> PICK t : t = intent
    OBVIOUS
  <1>1. pc # "rejected"
    BY DEF GInv, Reads, Decoding
  <1>2. ASSUME pc = "accepted"
        PROVE  [k \in DOMAIN t |-> Meant(t[k])] = [k \in DOMAIN cmds |-> Decoded(cmds[k])]
    <2>1. t \in INTENTS /\ SoFar(t) /\ Len(cmds) = Len(t)
      BY <1>2 DEF GInv, Reads, Decoding
    <2>2. DOMAIN t = 1..Len(t) /\ DOMAIN cmds = 1..Len(cmds)
      BY <2>1, TxnFacts DEF GInv, IInv, TypeOK
    <2>3. \A k \in 1..Len(cmds) : Decoded(cmds[k]) = Meant(t[k])
      BY <2>1 DEF SoFar
    <2>4. QED
      BY <2>1, <2>2, <2>3
  <1>3. QED
    BY <1>1, <1>2

\* Whatever is meant, as long as the grammar of README.md can say it and it has room:
\* spelled by the README's rules, it is accepted by neo_parse_transaction, and every
\* command of neo_txn_t is the one that was meant, with the bytes that were meant.
THEOREM SpelledIsDecoded == GSpec => []RoundTrip
  <1>1. GSpec => []GInv
    BY GInitInv, GNextKeepsInv, PTL DEF GSpec
  <1>2. QED
    BY <1>1, GInvMeans, PTL

USE DEF Blank, Selector, RD_COUNT_MAX, BYTE_BITS, COUNT_DIGITS, Done, Labels, Decoding

-----------------------------------------------------------------------------
(* The transaction that is run is the one that was accepted.                 *)

\* What a transaction must promise the executor: TxnsAssumption of NeoExec.
Promised ==
    {t \in [cmds : Seq(Exec!Command_t), pool : Seq(0..255)] :
        \A k \in 1..Len(t.cmds) :
            LET c == t.cmds[k] IN
            /\ c.payload_off + c.payload_len <= Len(t.pool)
            /\ c.kind = "write" => c.ctrl_byte \in {160, 162}
            /\ c.kind = "read"  => c.ctrl_byte \in {161, 163}}

\* While it runs, s_txn is not written.
RInv ==
    /\ IInv
    /\ turn = "exec" => pc = "accepted" /\ job = [cmds |-> cmds, pool |-> pool]

LEMMA InitRInv == RInit => RInv
  BY InitInv DEF RInit, GInit, RInv

LEMMA ReadLineKeepsInv ==
    ASSUME RInv, NEW s \in Seq(Char), NEW b, NEW p, ReadLine(s, b, p)
    PROVE  RInv'
  BY ParseKeepsInv DEF RInv, ReadLine, Char

LEMMA SameParserInv ==
    ASSUME IInv, UNCHANGED vars
    PROVE  IInv'
  BY NextKeepsInv

LEMMA ExecKeepsJob == Exec!Step => job' = job
  BY DEF Exec!Step, Exec!Command, Exec!TwiStart, Exec!SendCtrl, Exec!SendAddr, Exec!SendPayload,
         Exec!ReadByte, Exec!TwiStop, Exec!GpioOut, Exec!GpioIn, Exec!Help, Exec!EndLine

LEMMA NextKeepsRInv == RInv /\ [RNext]_rvars => RInv'
  <1> SUFFICES ASSUME RInv, [RNext]_rvars
               PROVE  RInv'
    OBVIOUS
  <1>1. CASE Decode
    <2>1. IInv'
      BY <1>1, NextKeepsInv DEF RInv, Decode, Next
    <2>2. QED
      BY <1>1, <2>1 DEF RInv, Decode
  <1>2. CASE Rejected
    BY <1>2, SameParserInv DEF RInv, Rejected, gvars
  <1>3. CASE Accepted
    <2>1. IInv'
      BY <1>3, SameParserInv DEF RInv, Accepted, gvars
    <2>2. job' = [cmds |-> cmds, pool |-> pool] /\ pc = "accepted" /\ UNCHANGED <<cmds, pool, pc>>
      BY <1>3 DEF Accepted, gvars, vars, Exec!Run
    <2>3. QED
      BY <2>1, <2>2 DEF RInv
  <1>4. CASE Execute
    <2>1. IInv'
      BY <1>4, SameParserInv DEF RInv, Execute, gvars
    <2>2. job' = job /\ UNCHANGED <<cmds, pool, pc, turn>>
      BY <1>4, ExecKeepsJob DEF Execute, gvars, vars
    <2>3. QED
      BY <2>1, <2>2 DEF RInv
  <1>5. CASE Executed
    BY <1>5, SameParserInv DEF RInv, Executed, gvars
  <1>6. CASE TypeTransaction
    BY <1>6, SpellTxnType, ReadLineKeepsInv DEF TypeTransaction
  <1>7. CASE TypeOut
    <2>1. PICK b \in OUTS : ReadLine(word_out \o Bin8(b, FALSE), <<>>, <<b>>)
      BY <1>7 DEF TypeOut
    <2>2. word_out \in Seq(Char)
      BY DEF word_out, Char
    <2>3. Bin8(b, FALSE) \in Seq(Char)
      BY BytesAssumption, Bin8Type
    <2>4. word_out \o Bin8(b, FALSE) \in Seq(Char)
      BY <2>2, <2>3, ConcatType
    <2>5. QED
      BY <2>1, <2>4, ReadLineKeepsInv
  <1>8. CASE TypeOther
    <2>1. PICK l \in LINES : ReadLine(l, <<>>, <<>>)
      BY <1>8 DEF TypeOther
    <2>2. l \in Seq(Char)
      BY LinesAssumption DEF Char
    <2>3. QED
      BY <2>1, <2>2, ReadLineKeepsInv
  <1>9. CASE UNCHANGED rvars
    BY <1>9, SameParserInv DEF RInv, rvars, gvars, vars, xvars
  <1>10. QED
    BY <1>1, <1>2, <1>3, <1>4, <1>5, <1>6, <1>7, <1>8, <1>9 DEF RNext, Work

\* What the parser has established of a transaction it accepted.
LEMMA AcceptedIsPromised ==
    ASSUME IInv, pc = "accepted"
    PROVE  [cmds |-> cmds, pool |-> pool] \in Promised
  <1> DEFINE t == [cmds |-> cmds, pool |-> pool]
  <1>1. cmds \in Seq(Slot) /\ pool \in Seq(Byte) /\ Len(cmds) \in Nat /\ Len(pool) \in Nat
    BY DEF IInv, TypeOK
  <1>2. ASSUME NEW k \in 1..Len(cmds)
        PROVE  /\ cmds[k] \in Exec!Command_t
               /\ cmds[k].payload_off + cmds[k].payload_len <= Len(pool)
               /\ cmds[k].kind = "write" => cmds[k].ctrl_byte \in {160, 162}
               /\ cmds[k].kind = "read"  => cmds[k].ctrl_byte \in {161, 163}
    <2> DEFINE c == cmds[k]
    <2>1. /\ c.kind # "none"
          /\ c.kind = "write" => c.ctrl_byte \in {160, 162}
          /\ c.kind = "read"  => c.ctrl_byte \in {161, 163}
      BY DEF IInv, CommandsWellFormed
    <2>2. EndOf(k) <= Len(pool) /\ EndOf(k) = c.payload_off + c.payload_len
      <3>1. EndOf(k) <= Len(pool)
        BY DEF IInv, SlicesTile
      <3>2. k # 0
        OBVIOUS
      <3>3. QED
        BY <3>1, <3>2 DEF EndOf, SliceEnd
    <2>3. c \in Slot
      BY <1>1, ElementOfSeq
    <2> HIDE DEF c
    <2>4. c \in Exec!Command_t
      <3>1. /\ c.kind \in {"write", "read", "gpio_out", "gpio_in", "help"}
            /\ c.ctrl_byte \in 0..255 /\ c.internal_addr \in 0..255 /\ c.gpio_byte \in 0..255
        BY <2>1, <2>3 DEF Slot, Byte
      <3>2. c.rd_len \in Nat /\ c.payload_off \in Nat /\ c.payload_len \in Nat
        <4>1. /\ c.rd_len \in 0..RD_COUNT_MAX /\ c.payload_off \in 0..POOL_SIZE
              /\ c.payload_len \in 0..PAYLOAD_MAX
          BY <2>3 DEF Slot
        <4>2. PAYLOAD_MAX \in Nat /\ POOL_SIZE \in Nat
          BY LimitsType
        <4>3. c.rd_len \in Nat
          <5>1. \A n \in 0..1022 : n \in Nat
            OBVIOUS
          <5>2. c.rd_len \in 0..1022
            BY <2>3 DEF Slot
          <5>3. QED
            BY ONLY <5>1, <5>2
        <4>4. c.payload_off \in Nat
          BY ONLY <4>1, <4>2
        <4>5. c.payload_len \in Nat
          BY ONLY <4>1, <4>2
        <4>6. QED
          BY <4>3, <4>4, <4>5
      <3>3. c.rd_fmt \in Exec!Selector \cup {Exec!FMT_NONE}
        BY <2>3 DEF Slot, Exec!Selector, Exec!ch_h, Exec!ch_b, Exec!ch_a, Exec!FMT_NONE
      <3>4. c = [kind |-> c.kind, ctrl_byte |-> c.ctrl_byte, internal_addr |-> c.internal_addr,
                 rd_len |-> c.rd_len, rd_fmt |-> c.rd_fmt, payload_off |-> c.payload_off,
                 payload_len |-> c.payload_len, gpio_byte |-> c.gpio_byte]
        BY <2>3 DEF Slot
      <3>5. QED
        BY <3>1, <3>2, <3>3, <3>4 DEF Exec!Command_t
    <2>5. QED
      BY <2>1, <2>2, <2>4 DEF c
  <1>3. cmds \in Seq(Exec!Command_t)
    <2>1. \A k \in 1..Len(cmds) : cmds[k] \in Exec!Command_t
      BY <1>2
    <2>2. QED
      BY <1>1, <2>1
  <1>4. t.cmds = cmds /\ t.pool = pool /\ t \in [cmds : Seq(Exec!Command_t), pool : Seq(0..255)]
    BY <1>1, <1>3 DEF Byte
  <1> HIDE DEF t
  <1>5. t \in Promised
    BY <1>2, <1>4 DEF Promised
  <1>6. QED
    BY <1>5 DEF t

\* What neo_exec.c takes for granted about a transaction is true of every one it is
\* given, whatever the user types.
THEOREM PromisesAlwaysKept == RSpec => []PromisesKept
  <1>1. RInv => PromisesKept
    <2> SUFFICES ASSUME RInv, turn = "exec", NEW k \in 1..Len(job.cmds)
                 PROVE  LET c == job.cmds[k] IN
                        /\ c.kind \in {"write", "read", "gpio_out", "gpio_in", "help"}
                        /\ c.payload_off + c.payload_len <= Len(job.pool)
                        /\ c.kind = "write" => c.ctrl_byte \in {160, 162}
                        /\ c.kind = "read"  => c.ctrl_byte \in {161, 163} /\ (c.rd_len > 0 => c.rd_fmt # FMT_NONE)
      BY DEF PromisesKept
    <2>1. job.cmds = cmds /\ job.pool = pool /\ pc = "accepted" /\ IInv
      BY DEF RInv
    <2> DEFINE c == cmds[k]
    <2>2. c.kind = "read" => (c.rd_len > 0 => c.rd_fmt # FMT_NONE)
      BY <2>1 DEF IInv, CommandsWellFormed
    <2>3. [cmds |-> cmds, pool |-> pool] \in Promised
      BY <2>1, AcceptedIsPromised
    <2>4. /\ c \in Exec!Command_t
          /\ c.payload_off + c.payload_len <= Len(pool)
          /\ c.kind = "write" => c.ctrl_byte \in {160, 162}
          /\ c.kind = "read"  => c.ctrl_byte \in {161, 163}
      BY <2>1, <2>3, ElementOfSeq DEF Promised
    <2> HIDE DEF c
    <2>5. c.kind \in {"write", "read", "gpio_out", "gpio_in", "help"}
      BY <2>4 DEF Exec!Command_t
    <2>6. QED
      BY <2>1, <2>2, <2>4, <2>5 DEF c
  <1>2. QED
    BY <1>1, InitRInv, NextKeepsRInv, PTL DEF RSpec

-----------------------------------------------------------------------------
(* The prompt loop is an environment of the executor.                        *)

\* The executor with every transaction it was promised.
Executor == INSTANCE NeoExec_proofs WITH TXNS <- Promised

\* The transactions a module may start are no part of what a step of it does.
LEMMA SameExecutor == Exec!Step => Executor!Step
  <1>1. Exec!Command => Executor!Command
    BY DEF Exec!Command, Executor!Command, Exec!cmd, Executor!cmd
  <1>2. Exec!TwiStart => Executor!TwiStart
    BY DEF Exec!TwiStart, Executor!TwiStart
  <1>3. Exec!SendCtrl => Executor!SendCtrl
    BY DEF Exec!SendCtrl, Executor!SendCtrl, Exec!cmd, Executor!cmd, Exec!SendByte,
             Executor!SendByte, Exec!Exchange, Executor!Exchange, Exec!PutAll, Executor!PutAll,
             Exec!Mark, Executor!Mark, Exec!Acked, Executor!Acked, Exec!Refused, Executor!Refused
  <1>4. Exec!SendAddr => Executor!SendAddr
    BY DEF Exec!SendAddr, Executor!SendAddr, Exec!cmd, Executor!cmd, Exec!SendByte,
             Executor!SendByte, Exec!Exchange, Executor!Exchange, Exec!PutAll, Executor!PutAll,
             Exec!Mark, Executor!Mark, Exec!Acked, Executor!Acked, Exec!Refused, Executor!Refused
  <1>5. Exec!SendPayload => Executor!SendPayload
    BY DEF Exec!SendPayload, Executor!SendPayload, Exec!cmd, Executor!cmd, Exec!SendByte,
             Executor!SendByte, Exec!Exchange, Executor!Exchange, Exec!PutAll, Executor!PutAll,
             Exec!Mark, Executor!Mark, Exec!Acked, Executor!Acked, Exec!Refused, Executor!Refused,
             Exec!PayloadByte, Executor!PayloadByte
  <1>6. Exec!ReadByte => Executor!ReadByte
    BY DEF Exec!ReadByte, Executor!ReadByte, Exec!cmd, Executor!cmd, Exec!MoreToRead,
             Executor!MoreToRead, Exec!HostAck, Executor!HostAck, Exec!Exchange, Executor!Exchange,
             Exec!PutAll, Executor!PutAll, Exec!Refused, Executor!Refused, Exec!Shown,
             Executor!Shown, Exec!ch_b, Executor!ch_b, Exec!ch_a, Executor!ch_a
  <1>7. Exec!TwiStop => Executor!TwiStop
    BY DEF Exec!TwiStop, Executor!TwiStop, Exec!DataDone, Executor!DataDone, Exec!MoreToRead,
             Executor!MoreToRead, Exec!cmd, Executor!cmd, Exec!EndLine, Executor!EndLine
  <1>8. Exec!GpioOut => Executor!GpioOut
    BY DEF Exec!GpioOut, Executor!GpioOut, Exec!cmd, Executor!cmd, Exec!PutLine, Executor!PutLine,
             Exec!Words, Executor!Words, Exec!EndLine, Executor!EndLine
  <1>9. Exec!GpioIn => Executor!GpioIn
    BY DEF Exec!GpioIn, Executor!GpioIn, Exec!PutLine, Executor!PutLine, Exec!Words,
             Executor!Words, Exec!EndLine, Executor!EndLine
  <1>10. Exec!Help => Executor!Help
    BY DEF Exec!Help, Executor!Help, Exec!PutLine, Executor!PutLine, Exec!Words, Executor!Words,
             Exec!EndLine, Executor!EndLine
  <1>11. QED
    BY <1>1, <1>2, <1>3, <1>4, <1>5, <1>6, <1>7, <1>8, <1>9, <1>10
       DEF Exec!Step, Executor!Step

LEMMA ExecutorAssumes == Executor!TxnsAssumption /\ Executor!WireAssumption
  <1>1. Executor!TxnsAssumption
    BY DEF Executor!TxnsAssumption, Promised, Executor!Command_t, Exec!Command_t,
           Executor!Selector, Exec!Selector, Executor!ch_h, Exec!ch_h, Executor!ch_b, Exec!ch_b,
           Executor!ch_a, Exec!ch_a, Executor!FMT_NONE, Exec!FMT_NONE
  <1>2. Executor!WireAssumption
    BY BytesAssumption DEF Executor!WireAssumption, Byte
  <1>3. QED
    BY <1>1, <1>2

\* With the parser and the user around it, the executor still does what NeoExec says,
\* and nothing else moves the wires, the port or the terminal's lines.
THEOREM ReplRunsExecutor == RSpec => Executor!Spec
  <1>1. RInit => Executor!Init
    BY DEF RInit, Exec!Init, Executor!Init, Exec!NoJob, Executor!NoJob
  <1>2. RInv /\ [RNext]_rvars => [Executor!Next]_(Executor!vars)
    <2> SUFFICES ASSUME RInv, [RNext]_rvars
                 PROVE  [Executor!Next]_(Executor!vars)
      OBVIOUS
    <2>1. CASE UNCHANGED xvars
      BY <2>1 DEF xvars, Executor!vars
    <2>2. CASE Accepted
      <3>1. Exec!Run([cmds |-> cmds, pool |-> pool]) /\ pc = "accepted"
        BY <2>2 DEF Accepted
      <3>2. Executor!Run([cmds |-> cmds, pool |-> pool])
        BY <3>1 DEF Exec!Run, Executor!Run
      <3>3. [cmds |-> cmds, pool |-> pool] \in Promised
        BY <3>1, AcceptedIsPromised DEF RInv
      <3>4. QED
        BY <3>2, <3>3 DEF Executor!Next
    <2>3. CASE Execute
      BY <2>3, SameExecutor DEF Execute, Executor!Next
    <2>4. QED
      BY <2>1, <2>2, <2>3
         DEF RNext, Work, Decode, Rejected, Executed, TypeTransaction, TypeOut, TypeOther,
             ReadLine, rvars
  <1>3. QED
    BY <1>1, <1>2, InitRInv, NextKeepsRInv, PTL DEF RSpec, Executor!Spec

\* So whatever is typed: on the wires a well-behaved master, every accepted line's bytes
\* all sent and in order, the bus released in between, and true marks on the terminal.
THEOREM ReplKeepsExecutorsWord ==
    RSpec => /\ Executor!BusLegal
             /\ [](Executor!TransactionSent /\ Executor!BusReleased /\ Executor!MarksAreTrue)
  <1>1. Executor!Spec => Executor!BusLegal
    BY ExecutorAssumes, Executor!BusAlwaysLegal
  <1>2. Executor!Spec => []Executor!TransactionSent
    BY ExecutorAssumes, Executor!TransactionAlwaysSent
  <1>3. Executor!Spec => []Executor!BusReleased
    BY ExecutorAssumes, Executor!BusAlwaysReleased
  <1>4. Executor!Spec => []Executor!MarksAreTrue
    BY ExecutorAssumes, Executor!MarksAlwaysTrue
  <1>5. QED
    BY <1>1, <1>2, <1>3, <1>4, ReplRunsExecutor, PTL
-----------------------------------------------------------------------------
(* A line that drives the output port.                                       *)

\* Eight characters, written as the three groups of a binary byte without gaps.
LEMMA ThreeGroups ==
    ASSUME NEW a \in Char, NEW b \in Char, NEW c \in Char, NEW d \in Char,
           NEW e \in Char, NEW f \in Char, NEW g \in Char, NEW h \in Char
    PROVE  <<a, b, c>> \o <<>> \o <<d, e, f, g>> \o <<>> \o <<h>> = <<a, b, c, d, e, f, g, h>>
  <1> DEFINE p == <<a, b, c>>
             q == <<d, e, f, g>>
             r == <<h>>
             s == <<a, b, c, d, e, f, g, h>>
  <1>1. p \in Seq(Char) /\ q \in Seq(Char) /\ r \in Seq(Char) /\ s \in Seq(Char)
    OBVIOUS
  <1>2. /\ Len(p) = 3 /\ p[1] = a /\ p[2] = b /\ p[3] = c
        /\ Len(q) = 4 /\ q[1] = d /\ q[2] = e /\ q[3] = f /\ q[4] = g
        /\ Len(r) = 1 /\ r[1] = h
        /\ Len(s) = 8 /\ s[1] = a /\ s[2] = b /\ s[3] = c /\ s[4] = d
        /\ s[5] = e /\ s[6] = f /\ s[7] = g /\ s[8] = h
    OBVIOUS
  <1> HIDE DEF p, q, r, s
  <1>3. p \o <<>> = p
    BY <1>1, ConcatEmptySeq
  <1>4. /\ p \o q \in Seq(Char) /\ Len(p \o q) = 7
        /\ \A i \in 1..7 : (p \o q)[i] = IF i <= 3 THEN p[i] ELSE q[i - 3]
    <2>1. /\ p \o q \in Seq(Char) /\ Len(p \o q) = Len(p) + Len(q)
          /\ \A i \in 1..(Len(p) + Len(q)) :
                (p \o q)[i] = IF i <= Len(p) THEN p[i] ELSE q[i - Len(p)]
      BY ONLY <1>1, ConcatProperties
    <2>2. Len(p) = 3 /\ Len(q) = 4
      BY <1>2
    <2>3. QED
      BY ONLY <2>1, <2>2
  <1> DEFINE u == p \o q
  <1>5. u \in Seq(Char) /\ Len(u) = 7 /\ u[1] = a /\ u[2] = b /\ u[3] = c /\ u[4] = d
        /\ u[5] = e /\ u[6] = f /\ u[7] = g
    BY <1>2, <1>4
  <1> HIDE DEF u
  <1>6. u \o <<>> = u
    BY <1>5, ConcatEmptySeq
  <1>7. /\ u \o r \in Seq(Char) /\ Len(u \o r) = 8
        /\ \A i \in 1..8 : (u \o r)[i] = IF i <= 7 THEN u[i] ELSE r[i - 7]
    <2>1. /\ u \o r \in Seq(Char) /\ Len(u \o r) = Len(u) + Len(r)
          /\ \A i \in 1..(Len(u) + Len(r)) :
                (u \o r)[i] = IF i <= Len(u) THEN u[i] ELSE r[i - Len(u)]
      BY ONLY <1>1, <1>5, ConcatProperties
    <2>2. Len(u) = 7 /\ Len(r) = 1
      BY <1>2, <1>5
    <2>3. QED
      BY ONLY <2>1, <2>2
  <1> DEFINE v == u \o r
  <1>8. v \in Seq(Char) /\ Len(v) = 8 /\ v[1] = a /\ v[2] = b /\ v[3] = c /\ v[4] = d
        /\ v[5] = e /\ v[6] = f /\ v[7] = g /\ v[8] = h
    BY <1>2, <1>5, <1>7
  <1> HIDE DEF v
  <1>9. v = s
    <2>1. \A i \in 1..8 : v[i] = s[i]
      BY <1>2, <1>8
    <2>2. QED
      BY <1>1, <1>2, <1>8, <2>1, SeqEqual
  <1>10. QED
    BY <1>3, <1>6, <1>9 DEF p, q, r, s, u, v

OutText(b) == word_out \o Bin8(b, FALSE)

\* What parse_special finds at each of its twelve places.
LEMMA OutTextMeans ==
    ASSUME NEW b \in Byte
    PROVE  /\ OutText(b) \in Seq(Char) /\ Len(OutText(b)) = 12
           /\ \A i \in 1..4 : OutText(b)[i] = word_out[i]
           /\ /\ OutText(b)[5] = Bit(b, 128) /\ OutText(b)[6] = Bit(b, 64)
              /\ OutText(b)[7] = Bit(b, 32) /\ OutText(b)[8] = Bit(b, 16)
              /\ OutText(b)[9] = Bit(b, 8) /\ OutText(b)[10] = Bit(b, 4)
              /\ OutText(b)[11] = Bit(b, 2) /\ OutText(b)[12] = Bit(b, 1)
  <1>1. \A w \in {1, 2, 4, 8, 16, 32, 64, 128} : Bit(b, w) \in Char
    BY BitTypes
  <1> DEFINE s == <<Bit(b, 128), Bit(b, 64), Bit(b, 32), Bit(b, 16), Bit(b, 8), Bit(b, 4),
                    Bit(b, 2), Bit(b, 1)>>
  <1>2. Bin8(b, FALSE) = s
    <2>1. Gap(FALSE) = <<>>
      BY DEF Gap
    <2>2. /\ Bit(b, 128) \in Char /\ Bit(b, 64) \in Char /\ Bit(b, 32) \in Char
          /\ Bit(b, 16) \in Char /\ Bit(b, 8) \in Char /\ Bit(b, 4) \in Char
          /\ Bit(b, 2) \in Char /\ Bit(b, 1) \in Char
      BY <1>1
    <2> DEFINE b7 == Bit(b, 128)
               b6 == Bit(b, 64)
               b5 == Bit(b, 32)
               b4 == Bit(b, 16)
               b3 == Bit(b, 8)
               b2 == Bit(b, 4)
               b1 == Bit(b, 2)
               b0 == Bit(b, 1)
    <2>3. Bin8(b, FALSE) =
            <<b7, b6, b5>> \o <<>> \o <<b4, b3, b2, b1>> \o <<>> \o <<b0>>
      BY <2>1 DEF Bin8
    <2>4. s = <<b7, b6, b5, b4, b3, b2, b1, b0>>
      OBVIOUS
    <2>5. /\ b7 \in Char /\ b6 \in Char /\ b5 \in Char /\ b4 \in Char
          /\ b3 \in Char /\ b2 \in Char /\ b1 \in Char /\ b0 \in Char
      BY <2>2
    <2> HIDE DEF s, b7, b6, b5, b4, b3, b2, b1, b0
    <2>6. <<b7, b6, b5>> \o <<>> \o <<b4, b3, b2, b1>> \o <<>> \o <<b0>>
            = <<b7, b6, b5, b4, b3, b2, b1, b0>>
      BY ONLY <2>5, ThreeGroups
    <2>7. QED
      BY ONLY <2>3, <2>4, <2>6
  <1>3. /\ s \in Seq(Char) /\ Len(s) = 8
        /\ s[1] = Bit(b, 128) /\ s[2] = Bit(b, 64) /\ s[3] = Bit(b, 32) /\ s[4] = Bit(b, 16)
        /\ s[5] = Bit(b, 8) /\ s[6] = Bit(b, 4) /\ s[7] = Bit(b, 2) /\ s[8] = Bit(b, 1)
    BY <1>1
  <1>4. word_out \in Seq(Char) /\ Len(word_out) = 4
    BY DEF word_out, Char
  <1> HIDE DEF s
  <1> PICK z : z = word_out
    OBVIOUS
  <1>z. z = word_out /\ z \in Seq(Char) /\ Len(z) = 4
    BY <1>4
  <1>5. OutText(b) = z \o s
    BY <1>2, <1>z DEF OutText
  <1>6. /\ z \o s \in Seq(Char) /\ Len(z \o s) = 12
        /\ \A i \in 1..12 : (z \o s)[i] = IF i <= 4 THEN z[i] ELSE s[i - 4]
    <2>1. /\ z \o s \in Seq(Char) /\ Len(z \o s) = Len(z) + Len(s)
          /\ \A i \in 1..(Len(z) + Len(s)) :
                (z \o s)[i] = IF i <= Len(z) THEN z[i] ELSE s[i - Len(z)]
      <3>1. z \in Seq(Char) /\ s \in Seq(Char)
        BY <1>3, <1>z
      <3>2. QED
        BY ONLY <3>1, ConcatProperties
    <2> DEFINE y == z \o s
               m == Len(z)
               n == Len(s)
    <2>2. /\ y \in Seq(Char) /\ Len(y) = m + n
          /\ \A i \in 1..(m + n) : y[i] = IF i <= m THEN z[i] ELSE s[i - m]
      BY ONLY <2>1
    <2>3. m = 4 /\ n = 8
      BY <1>3, <1>z
    <2> HIDE DEF y, m, n
    <2>4. /\ y \in Seq(Char) /\ Len(y) = 12
          /\ \A i \in 1..12 : y[i] = IF i <= 4 THEN z[i] ELSE s[i - 4]
      BY ONLY <2>2, <2>3
    <2>5. QED
      BY ONLY <2>4 DEF y
  <1> DEFINE r == z \o s
  <1>7. /\ \A i \in 1..4 : r[i] = z[i]
        /\ r[5] = s[1] /\ r[6] = s[2] /\ r[7] = s[3] /\ r[8] = s[4]
        /\ r[9] = s[5] /\ r[10] = s[6] /\ r[11] = s[7] /\ r[12] = s[8]
    <2>1. \A i \in 1..12 : r[i] = IF i <= 4 THEN z[i] ELSE s[i - 4]
      BY <1>6
    <2> HIDE DEF r
    <2>2. \A i \in 1..4 : i \in 1..12 /\ i <= 4
      OBVIOUS
    <2>3. /\ r[5] = s[5 - 4] /\ r[6] = s[6 - 4] /\ r[7] = s[7 - 4] /\ r[8] = s[8 - 4]
          /\ r[9] = s[9 - 4] /\ r[10] = s[10 - 4] /\ r[11] = s[11 - 4] /\ r[12] = s[12 - 4]
      BY ONLY <2>1
    <2>4. QED
      BY ONLY <2>1, <2>2, <2>3
  <1> HIDE DEF r
  <1>8. OutText(b) = r /\ r \in Seq(Char) /\ Len(r) = 12
    BY <1>5, <1>6 DEF r
  <1>9. QED
    BY ONLY <1>3, <1>7, <1>8, <1>z

\* The eight bits of a byte make that byte.
LEMMA BitsMakeByte ==
    ASSUME NEW b \in Byte
    PROVE  b = 128 * ((b \div 128) % 2) + 64 * ((b \div 64) % 2) + 32 * ((b \div 32) % 2)
             + 16 * ((b \div 16) % 2) + 8 * ((b \div 8) % 2) + 4 * ((b \div 4) % 2)
             + 2 * ((b \div 2) % 2) + ((b \div 1) % 2)
  <1>1. /\ b \div 128 = 2 * (b \div 256) + ((b \div 128) % 2)
        /\ b \div 64 = 2 * (b \div 128) + ((b \div 64) % 2)
        /\ b \div 32 = 2 * (b \div 64) + ((b \div 32) % 2)
        /\ b \div 16 = 2 * (b \div 32) + ((b \div 16) % 2)
    BY DEF Byte
  <1>2. /\ b \div 8 = 2 * (b \div 16) + ((b \div 8) % 2)
        /\ b \div 4 = 2 * (b \div 8) + ((b \div 4) % 2)
        /\ b \div 2 = 2 * (b \div 4) + ((b \div 2) % 2)
        /\ b \div 1 = 2 * (b \div 2) + ((b \div 1) % 2)
    BY DEF Byte
  <1>3. b \div 256 = 0 /\ b \div 1 = b
    BY DEF Byte
  <1>4. /\ b \div 256 \in Int /\ b \div 128 \in Int /\ b \div 64 \in Int /\ b \div 32 \in Int
        /\ b \div 16 \in Int /\ b \div 8 \in Int /\ b \div 4 \in Int /\ b \div 2 \in Int
        /\ (b \div 128) % 2 \in Int /\ (b \div 64) % 2 \in Int /\ (b \div 32) % 2 \in Int
        /\ (b \div 16) % 2 \in Int /\ (b \div 8) % 2 \in Int /\ (b \div 4) % 2 \in Int
        /\ (b \div 2) % 2 \in Int /\ (b \div 1) % 2 \in Int /\ b \div 1 \in Int
    BY DEF Byte
  <1> DEFINE q8 == b \div 256
             q7 == b \div 128
             q6 == b \div 64
             q5 == b \div 32
             q4 == b \div 16
             q3 == b \div 8
             q2 == b \div 4
             q1 == b \div 2
             q0 == b \div 1
             e7 == q7 % 2
             e6 == q6 % 2
             e5 == q5 % 2
             e4 == q4 % 2
             e3 == q3 % 2
             e2 == q2 % 2
             e1 == q1 % 2
             e0 == q0 % 2
  <1>5. /\ q8 = 0 /\ q0 = b /\ q7 = 2 * q8 + e7 /\ q6 = 2 * q7 + e6 /\ q5 = 2 * q6 + e5
        /\ q4 = 2 * q5 + e4 /\ q3 = 2 * q4 + e3 /\ q2 = 2 * q3 + e2 /\ q1 = 2 * q2 + e1
        /\ q0 = 2 * q1 + e0
    BY <1>1, <1>2, <1>3
  <1>6. /\ q8 \in Int /\ q7 \in Int /\ q6 \in Int /\ q5 \in Int /\ q4 \in Int /\ q3 \in Int
        /\ q2 \in Int /\ q1 \in Int /\ q0 \in Int /\ e7 \in Int /\ e6 \in Int /\ e5 \in Int
        /\ e4 \in Int /\ e3 \in Int /\ e2 \in Int /\ e1 \in Int /\ e0 \in Int
    BY <1>4
  <1> HIDE DEF q8, q7, q6, q5, q4, q3, q2, q1, q0, e7, e6, e5, e4, e3, e2, e1, e0
  <1>7. b = 128 * e7 + 64 * e6 + 32 * e5 + 16 * e4 + 8 * e3 + 4 * e2 + 2 * e1 + e0
    BY ONLY <1>5, <1>6
  <1>8. QED
    BY <1>7 DEF q8, q7, q6, q5, q4, q3, q2, q1, q0, e7, e6, e5, e4, e3, e2, e1, e0

\* The parser on such a line, before and after its one decision.
ReadsOut(b) ==
    /\ line = OutText(b)
    /\ \/ pc \in {"entry", "special"} /\ pos = 1
       \/ pc = "accepted" /\ cmds = <<[NoCmd EXCEPT !.kind = "gpio_out", !.gpio_byte = b]>>

\* What the line shows at its places.
LEMMA OutPlaces ==
    ASSUME NEW b \in Byte, line = OutText(b)
    PROVE  /\ At(1) = 111 /\ At(13) = NUL /\ Len(line) = 12
           /\ strprefix(1, word_out)
           /\ \A k \in 0..7 : is_bin(At(5 + k))
           /\ ByteOf(BitsAt(5)) = b
  <1>1. /\ Len(line) = 12 /\ \A i \in 1..4 : line[i] = word_out[i]
        /\ /\ line[5] = Bit(b, 128) /\ line[6] = Bit(b, 64)
           /\ line[7] = Bit(b, 32) /\ line[8] = Bit(b, 16)
           /\ line[9] = Bit(b, 8) /\ line[10] = Bit(b, 4)
           /\ line[11] = Bit(b, 2) /\ line[12] = Bit(b, 1)
    BY OutTextMeans
  <1>2. \A i \in 1..12 : At(i) = line[i]
    BY <1>1 DEF At
  <1>3. At(13) = NUL
    BY <1>1 DEF At
  <1>4. /\ Len(word_out) = 4 /\ word_out[1] = 111
    BY DEF word_out
  <1>5. At(1) = 111
    BY <1>1, <1>2, <1>4
  <1>6. strprefix(1, word_out)
    <2>1. \A k \in 1..4 : At(1 + k - 1) = word_out[k]
      <3>1. \A k \in 1..4 : 1 + k - 1 = k /\ k \in 1..12
        OBVIOUS
      <3>2. QED
        BY <1>1, <1>2, <3>1
    <2>2. QED
      BY <1>4, <2>1 DEF strprefix
  <1> DEFINE e(w) == (b \div w) % 2
  <1>7. /\ e(128) \in {0, 1} /\ e(64) \in {0, 1} /\ e(32) \in {0, 1} /\ e(16) \in {0, 1}
        /\ e(8) \in {0, 1} /\ e(4) \in {0, 1} /\ e(2) \in {0, 1} /\ e(1) \in {0, 1}
    BY DEF Byte
  <1>8. /\ At(5) = 48 + e(128) /\ At(6) = 48 + e(64) /\ At(7) = 48 + e(32) /\ At(8) = 48 + e(16)
        /\ At(9) = 48 + e(8) /\ At(10) = 48 + e(4) /\ At(11) = 48 + e(2) /\ At(12) = 48 + e(1)
    BY <1>1, <1>2 DEF Bit
  <1>9. b = 128 * e(128) + 64 * e(64) + 32 * e(32) + 16 * e(16) + 8 * e(8) + 4 * e(4) + 2 * e(2) + e(1)
    BY BitsMakeByte
  <1> HIDE DEF e
  <1>10. \A k \in 0..7 : is_bin(At(5 + k))
    <2> TAKE k \in 0..7
    <2>1. 5 + k \in {5, 6, 7, 8, 9, 10, 11, 12}
      OBVIOUS
    <2>2. \A i \in {5, 6, 7, 8, 9, 10, 11, 12} : At(i) \in {48, 49}
      BY <1>7, <1>8
    <2>3. QED
      BY <2>1, <2>2 DEF is_bin
  <1>11. ByteOf(BitsAt(5)) = b
    <2> DEFINE v == BitsAt(5)
    <2>1. \A k \in 0..7 : v[k] = At(5 + k) - 48
      BY DEF BitsAt
    <2> HIDE DEF v
    <2>2. /\ v[0] = At(5) - 48 /\ v[1] = At(6) - 48 /\ v[2] = At(7) - 48 /\ v[3] = At(8) - 48
          /\ v[4] = At(9) - 48 /\ v[5] = At(10) - 48 /\ v[6] = At(11) - 48 /\ v[7] = At(12) - 48
      <3>1. v[0] = At(5 + 0) - 48 /\ v[1] = At(5 + 1) - 48 /\ v[2] = At(5 + 2) - 48 /\ v[3] = At(5 + 3) - 48
            /\ v[4] = At(5 + 4) - 48 /\ v[5] = At(5 + 5) - 48 /\ v[6] = At(5 + 6) - 48 /\ v[7] = At(5 + 7) - 48
        BY <2>1
      <3>2. QED
        BY <3>1
    <2>3. /\ v[0] = e(128) /\ v[1] = e(64) /\ v[2] = e(32) /\ v[3] = e(16)
          /\ v[4] = e(8) /\ v[5] = e(4) /\ v[6] = e(2) /\ v[7] = e(1)
      BY <1>7, <1>8, <2>2
    <2>4. ByteOf(v) = b
      BY <1>7, <1>9, <2>3 DEF ByteOf
    <2>5. QED
      BY <2>4 DEF v
  <1>12. QED
    BY <1>1, <1>3, <1>5, <1>6, <1>10, <1>11

\* One look decides that it is a special command, the next what it is.
LEMMA StepReadsOut ==
    ASSUME NEW b \in Byte, IInv, ReadsOut(b), Step
    PROVE  ReadsOut(b)'
  <1>1. /\ line = OutText(b) /\ At(1) = 111 /\ At(13) = NUL /\ Len(line) = 12
        /\ strprefix(1, word_out)
        /\ \A k \in 0..7 : is_bin(At(5 + k))
        /\ ByteOf(BitsAt(5)) = b
    BY OutPlaces DEF ReadsOut
  <1>2. CASE pc = "entry"
    <2>1. pos = 1 /\ At(pos) = 111 /\ At(pos) \notin Blank /\ At(pos) # NUL /\ ~at_cmd_start(pos)
      BY <1>1, <1>2 DEF ReadsOut, at_cmd_start
    <2>2. Dispatch
      BY <1>2, <2>1 DEF Step, SkipBlank, Chain, BeginCmd, AddrSelector, AddrHex, AddrAscii, AddrBin,
           PayloadHead, HexRun, BinRun, BinByte, AsciiRun, ReadTail, ReadCount, ReadFormat,
           ReadClose, SpecialOut, SpecialInp, SpecialHelp, SpecialUnknown
    <2>3. pc' = "special" /\ UNCHANGED <<line, pos>>
      BY <2>1, <2>2 DEF Dispatch, input
    <2>4. QED
      BY <1>1, <2>1, <2>3 DEF ReadsOut
  <1>3. CASE pc = "special"
    <2>1. pos = 1 /\ strprefix(pos, word_out)
      BY <1>1, <1>3 DEF ReadsOut
    <2>2. SpecialOut
      <3>1. ~SpecialUnknown
        BY <2>1 DEF SpecialUnknown
      <3>2. ~IsWord(word_inp) /\ ~IsWord(word_help) /\ ~IsWord(word_ask)
        <4>1. /\ word_inp[1] = 105 /\ Len(word_inp) = 3 /\ word_help[1] = 104 /\ Len(word_help) = 4
              /\ word_ask[1] = 63 /\ Len(word_ask) = 1
          BY DEF word_inp, word_help, word_ask
        <4>2. ASSUME NEW w, Len(w) \in Nat, Len(w) >= 1, w[1] # 111
              PROVE  ~IsWord(w)
          <5>1. 1 \in 1..Len(w) /\ pos + 1 - 1 = 1
            BY <2>1, <4>2
          <5>2. At(1) = 111
            BY <1>1
          <5>3. QED
            BY <4>2, <5>1, <5>2 DEF IsWord, strprefix
        <4>3. QED
          BY <4>1, <4>2
      <3>3. ~SpecialInp /\ ~SpecialHelp
        BY <3>2 DEF SpecialInp, SpecialHelp
      <3>4. QED
        BY <1>3, <3>1, <3>3 DEF Step, SkipBlank, Dispatch, Chain, BeginCmd, AddrSelector, AddrHex,
           AddrAscii, AddrBin, PayloadHead, HexRun, BinRun, BinByte, AsciiRun, ReadTail, ReadCount,
           ReadFormat, ReadClose
    <2>3. pos + 4 = 5 /\ pos + 12 = 13 /\ \A k \in 0..7 : pos + 4 + k = 5 + k
      BY <2>1
    <2>4. \A k \in 0..7 : is_bin(At(pos + 4 + k))
      BY <1>1, <2>3
    <2>5. strtail_empty(pos + 12)
      <3>1. \A k \in 13..12 : FALSE
        OBVIOUS
      <3>2. QED
        BY <1>1, <2>3, <3>1 DEF strtail_empty
    <2>6. SpecialDone([NoCmd EXCEPT !.kind = "gpio_out", !.gpio_byte = ByteOf(BitsAt(pos + 4))], pos + 12)
      BY <2>2, <2>4, <2>5 DEF SpecialOut
    <2>7. ByteOf(BitsAt(pos + 4)) = b
      BY <1>1, <2>3
    <2> DEFINE c == [NoCmd EXCEPT !.kind = "gpio_out", !.gpio_byte = b]
    <2>8. SpecialDone(c, pos + 12)
      BY <2>6, <2>7
    <2> HIDE DEF c
    <2>9. cmds = <<>>
      BY <1>3 DEF IInv, PhaseInv
    <2>10. pc' = "accepted" /\ cmds' = <<c>> /\ line' = line
      BY <2>8, <2>9 DEF SpecialDone, input
    <2>11. QED
      BY <1>1, <2>10 DEF ReadsOut, c
  <1>4. CASE pc = "accepted"
    BY <1>4 DEF Step, SkipBlank, Dispatch, Chain, BeginCmd, AddrSelector, AddrHex, AddrAscii, AddrBin,
           PayloadHead, HexRun, BinRun, BinByte, AsciiRun, ReadTail, ReadCount, ReadFormat,
           ReadClose, SpecialOut, SpecialInp, SpecialHelp, SpecialUnknown
  <1>5. QED
    BY <1>2, <1>3, <1>4 DEF ReadsOut

-----------------------------------------------------------------------------
(* What a transaction puts on the bus.                                       *)

\* The bytes that a command of an accepted transaction is to put there, and those
\* of all its commands.
Asked(t) == FlattenSeq([k \in DOMAIN t |-> BusBytes(t[k])])
Whole(t) == FlattenSeq([k \in 1..Len(t.cmds) |-> Executor!OnWire(t, t.cmds[k])])

LEMMA BusBytesType ==
    ASSUME NEW c \in Meaning, Grammatical(c)
    PROVE  BusBytes(c) \in Seq(Byte)
  <1> DEFINE h == <<c.ctrl_byte, c.internal_addr>>
             r == [k \in 1..c.rd_len |-> 255]
  <1>1. c.ctrl_byte \in Byte /\ c.internal_addr \in Byte /\ c.rd_len \in Nat
    <2>1. c.rd_len \in 0..RD_COUNT_MAX
      BY MeaningFacts
    <2>2. \A n \in 0..RD_COUNT_MAX : n \in Nat
      OBVIOUS
    <2>3. QED
      <3>1. c.rd_len \in Nat
        BY ONLY <2>1, <2>2
      <3>2. c.ctrl_byte \in Byte /\ c.internal_addr \in Byte
        BY MeaningFacts
      <3>3. QED
        BY <3>1, <3>2
  <1>2. h \in Seq(Byte)
    BY <1>1
  <1>3. r \in Seq(Byte)
    <2>1. 255 \in Byte
      BY DEF Byte
    <2> PICK n \in Nat : n = c.rd_len
      BY <1>1
    <2>2. [k \in 1..n |-> 255] \in Seq(Byte)
      BY <2>1
    <2>3. QED
      BY <2>2
  <1>4. Data(c) \in Seq(Byte)
    BY DataMeans
  <1>5. BusBytes(c) = h \o (IF c.kind = "read" THEN r ELSE Data(c))
    BY DEF BusBytes
  <1> HIDE DEF h, r
  <1>6. h \o r \in Seq(Byte) /\ h \o Data(c) \in Seq(Byte)
    BY ONLY <1>2, <1>3, <1>4, ConcatProperties
  <1>7. QED
    BY <1>5, <1>6

LEMMA AskedType ==
    ASSUME NEW t \in INTENTS
    PROVE  Asked(t) \in Seq(Byte)
  <1>1. /\ DOMAIN t = 1..Len(t) /\ Len(t) \in Nat
        /\ \A k \in 1..Len(t) : t[k] \in Meaning /\ Grammatical(t[k])
    BY TxnFacts
  <1>2. \A k \in 1..Len(t) : BusBytes(t[k]) \in Seq(Byte)
    BY <1>1, BusBytesType
  <1>3. [k \in DOMAIN t |-> BusBytes(t[k])] \in Seq(Seq(Byte))
    BY <1>1, <1>2
  <1>4. QED
    BY <1>3, FlattenType DEF Asked

\* What is decoded as it was meant is sent as it was meant.
LEMMA SentAsMeant ==
    ASSUME NEW c \in Meaning, Grammatical(c), NEW d \in Slot, Decoded(d) = Meant(c), NEW t, t.pool = pool
    PROVE  Executor!OnWire(t, d) = BusBytes(c) /\ d.kind \in {"read", "write"}
  <1>1. /\ d.kind = c.kind /\ d.ctrl_byte = c.ctrl_byte /\ d.internal_addr = c.internal_addr
        /\ d.rd_len = c.rd_len /\ SubSeq(pool, d.payload_off + 1, SliceEnd(d)) = Data(c)
    <2> DEFINE x == Decoded(d)
               y == Meant(c)
    <2>1. /\ x.kind = d.kind /\ x.ctrl_byte = d.ctrl_byte /\ x.internal_addr = d.internal_addr
          /\ x.rd_len = d.rd_len /\ x.bytes = SubSeq(pool, d.payload_off + 1, SliceEnd(d))
      BY DEF Decoded
    <2>2. /\ y.kind = c.kind /\ y.ctrl_byte = c.ctrl_byte /\ y.internal_addr = c.internal_addr
          /\ y.rd_len = c.rd_len /\ y.bytes = Data(c)
      BY DEF Meant
    <2>3. x = y
      OBVIOUS
    <2> HIDE DEF x, y
    <2>4. QED
      BY ONLY <2>1, <2>2, <2>3
  <1>2. c.kind \in {"read", "write"}
    BY MeaningFacts
  <1>3. CASE c.kind = "read"
    BY <1>1, <1>3 DEF Executor!OnWire, BusBytes
  <1>4. CASE c.kind = "write"
    BY <1>1, <1>4 DEF Executor!OnWire, BusBytes, SliceEnd
  <1>5. QED
    BY <1>1, <1>2, <1>3, <1>4

\* So the transaction that a spelled one is decoded into asks for the same bytes.
LEMMA WholeAsMeant ==
    ASSUME NEW t \in INTENTS, IInv, Reads(t), pc = "accepted", NEW j, j = [cmds |-> cmds, pool |-> pool]
    PROVE  /\ Whole(j) = Asked(t)
           /\ \A k \in 1..Len(cmds) : cmds[k].kind \in {"read", "write"}
  <1>1. SoFar(t) /\ Len(cmds) = Len(t)
    BY DEF Reads, Decoding
  <1>2. /\ DOMAIN t = 1..Len(t) /\ Len(t) \in Nat
        /\ \A k \in 1..Len(t) : t[k] \in Meaning /\ Grammatical(t[k])
    BY TxnFacts
  <1>3. j.cmds = cmds /\ j.pool = pool
    OBVIOUS
  <1>4. ASSUME NEW k \in 1..Len(cmds)
        PROVE  Executor!OnWire(j, cmds[k]) = BusBytes(t[k]) /\ cmds[k].kind \in {"read", "write"}
    <2>1. PICK d \in Slot : d = cmds[k] /\ Decoded(d) = Meant(t[k])
      BY <1>1 DEF SoFar
    <2>2. t[k] \in Meaning /\ Grammatical(t[k])
      BY <1>1, <1>2
    <2>3. Executor!OnWire(j, d) = BusBytes(t[k]) /\ d.kind \in {"read", "write"}
      BY <1>3, <2>1, <2>2, SentAsMeant
    <2>4. QED
      BY <2>1, <2>3
  <1>5. [k \in 1..Len(j.cmds) |-> Executor!OnWire(j, j.cmds[k])] = [k \in DOMAIN t |-> BusBytes(t[k])]
    BY <1>1, <1>2, <1>3, <1>4
  <1>6. QED
    BY <1>4, <1>5 DEF Whole, Asked

\* Special commands put nothing on the bus.
LEMMA SpecialIsSilent ==
    ASSUME IInv, pc = "accepted", \A k \in 1..Len(cmds) : cmds[k].kind \notin {"read", "write"},
           NEW j, j = [cmds |-> cmds, pool |-> pool]
    PROVE  Whole(j) = <<>>
  <1>1. j.cmds = cmds /\ Len(cmds) \in Nat
    BY DEF IInv, TypeOK
  <1>2. Len(cmds) <= 1
    <2>1. CASE Len(cmds) = 0
      BY <2>1
    <2>2. CASE Len(cmds) > 0
      <3>1. 1 \in 1..Len(cmds)
        BY <1>1, <2>2
      <3>2. QED
        BY <3>1 DEF IInv, CommandsWellFormed
    <2>3. QED
      BY <1>1, <2>1, <2>2
  <1> DEFINE f == [k \in 1..Len(j.cmds) |-> Executor!OnWire(j, j.cmds[k])]
  <1>3. CASE Len(cmds) = 0
    <2>1. f = <<>>
      BY <1>1, <1>3
    <2> HIDE DEF f
    <2>2. FlattenSeq(f) = <<>>
      BY <2>1, FlattenEmpty
    <2>3. QED
      BY <2>2 DEF Whole, f
  <1>4. CASE Len(cmds) = 1
    <2>1. Executor!OnWire(j, cmds[1]) = <<>>
      BY <1>4 DEF Executor!OnWire
    <2>2. f = << <<>> >>
      <3>1. Len(j.cmds) = 1 /\ j.cmds[1] = cmds[1]
        BY <1>1, <1>4
      <3>2. f = [k \in 1..1 |-> Executor!OnWire(j, j.cmds[k])]
        BY ONLY <3>1 DEF f
      <3>3. \A k \in 1..1 : Executor!OnWire(j, j.cmds[k]) = <<>>
        BY <2>1, <3>1
      <3>4. [k \in 1..1 |-> Executor!OnWire(j, j.cmds[k])] = [k \in 1..1 |-> <<>>]
        BY ONLY <3>3
      <3>5. [k \in 1..1 |-> <<>>] = << <<>> >>
        OBVIOUS
      <3>6. QED
        BY ONLY <3>2, <3>4, <3>5
    <2> HIDE DEF f
    <2>3. <<>> \in Seq(Byte)
      OBVIOUS
    <2>4. FlattenSeq(f) = <<>>
      BY <2>2, <2>3, FlattenOne
    <2>5. QED
      BY <2>4 DEF Whole, f
  <1>5. \A n \in Nat : n <= 1 => n = 0 \/ n = 1
    OBVIOUS
  <1>6. Len(cmds) = 0 \/ Len(cmds) = 1
    BY ONLY <1>1, <1>2, <1>5
  <1>7. QED
    BY <1>3, <1>4, <1>6

-----------------------------------------------------------------------------
(* What was meant is done.                                                   *)

\* What TypeOther is for: of the other lines, those that are accepted only print.
OthersOnlyPrint ==
    intent = <<>> /\ line \in LINES /\ pc = "accepted" =>
        \A k \in 1..Len(cmds) : cmds[k].kind \in {"gpio_in", "help"}

Column == Executor!TxColumn(wire)
Port == IF drives = <<>> THEN 0 ELSE Last(drives)

\* While a line is parsed, with d the bytes it still owes to the bus.
Owes(d) ==
    \/ \E t \in INTENTS : Reads(t) /\ d = Asked(t) /\ gpio = Port
    \/ \E b \in OUTS : ReadsOut(b) /\ d = <<>> /\ Port = b
    \/ intent = <<>> /\ line \in LINES /\ d = <<>> /\ gpio = Port

\* While it is carried out: behind the bytes of the earlier lines, p, stands what
\* is sent of this one, and the port shows what it should or is still to be set.
Sending ==
    /\ \E p \in Seq(Byte) : Column = p \o Executor!SentSoFar /\ sends = p \o Whole(job)
    /\ at = "idle" => ci - 1 = Len(job.cmds)

Driving ==
    /\ \A k \in 1..Len(job.cmds) : job.cmds[k].kind = "gpio_out" => job.cmds[k].gpio_byte = Port
    /\ gpio = Port \/ \E k \in 1..Len(job.cmds) : k >= ci /\ job.cmds[k].kind = "gpio_out"

MeantInv ==
    /\ sends \in Seq(Byte) /\ drives \in Seq(Byte)
    /\ turn \in {"prompt", "parse", "exec"}
    /\ turn # "exec" => at = "idle"
    /\ turn = "prompt" => sends = Column /\ gpio = Port
    /\ turn = "parse" => \E d \in Seq(Byte) : sends = Column \o d /\ Owes(d)
    /\ turn = "exec" => Sending /\ Driving

DoneInv == RInv /\ Executor!IInv /\ MeantInv

\* Each instance has its own copy of what a module defines; the copies agree.
LEMMA FlattenAlike ==
    ASSUME NEW s
    PROVE  Executor!FlattenSeq(s) = FlattenSeq(s) /\ Exec!FlattenSeq(s) = FlattenSeq(s)
  BY DEF FlattenSeq, Executor!FlattenSeq, Exec!FlattenSeq

LEMMA ColumnAlike == Exec!TxColumn(wire) = Column
  <1>1. [k \in 1..Len(wire) |-> IF Exec!IsByte(wire[k]) THEN <<wire[k].tx>> ELSE <<>>]
        = [k \in 1..Len(wire) |-> IF Executor!IsByte(wire[k]) THEN <<wire[k].tx>> ELSE <<>>]
    BY DEF Exec!IsByte, Executor!IsByte
  <1>2. QED
    BY <1>1, FlattenAlike DEF Column, Exec!TxColumn, Executor!TxColumn

LEMMA ColumnIsBytes == ASSUME Executor!IInv PROVE Column \in Seq(Byte)
  <1>1. Executor!TxColumn(wire) \in Seq(0..255)
    BY ExecutorAssumes, Executor!ColumnType
  <1>2. QED
    BY <1>1 DEF Column, Byte

LEMMA StepKeepsLine == Step => line' = line
  BY DEF Step, SkipBlank, Dispatch, Chain, BeginCmd, AddrSelector, AddrHex, AddrAscii, AddrBin,
         PayloadHead, HexRun, BinRun, BinByte, AsciiRun, ReadTail, ReadCount, ReadFormat, ReadClose,
         SpecialOut, SpecialInp, SpecialHelp, SpecialUnknown, Fail, FailAt, Advance, EndCmd,
         StoreAddr, ShiftBit, PushPayload, StoreByte, EndGroup, CountDigit, CountTaken, SpecialDone,
         input

LEMMA DecodeAsMeant ==
    ASSUME DoneInv, Decode
    PROVE  MeantInv'
  <1>1. /\ turn = "parse" /\ Step /\ IInv
        /\ UNCHANGED <<intent, turn, sends, drives, wire, gpio, at>>
    BY DEF DoneInv, RInv, Decode, xvars
  <1>2. PICK d \in Seq(Byte) : sends = Column \o d /\ Owes(d)
    BY <1>1 DEF DoneInv, MeantInv
  <1>3. Column' = Column /\ Port' = Port
    BY <1>1 DEF Column, Executor!TxColumn, Executor!IsByte, Port
  <1>4. Owes(d)'
    <2>1. CASE \E t \in INTENTS : Reads(t) /\ d = Asked(t) /\ gpio = Port
      <3>1. PICK t \in INTENTS : Reads(t) /\ d = Asked(t) /\ gpio = Port
        BY <2>1
      <3>2. Reads(t)'
        BY <1>1, <3>1, StepReads
      <3>3. QED
        BY <1>1, <1>3, <3>1, <3>2 DEF Owes
    <2>2. CASE \E b \in OUTS : ReadsOut(b) /\ d = <<>> /\ Port = b
      <3>1. PICK b \in OUTS : ReadsOut(b) /\ d = <<>> /\ Port = b
        BY <2>2
      <3>2. ReadsOut(b)'
        BY <1>1, <3>1, StepReadsOut, BytesAssumption
      <3>3. QED
        BY <1>3, <3>1, <3>2 DEF Owes
    <2>3. CASE intent = <<>> /\ line \in LINES /\ d = <<>> /\ gpio = Port
      BY <1>1, <1>3, <2>3, StepKeepsLine DEF Owes
    <2>4. QED
      BY <1>2, <2>1, <2>2, <2>3 DEF Owes
  <1>5. QED
    BY <1>1, <1>2, <1>3, <1>4 DEF DoneInv, MeantInv

\* Only other lines are rejected, and they owe nothing.
LEMMA RejectedAsMeant ==
    ASSUME DoneInv, Rejected
    PROVE  MeantInv'
  <1>1. /\ turn = "parse" /\ pc = "rejected" /\ turn' = "prompt"
        /\ UNCHANGED <<sends, drives, wire, gpio, at>>
    BY DEF Rejected, xvars
  <1>2. PICK d \in Seq(Byte) : sends = Column \o d /\ Owes(d)
    BY <1>1 DEF DoneInv, MeantInv
  <1>3. Column' = Column /\ Port' = Port
    BY <1>1 DEF Column, Executor!TxColumn, Executor!IsByte, Port
  <1>4. d = <<>> /\ gpio = Port
    BY <1>1, <1>2 DEF Owes, Reads, ReadsOut
  <1>5. Column \o <<>> = Column
    BY ColumnIsBytes, ConcatEmptySeq DEF DoneInv
  <1>6. sends = Column
    BY <1>2, <1>4, <1>5
  <1>7. QED
    BY <1>1, <1>3, <1>4, <1>6 DEF DoneInv, MeantInv

\* An accepted line is carried out with nothing of it sent yet.
LEMMA AcceptedAsMeant ==
    ASSUME DoneInv, OthersOnlyPrint, Accepted
    PROVE  MeantInv'
  <1>1. /\ turn = "parse" /\ pc = "accepted" /\ turn' = "exec" /\ IInv
        /\ job' = [cmds |-> cmds, pool |-> pool] /\ ci' = 1 /\ at' = "command"
        /\ UNCHANGED <<sends, drives, wire, gpio>>
    BY DEF DoneInv, RInv, Accepted, Exec!Run
  <1>2. PICK d \in Seq(Byte) : sends = Column \o d /\ Owes(d)
    BY <1>1 DEF DoneInv, MeantInv
  <1>3. Column' = Column /\ Port' = Port /\ Column \in Seq(Byte)
    BY <1>1, ColumnIsBytes DEF DoneInv, Column, Executor!TxColumn, Executor!IsByte, Port
  <1> PICK j : j = [cmds |-> cmds, pool |-> pool]
    OBVIOUS
  <1>4. j.cmds = cmds /\ job' = j /\ Len(cmds) \in Nat
    BY <1>1 DEF IInv, TypeOK
  <1>5. /\ Whole(j) = d
        /\ \A k \in 1..Len(cmds) : cmds[k].kind = "gpio_out" => cmds[k].gpio_byte = Port
        /\ gpio = Port \/ \E k \in 1..Len(cmds) : cmds[k].kind = "gpio_out"
    <2>1. CASE \E t \in INTENTS : Reads(t) /\ d = Asked(t) /\ gpio = Port
      <3>1. PICK t \in INTENTS : Reads(t) /\ d = Asked(t) /\ gpio = Port
        BY <2>1
      <3>2. Whole(j) = Asked(t) /\ \A k \in 1..Len(cmds) : cmds[k].kind \in {"read", "write"}
        BY <1>1, <3>1, WholeAsMeant
      <3>3. QED
        BY <3>1, <3>2
    <2>2. CASE \E b \in OUTS : ReadsOut(b) /\ d = <<>> /\ Port = b
      <3>1. PICK b \in OUTS : ReadsOut(b) /\ d = <<>> /\ Port = b
        BY <2>2
      <3>2. cmds = <<[NoCmd EXCEPT !.kind = "gpio_out", !.gpio_byte = b]>>
        BY <1>1, <3>1 DEF ReadsOut
      <3> PICK c : c = [NoCmd EXCEPT !.kind = "gpio_out", !.gpio_byte = b]
        OBVIOUS
      <3>3. c.kind = "gpio_out" /\ c.gpio_byte = b
        BY DEF NoCmd
      <3>4. cmds = <<c>> /\ Len(cmds) = 1 /\ cmds[1] = c
        BY <3>2
      <3>5. \A k \in 1..Len(cmds) : cmds[k].kind = "gpio_out" /\ cmds[k].gpio_byte = b
        BY ONLY <3>3, <3>4
      <3>6. 1 \in 1..Len(cmds)
        BY <3>4
      <3>7. Whole(j) = <<>>
        BY <1>1, <3>5, SpecialIsSilent
      <3>8. QED
        BY <3>1, <3>5, <3>6, <3>7
    <2>3. CASE intent = <<>> /\ line \in LINES /\ d = <<>> /\ gpio = Port
      <3>1. \A k \in 1..Len(cmds) : cmds[k].kind \in {"gpio_in", "help"}
        BY <1>1, <2>3 DEF OthersOnlyPrint
      <3>2. Whole(j) = <<>>
        BY <1>1, <3>1, SpecialIsSilent
      <3>3. QED
        BY <2>3, <3>1, <3>2
    <2>4. QED
      BY <1>2, <2>1, <2>2, <2>3 DEF Owes
  <1>6. Sending'
    <2>1. Executor!SentSoFar' = <<>>
      BY <1>1, ExecutorAssumes, Executor!NothingSent
    <2>2. Whole(job)' = Whole(j)
      <3>1. Whole(j)' = Whole(j)
        BY DEF Whole, Executor!OnWire
      <3>2. Whole(job)' = Whole(j)'
        BY <1>4 DEF Whole, Executor!OnWire
      <3>3. QED
        BY <3>1, <3>2
    <2>3. Column \o <<>> = Column
      BY <1>3, ConcatEmptySeq
    <2>4. Column' = Column \o Executor!SentSoFar' /\ sends' = Column \o Whole(job)'
      BY <1>1, <1>2, <1>3, <1>5, <2>1, <2>2, <2>3
    <2>5. QED
      BY <1>1, <1>3, <2>4 DEF Sending
  <1>7. Driving'
    BY <1>1, <1>3, <1>4, <1>5 DEF Driving
  <1>8. QED
    BY <1>1, <1>6, <1>7 DEF DoneInv, MeantInv

\* A call of the executor moves on through the bytes, and sets the port when it is
\* told to.
LEMMA ExecuteAsMeant ==
    ASSUME DoneInv, Execute
    PROVE  MeantInv'
  <1>1. /\ turn = "exec" /\ Exec!Step /\ Executor!Step /\ job' = job
        /\ UNCHANGED <<turn, sends, drives>>
    BY SameExecutor, ExecKeepsJob DEF Execute
  <1>2. Executor!IInv /\ Executor!TypeOK /\ Sending /\ Driving
    BY <1>1 DEF DoneInv, MeantInv, Executor!IInv
  <1>3. Port' = Port /\ Whole(job)' = Whole(job)
    BY <1>1 DEF Port, Whole, Executor!OnWire
  <1>4. Sending'
    <2>1. PICK p \in Seq(Byte) : Column = p \o Executor!SentSoFar /\ sends = p \o Whole(job)
      BY <1>2 DEF Sending
    <2>2. PICK x \in Seq(0..255) : /\ Executor!TxColumn(wire') = Executor!TxColumn(wire) \o x
                                   /\ Executor!SentSoFar' = Executor!SentSoFar \o x
      BY <1>1, <1>2, ExecutorAssumes, Executor!SentGrows
    <2>3. Executor!SentSoFar \in Seq(0..255) /\ (at' = "idle" => ci' - 1 = Len(job'.cmds))
      BY <1>1, <1>2, ExecutorAssumes, Executor!SentGrows
    <2> PICK s : s = Executor!SentSoFar
      OBVIOUS
    <2>4. p \in Seq(0..255) /\ x \in Seq(0..255) /\ s \in Seq(0..255)
      BY <2>3 DEF Byte
    <2>5. (p \o s) \o x = p \o (s \o x)
      BY ONLY <2>4, ConcatAssociative
    <2>6. Column' = Column \o x
      BY <2>2 DEF Column, Executor!TxColumn, Executor!IsByte
    <2>7. Column' = p \o Executor!SentSoFar'
      BY <2>1, <2>2, <2>5, <2>6
    <2>8. QED
      BY <1>1, <1>3, <2>1, <2>3, <2>7 DEF Sending
  <1>5. Driving'
    <2>1. \A k \in 1..Len(job.cmds) : job.cmds[k].kind = "gpio_out" => job.cmds[k].gpio_byte = Port
      BY <1>2 DEF Driving
    <2>2. CASE Executor!GpioOut
      <3>1. /\ at = "gpio_out" /\ gpio' = job.cmds[ci].gpio_byte
            /\ ci \in 1..Len(job.cmds) /\ job.cmds[ci].kind = "gpio_out"
        BY <1>2, <2>2 DEF Executor!GpioOut, Executor!TypeOK, Executor!cmd
      <3>2. gpio' = Port
        BY <2>1, <3>1
      <3>3. QED
        BY <1>1, <1>3, <2>1, <3>2 DEF Driving
    <2>3. CASE ~Executor!GpioOut
      <3>1. gpio' = gpio
        BY <1>1, <2>3 DEF Executor!Step, Executor!Command, Executor!TwiStart, Executor!SendCtrl,
              Executor!SendAddr, Executor!SendPayload, Executor!ReadByte, Executor!TwiStop,
              Executor!GpioIn, Executor!Help
      <3>2. \/ ci' = ci
            \/ /\ ci' = ci + 1 /\ ci \in 1..Len(job.cmds)
               /\ job.cmds[ci].kind # "gpio_out"
        <4>1. CASE Executor!TwiStop \/ Executor!GpioIn \/ Executor!Help
          <5>1. at \in {"write", "read", "gpio_in", "help"} /\ ci' = ci + 1
            BY <4>1 DEF Executor!TwiStop, Executor!DataDone, Executor!GpioIn, Executor!Help,
                  Executor!EndLine
          <5>2. ci \in 1..Len(job.cmds) /\ job.cmds[ci].kind = at
            BY <1>2, <5>1 DEF Executor!TypeOK, Executor!cmd
          <5>3. QED
            BY <5>1, <5>2
        <4>2. CASE ~(Executor!TwiStop \/ Executor!GpioIn \/ Executor!Help)
          BY <1>1, <2>3, <4>2 DEF Executor!Step, Executor!Command, Executor!TwiStart,
                Executor!SendCtrl, Executor!SendAddr, Executor!SendPayload, Executor!ReadByte
        <4>3. QED
          BY <4>1, <4>2
      <3>3. CASE gpio = Port
        BY <1>1, <1>3, <2>1, <3>1, <3>3 DEF Driving
      <3>4. CASE \E k \in 1..Len(job.cmds) : k >= ci /\ job.cmds[k].kind = "gpio_out"
        <4>1. PICK k \in 1..Len(job.cmds) : k >= ci /\ job.cmds[k].kind = "gpio_out"
          BY <3>4
        <4>2. ci \in Int /\ k \in Int
          BY <1>2 DEF Executor!TypeOK
        <4>3. k >= ci'
          BY <3>2, <4>1, <4>2
        <4>4. QED
          BY <1>1, <1>3, <2>1, <4>1, <4>3 DEF Driving
      <3>5. QED
        BY <1>2, <3>3, <3>4 DEF Driving
    <2>4. QED
      BY <2>2, <2>3
  <1>6. QED
    BY <1>1, <1>4, <1>5 DEF DoneInv, MeantInv

\* When the executor is idle again, all is sent and the port is set.
LEMMA ExecutedAsMeant ==
    ASSUME DoneInv, Executed
    PROVE  MeantInv'
  <1>1. /\ turn = "exec" /\ at = "idle" /\ turn' = "prompt"
        /\ UNCHANGED <<sends, drives, wire, gpio, at>>
    BY DEF Executed, xvars
  <1>2. Executor!IInv /\ Executor!TypeOK /\ Sending /\ Driving
    BY <1>1 DEF DoneInv, MeantInv, Executor!IInv
  <1>3. Column' = Column /\ Port' = Port
    BY <1>1 DEF Column, Executor!TxColumn, Executor!IsByte, Port
  <1>4. ci - 1 = Len(job.cmds) /\ Len(job.cmds) \in Nat /\ ci \in Int
    BY <1>1, <1>2, ExecutorAssumes, Executor!JobType DEF Sending, Executor!TypeOK
  <1>5. Executor!SentSoFar = Whole(job)
    <2>1. Executor!SentSoFar = Whole(job) \o <<>>
      BY <1>1, <1>4, FlattenAlike DEF Executor!SentSoFar, Executor!Before, Executor!Parts, Whole
    <2>2. Executor!Before(job, Len(job.cmds)) \in Seq(0..255)
      <3>1. Len(job.cmds) <= Len(job.cmds)
        BY <1>4
      <3>2. QED
        BY <1>2, <1>4, <3>1, ExecutorAssumes, Executor!PartsType
    <2>3. Whole(job) \in Seq(0..255)
      BY <2>2, FlattenAlike DEF Executor!Before, Executor!Parts, Whole
    <2>4. Whole(job) \o <<>> = Whole(job)
      BY <2>3, ConcatEmptySeq
    <2>5. QED
      BY <2>1, <2>4
  <1>6. sends = Column
    BY <1>2, <1>5 DEF Sending
  <1>7. gpio = Port
    BY <1>2, <1>4 DEF Driving
  <1>8. QED
    BY <1>1, <1>3, <1>6, <1>7 DEF DoneInv, MeantInv

\* A line that is typed owes to the bus what the user adds to what he has meant so far.
LEMMA TypedAsMeant ==
    ASSUME DoneInv, NEW s, NEW d \in Seq(Byte), NEW p \in Seq(Byte), ReadLine(s, d, p), Owes(d)'
    PROVE  MeantInv'
  <1>1. /\ turn = "prompt" /\ turn' = "parse" /\ sends' = sends \o d /\ drives' = drives \o p
        /\ UNCHANGED <<wire, gpio, at>>
    BY DEF ReadLine, xvars
  <1>2. sends \in Seq(Byte) /\ drives \in Seq(Byte) /\ sends = Column /\ at = "idle"
    BY <1>1 DEF DoneInv, MeantInv
  <1>3. sends \o d \in Seq(Byte) /\ drives \o p \in Seq(Byte)
    BY ONLY <1>2, d \in Seq(Byte), p \in Seq(Byte), ConcatProperties
  <1>4. Column' = Column
    BY <1>1 DEF Column, Executor!TxColumn, Executor!IsByte
  <1>5. sends' = Column' \o d
    BY <1>1, <1>2, <1>4
  <1>6. QED
    BY <1>1, <1>2, <1>3, <1>5 DEF MeantInv

\* Without a word about the port, it should show what it did.
LEMMA SamePort ==
    ASSUME DoneInv, drives' = drives \o <<>>
    PROVE  Port' = Port
  <1>1. drives \o <<>> = drives
    BY ConcatEmptySeq DEF DoneInv, MeantInv
  <1>2. drives' = drives
    BY <1>1
  <1>3. QED
    BY <1>2 DEF Port

LEMMA NewPort ==
    ASSUME DoneInv, NEW b \in Byte, drives' = drives \o <<b>>
    PROVE  Port' = b
  <1>1. drives \in Seq(Byte) /\ <<b>> \in Seq(Byte)
    BY DEF DoneInv, MeantInv
  <1>2. drives \o <<b>> = Append(drives, b)
    BY ONLY <1>1, b \in Byte, AppendIsConcat
  <1>3. /\ Append(drives, b) \in Seq(Byte) /\ Len(Append(drives, b)) = Len(drives) + 1
        /\ Append(drives, b)[Len(drives) + 1] = b
    BY ONLY <1>1, b \in Byte, AppendProperties
  <1>4. Len(drives) \in Nat
    BY <1>1
  <1> PICK e : e = Append(drives, b)
    OBVIOUS
  <1>5. Len(e) # 0 /\ e[Len(e)] = b /\ drives' = e
    BY <1>2, <1>3, <1>4
  <1>6. e # <<>>
    BY <1>5
  <1>7. QED
    BY <1>5, <1>6 DEF Port, Last

LEMMA StutterAsMeant ==
    ASSUME DoneInv, UNCHANGED rvars
    PROVE  MeantInv'
  <1>1. /\ UNCHANGED <<intent, turn, sends, drives, wire, gpio, at, ci, bi, job>>
        /\ UNCHANGED <<line, pos, pc, cmds, cmd, pool, fmt, acc, digits, got>>
    BY DEF rvars, gvars, vars, xvars
  <1>2. Column' = Column /\ Port' = Port
    BY <1>1 DEF Column, Executor!TxColumn, Executor!IsByte, Port
  <1>3. ASSUME NEW d, Owes(d)
        PROVE  Owes(d)'
    <2>1. ASSUME NEW t \in INTENTS, Reads(t)
          PROVE  Reads(t)'
      BY <1>1, <2>1, StutterReads DEF DoneInv, RInv
    <2>2. \A b : ReadsOut(b) => ReadsOut(b)'
      BY <1>1 DEF ReadsOut
    <2>3. \A t : Asked(t)' = Asked(t)
      BY DEF Asked, BusBytes, Data
    <2>4. QED
      BY <1>1, <1>2, <1>3, <2>1, <2>2, <2>3 DEF Owes
  <1>4. Sending => Sending'
    <2>1. Executor!SentSoFar' = Executor!SentSoFar
      BY <1>1 DEF Executor!SentSoFar, Executor!OnWire, Executor!BytesSent, Executor!cmd
    <2>2. Whole(job)' = Whole(job)
      BY <1>1 DEF Whole, Executor!OnWire
    <2>3. QED
      BY <1>1, <1>2, <2>1, <2>2 DEF Sending
  <1>5. Driving => Driving'
    BY <1>1, <1>2 DEF Driving
  <1>6. turn = "parse" => \E d \in Seq(Byte) : sends' = Column' \o d /\ Owes(d)'
    BY <1>1, <1>2, <1>3 DEF DoneInv, MeantInv
  <1>7. QED
    BY <1>1, <1>2, <1>4, <1>5, <1>6 DEF DoneInv, MeantInv

LEMMA NextKeepsMeant ==
    ASSUME DoneInv, OthersOnlyPrint, [RNext]_rvars
    PROVE  MeantInv'
  <1>0. <<>> \in Seq(Byte)
    OBVIOUS
  <1>1. CASE TypeTransaction
    <2>1. PICK t \in INTENTS :
            ReadLine(SpellTxn(t), FlattenSeq([k \in DOMAIN t |-> BusBytes(t[k])]), <<>>)
      BY <1>1 DEF TypeTransaction
    <2>2. ReadLine(SpellTxn(t), Asked(t), <<>>) /\ Asked(t) \in Seq(Byte)
      BY <2>1, AskedType DEF Asked
    <2>3. /\ turn = "prompt" /\ Parse(SpellTxn(t)) /\ drives' = drives \o <<>> /\ gpio' = gpio
      BY <2>2 DEF ReadLine, xvars
    <2>4. gpio' = Port'
      BY <2>3, SamePort DEF DoneInv, MeantInv
    <2>5. Reads(t)'
      BY <2>3, ParseReads
    <2>6. Asked(t)' = Asked(t)
      BY DEF Asked, BusBytes, Data
    <2>7. Owes(Asked(t))'
      BY <2>4, <2>5, <2>6 DEF Owes
    <2>8. QED
      BY <1>0, <2>2, <2>7, TypedAsMeant
  <1>2. CASE TypeOut
    <2>1. PICK b \in OUTS : ReadLine(OutText(b), <<>>, <<b>>)
      BY <1>2 DEF TypeOut, OutText
    <2>2. Parse(OutText(b)) /\ drives' = drives \o <<b>> /\ b \in Byte
      BY <2>1, BytesAssumption DEF ReadLine
    <2>3. line' = OutText(b) /\ pc' = "entry" /\ pos' = 1
      BY <2>2 DEF Parse
    <2>4. ReadsOut(b)'
      BY <2>3 DEF ReadsOut
    <2>5. Port' = b
      BY <2>2, NewPort
    <2>6. Owes(<<>>)'
      BY <2>4, <2>5 DEF Owes
    <2>7. <<b>> \in Seq(Byte)
      BY <2>2
    <2>8. QED
      BY <1>0, <2>1, <2>6, <2>7, TypedAsMeant
  <1>3. CASE TypeOther
    <2>1. PICK l \in LINES : ReadLine(l, <<>>, <<>>) /\ intent' = <<>>
      BY <1>3 DEF TypeOther
    <2>2. /\ turn = "prompt" /\ Parse(l) /\ drives' = drives \o <<>> /\ gpio' = gpio
      BY <2>1 DEF ReadLine, xvars
    <2>3. gpio' = Port'
      BY <2>2, SamePort DEF DoneInv, MeantInv
    <2>4. line' = l
      BY <2>2 DEF Parse
    <2>5. Owes(<<>>)'
      BY <2>1, <2>3, <2>4 DEF Owes
    <2>6. QED
      BY <1>0, <2>1, <2>5, TypedAsMeant
  <1>4. CASE Decode
    BY <1>4, DecodeAsMeant
  <1>5. CASE Rejected
    BY <1>5, RejectedAsMeant
  <1>6. CASE Accepted
    BY <1>6, AcceptedAsMeant
  <1>7. CASE Execute
    BY <1>7, ExecuteAsMeant
  <1>8. CASE Executed
    BY <1>8, ExecutedAsMeant
  <1>9. CASE UNCHANGED rvars
    BY <1>9, StutterAsMeant
  <1>10. QED
    BY <1>1, <1>2, <1>3, <1>4, <1>5, <1>6, <1>7, <1>8, <1>9 DEF RNext, Work

\* Whatever is typed and however often, at every prompt the bus and the port have seen
\* what the user meant with all the lines so far, and nothing else: nothing for a line
\* that was rejected, nothing left of an earlier one.  Of the lines that are no spelled
\* transaction it takes only that those that are accepted print.
THEOREM DoneAlwaysAsMeant == RSpec /\ []OthersOnlyPrint => []DoneAsMeant
  <1>1. RInit => MeantInv
    <2> SUFFICES ASSUME RInit
                 PROVE  MeantInv
      OBVIOUS
    <2>1. /\ turn = "prompt" /\ sends = <<>> /\ drives = <<>> /\ at = "idle" /\ wire = <<>> /\ gpio = 0
      BY DEF RInit, Exec!Init
    <2>2. Column = <<>>
      <3>1. [k \in 1..Len(wire) |-> IF Executor!IsByte(wire[k]) THEN <<wire[k].tx>> ELSE <<>>] = <<>>
        BY <2>1
      <3>2. QED
        BY <3>1, FlattenEmpty, FlattenAlike DEF Column, Executor!TxColumn
    <2>3. Port = 0
      BY <2>1 DEF Port
    <2>4. QED
      BY <2>1, <2>2, <2>3 DEF MeantInv
  <1>2. RSpec => []Executor!IInv
    <2>1. Executor!Spec => []Executor!IInv
      BY ExecutorAssumes, Executor!InvAlways
    <2>2. QED
      BY <2>1, ReplRunsExecutor, PTL
  <1>3. RSpec => []RInv
    BY InitRInv, NextKeepsRInv, PTL DEF RSpec
  <1>4. RInv /\ Executor!IInv /\ MeantInv /\ OthersOnlyPrint /\ [RNext]_rvars => MeantInv'
    BY NextKeepsMeant DEF DoneInv
  <1>5. MeantInv => DoneAsMeant
    BY ColumnAlike DEF MeantInv, DoneAsMeant, Port
  <1>6. QED
    BY <1>1, <1>2, <1>3, <1>4, <1>5, PTL DEF RSpec

=============================================================================
