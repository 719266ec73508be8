------------------------------ MODULE NeoParser ------------------------------
(***************************************************************************)
(* The transaction parser of src/neo_parser.c: one call of                 *)
(* neo_parse_transaction after the other, on lines the shell hands over.   *)
(* A line is the sequence of its bytes before the terminating NUL; a step  *)
(* is one turn of one of the parser's loops, or one decision between two   *)
(* loops, so that `pos` is the C cursor `c->p` at every loop head.         *)
(***************************************************************************)
EXTENDS Integers, Sequences

CONSTANTS
    LINES,          \* the lines a caller may pass
    MAX_CMDS,       \* NEO_PARSER_MAX_CMDS
    PAYLOAD_MAX,    \* NEO_PARSER_PAYLOAD_MAX
    POOL_SIZE       \* sizeof(neo_txn_t.payload_pool)

\* A C string holds no NUL, and a line is never NULL (neo_app.c passes s_line).
ASSUME LinesAssumption == LINES \subseteq Seq(1..255)

\* Offsets and lengths are uint16_t in neo_cmd_t.
ASSUME LimitsAssumption ==
    /\ MAX_CMDS \in Nat \ {0}
    /\ PAYLOAD_MAX \in Nat
    /\ POOL_SIZE \in Nat /\ POOL_SIZE <= 65535

RD_COUNT_MAX == 1022        \* h3FE
BYTE_BITS    == 8
COUNT_DIGITS == 3

-----------------------------------------------------------------------------
(* Characters. *)

NUL == 0
Blank == {9, 32}
Underscore == 95
ch_A == 65
ch_a == 97
ch_b == 98
ch_h == 104
FMT_NONE == 0
Selector == {ch_h, ch_b, ch_a}

is_hex(c) == c \in (48..57) \cup (65..70)
hex_val_from_54(c) == IF c \in 48..57 THEN c - 48 ELSE c - 54       \* mutant
hex_val(c) == IF c \in 48..57 THEN c - 48 ELSE c - 55
is_bin(c) == c \in {48, 49}
is_alnum_lat(c) == c \in (48..57) \cup (97..122) \cup (65..90)

Byte == 0..255

\* Commands of a decoded transaction (neo_cmd_t); the slot is zeroed before use.
NoCmd == [kind |-> "none", ctrl_byte |-> 0, internal_addr |-> 0, rd_len |-> 0,
          rd_fmt |-> FMT_NONE, payload_off |-> 0, payload_len |-> 0, gpio_byte |-> 0]

VARIABLES
    line,       \* the input
    base,       \* cur_t.base: where error offsets count from
    pos,        \* cur_t.p
    pc,         \* which loop of which function is running
    cmds,       \* neo_txn_t.cmds[0 .. count-1]
    cmd,        \* the slot cmds[count] a command is being decoded into
    pool,       \* payload_pool[0 .. payload_used-1]
    error,      \* neo_txn_t.error, "none" for a null pointer
    error_pos,  \* neo_txn_t.error_pos
    fmt,        \* selector of the group or byte being decoded
    acc,        \* the local v of decode_bin_byte, n of parse_read_tail
    digits,     \* the local bits / digits of the same loops
    got         \* bytes decoded by the current payload group

input   == <<line, base>>
txn     == <<cmds, pool, error, error_pos>>
scratch == <<fmt, acc, digits, got>>
vars    == <<line, base, pos, pc, cmds, cmd, pool, error, error_pos, fmt, acc, digits, got>>

Done == {"idle", "accepted", "rejected"}

-----------------------------------------------------------------------------
(* Cursor helpers. *)

At(i) == IF i \in 1..Len(line) THEN line[i] ELSE NUL

\* Mutant: any hex byte from A0 to AF would open a command.
any_A_byte(i) == At(i) = ch_h /\ At(i + 1) = ch_A /\ is_hex(At(i + 2))

\* Is a command start at i?  It is what ends a write payload.
at_cmd_start(i) ==
    /\ At(i) = ch_h
    /\ At(i + 1) = ch_A
    /\ At(i + 2) \in 48..51

\* The peek in a binary run: the next character that is no '_' is a bit.
BitAhead == \E j \in pos..Len(line) :
                /\ is_bin(At(j))
                /\ \A k \in pos..(j - 1) : At(k) = Underscore

HexByteAt(i) == 16 * hex_val(At(i)) + hex_val(At(i + 1))
TwoHexAt(i)  == is_hex(At(i)) /\ is_hex(At(i + 1))

\* s from i on starts with the word w; nothing but blanks from i on.
strprefix(i, w) == \A k \in 1..Len(w) : At(i + k - 1) = w[k]
tail_starts_blank(i) == At(i) \in Blank \cup {NUL}                  \* mutant
strtail_empty(i) == \A k \in i..Len(line) : At(k) \in Blank

\* err_at with the cursor at p: the parse is over.
FailAt(p, e) ==
    /\ pc' = "rejected"
    /\ pos' = p
    /\ error' = e
    /\ error_pos' = p - base
    /\ UNCHANGED <<input, cmds, cmd, pool, scratch>>

Fail(e) == FailAt(pos, e)

\* Mutant: the cursor is not moved.
AdvanceStay(l) ==
    /\ pc' = l
    /\ UNCHANGED <<pos, input, txn, cmd, scratch>>

\* Consume one character and stay in, or move to, the loop l.
Advance(l) ==
    /\ pos' = pos + 1
    /\ pc' = l
    /\ UNCHANGED <<input, txn, cmd, scratch>>

-----------------------------------------------------------------------------
(* neo_parse_transaction. *)

Init ==
    /\ line = <<>>
    /\ base = 1
    /\ pos = 1
    /\ pc = "idle"
    /\ cmds = <<>>
    /\ cmd = NoCmd
    /\ pool = <<>>
    /\ error = "none"
    /\ error_pos = 0
    /\ fmt = FMT_NONE
    /\ acc = 0
    /\ digits = 0
    /\ got = 0

\* Mutant: the count of the previous call is not reset.
ParseAppends(l) ==
    /\ pc \in Done
    /\ pc' = "entry"
    /\ line' = l
    /\ base' = 1
    /\ pos' = 1
    /\ cmd' = NoCmd
    /\ error' = "none"
    /\ error_pos' = 0
    /\ UNCHANGED <<cmds, pool, scratch>>

\* Entry: the output is zero-initialised, whatever the previous call left.
Parse(l) ==
    /\ pc \in Done
    /\ pc' = "entry"
    /\ line' = l
    /\ base' = 1
    /\ pos' = 1
    /\ cmds' = <<>>
    /\ cmd' = NoCmd
    /\ pool' = <<>>
    /\ error' = "none"
    /\ error_pos' = 0
    /\ UNCHANGED scratch

\* Leading blanks are skipped before the cursor's base is set.
SkipBlank ==
    /\ pc = "entry"
    /\ At(pos) \in Blank
    /\ pos' = pos + 1
    /\ base' = pos + 1
    /\ UNCHANGED <<line, pc, txn, cmd, scratch>>

Dispatch ==
    /\ pc = "entry"
    /\ At(pos) \notin Blank
    /\ \/ At(pos) = NUL /\ Fail("empty transaction")
       \/ /\ At(pos) # NUL
          /\ pc' = IF at_cmd_start(pos) THEN "chain" ELSE "special"
          /\ UNCHANGED <<input, pos, txn, cmd, scratch>>

\* The loop over chained TWI commands.
Chain ==
    /\ pc = "chain"
    /\ \/ At(pos) = Underscore /\ Advance("chain")
       \/ /\ At(pos) = NUL
          /\ pc' = "accepted"
          /\ UNCHANGED <<input, pos, txn, cmd, scratch>>
       \/ /\ At(pos) \notin {Underscore, NUL}
          /\ ~at_cmd_start(pos)
          /\ Fail("garbage after command")

-----------------------------------------------------------------------------
(* parse_one_twi_cmd and parse_one_byte_any. *)

CtrlByte == HexByteAt(pos + 1)

\* Mutant: payload_off is left zeroed.
OpenedAtZero ==
    [NoCmd EXCEPT !.kind = IF CtrlByte \in {161, 163} THEN "read" ELSE "write",
                  !.ctrl_byte = CtrlByte]

\* The slot of a command that has been opened: its slice starts at payload_used.
Opened ==
    [NoCmd EXCEPT !.kind = IF CtrlByte \in {161, 163} THEN "read" ELSE "write",
                  !.ctrl_byte = CtrlByte,
                  !.payload_off = Len(pool)]

BeginCmd ==
    /\ pc = "chain"
    /\ at_cmd_start(pos)
    /\ \/ Len(cmds) >= MAX_CMDS /\ Fail("too many commands in transaction")
       \/ /\ Len(cmds) < MAX_CMDS
          /\ cmd' = Opened
          /\ pos' = pos + 3
          /\ pc' = "addr"
          /\ UNCHANGED <<input, txn, scratch>>

\* The command is complete: count++.
EndCmd(c, p) ==
    /\ cmds' = Append(cmds, c)
    /\ cmd' = NoCmd
    /\ pos' = p
    /\ pc' = "chain"
    /\ UNCHANGED <<input, pool, error, error_pos, scratch>>

\* Mutant: the internal address may be left out.
AddrSelectorOptional ==
    /\ pc = "addr"
    /\ \/ At(pos) = Underscore /\ Advance("addr")
       \/ /\ At(pos) \in Selector
          /\ fmt' = At(pos)
          /\ acc' = 0
          /\ digits' = 0
          /\ pos' = pos + 1
          /\ pc' = "addrByte"
          /\ UNCHANGED <<input, txn, cmd, got>>
       \/ /\ At(pos) \notin Selector \cup {Underscore}
          /\ AdvanceStay(IF cmd.kind = "read" THEN "tail" ELSE "payload")

AddrSelector ==
    /\ pc = "addr"
    /\ \/ At(pos) = Underscore /\ Advance("addr")
       \/ /\ At(pos) \in Selector
          /\ fmt' = At(pos)
          /\ acc' = 0
          /\ digits' = 0
          /\ pos' = pos + 1
          /\ pc' = "addrByte"
          /\ UNCHANGED <<input, txn, cmd, got>>
       \/ /\ At(pos) \notin Selector \cup {Underscore}
          /\ Fail("expected format selector before internal address")

StoreAddr(b, p) ==
    /\ cmd' = [cmd EXCEPT !.internal_addr = b]
    /\ pos' = p
    /\ pc' = IF cmd.kind = "read" THEN "tail" ELSE "payload"
    /\ UNCHANGED <<input, txn, scratch>>

AddrHex ==
    /\ pc = "addrByte"
    /\ fmt = ch_h
    /\ \/ TwoHexAt(pos) /\ StoreAddr(HexByteAt(pos), pos + 2)
       \/ ~TwoHexAt(pos) /\ Fail("hex byte requires two hex digits")

\* A lone ASCII address byte swallows the '_' that ends it, if there is one.
AddrAscii ==
    /\ pc = "addrByte"
    /\ fmt = ch_a
    /\ \/ /\ is_alnum_lat(At(pos))
          /\ StoreAddr(At(pos), IF At(pos + 1) = Underscore THEN pos + 2 ELSE pos + 1)
       \/ ~is_alnum_lat(At(pos)) /\ Fail("ascii field requires latin letter or digit")

\* One turn of decode_bin_byte's loop.
ShiftBit ==
    /\ digits < BYTE_BITS
    /\ \/ At(pos) = Underscore /\ Advance(pc)
       \/ /\ is_bin(At(pos))
          /\ acc' = (2 * acc + (At(pos) - 48)) % 256
          /\ digits' = digits + 1
          /\ pos' = pos + 1
          /\ UNCHANGED <<input, pc, txn, cmd, fmt, got>>
       \/ /\ At(pos) # Underscore
          /\ ~is_bin(At(pos))
          /\ Fail("binary byte requires eight bits")

AddrBin ==
    /\ pc = "addrByte"
    /\ fmt = ch_b
    /\ \/ ShiftBit
       \/ digits >= BYTE_BITS /\ StoreAddr(acc, pos)

-----------------------------------------------------------------------------
(* parse_write_payload. *)

PayloadHead ==
    /\ pc = "payload"
    /\ \/ (At(pos) = NUL \/ at_cmd_start(pos)) /\ EndCmd(cmd, pos)
       \/ At(pos) = Underscore /\ Advance("payload")
       \/ /\ At(pos) \in Selector
          /\ ~at_cmd_start(pos)
          /\ fmt' = At(pos)
          /\ got' = 0
          /\ pos' = pos + 1
          /\ pc' = "run"
          /\ UNCHANGED <<input, txn, cmd, acc, digits>>
       \/ /\ At(pos) \notin Selector \cup {Underscore, NUL}
          /\ Fail("expected format selector h/b/a or _")

StoreByte(b, p) ==
    /\ pool' = Append(pool, b)
    /\ cmd' = [cmd EXCEPT !.payload_len = @ + 1]
    /\ got' = got + 1
    /\ pos' = p
    /\ pc' = "run"
    /\ UNCHANGED <<input, cmds, error, error_pos, fmt, acc, digits>>

\* push_payload with the cursor already at p; the group's loop goes on.
PushPayload(b, p) ==
    \/ /\ cmd.payload_len >= PAYLOAD_MAX
       /\ FailAt(p, "write payload exceeds 1022 bytes")
    \/ /\ cmd.payload_len < PAYLOAD_MAX
       /\ Len(pool) >= POOL_SIZE
       /\ FailAt(p, "transaction payload pool exhausted")
    \/ /\ cmd.payload_len < PAYLOAD_MAX
       /\ Len(pool) < POOL_SIZE
       /\ StoreByte(b, p)

\* A group ends at p; one without a byte is an error.
EndGroup(p, e) ==
    \/ got = 0 /\ Fail(e)
    \/ /\ got > 0
       /\ pos' = p
       /\ pc' = "payload"
       /\ UNCHANGED <<input, txn, cmd, scratch>>

HexRun ==
    /\ pc = "run"
    /\ fmt = ch_h
    /\ \/ TwoHexAt(pos) /\ PushPayload(HexByteAt(pos), pos + 2)
       \/ /\ is_hex(At(pos))
          /\ ~is_hex(At(pos + 1))
          /\ Fail("hex byte requires two hex digits")
       \/ ~is_hex(At(pos)) /\ EndGroup(pos, "empty hex group")

BinRun ==
    /\ pc = "run"
    /\ fmt = ch_b
    /\ \/ /\ BitAhead
          /\ acc' = 0
          /\ digits' = 0
          /\ pc' = "bits"
          /\ UNCHANGED <<input, pos, txn, cmd, fmt, got>>
       \/ ~BitAhead /\ EndGroup(pos, "empty binary group")

BinByte ==
    /\ pc = "bits"
    /\ \/ ShiftBit
       \/ digits >= BYTE_BITS /\ PushPayload(acc, pos)

\* The run swallows an 'h', so it never stops at a command start.
AsciiRun ==
    /\ pc = "run"
    /\ fmt = ch_a
    /\ \/ is_alnum_lat(At(pos)) /\ PushPayload(At(pos), pos + 1)
       \/ At(pos) = Underscore /\ EndGroup(pos + 1, "empty ascii group")
       \/ At(pos) = NUL /\ EndGroup(pos, "empty ascii group")
       \/ /\ ~is_alnum_lat(At(pos))
          /\ At(pos) \notin {Underscore, NUL}
          /\ Fail(IF got = 0 THEN "empty ascii group" ELSE "ascii run must end with '_'")

-----------------------------------------------------------------------------
(* parse_read_tail. *)

ReadTail ==
    /\ pc = "tail"
    /\ \/ At(pos) = Underscore /\ Advance("tail")
       \/ /\ At(pos) = NUL \/ at_cmd_start(pos)
          /\ EndCmd([cmd EXCEPT !.rd_len = 0, !.rd_fmt = FMT_NONE], pos)
       \/ /\ At(pos) = ch_h
          /\ ~at_cmd_start(pos)
          /\ acc' = 0
          /\ digits' = 0
          /\ pos' = pos + 1
          /\ pc' = "count"
          /\ UNCHANGED <<input, txn, cmd, fmt, got>>
       \/ /\ At(pos) \notin {Underscore, NUL, ch_h}
          /\ Fail("expected 'h<count>' or end of read command")

CountDigitAhead == is_hex(At(pos)) /\ digits < COUNT_DIGITS

CountDigit ==
    /\ acc' = 16 * acc + hex_val(At(pos))
    /\ digits' = digits + 1
    /\ pos' = pos + 1
    /\ UNCHANGED <<input, pc, txn, cmd, fmt, got>>

CountTaken ==
    /\ cmd' = [cmd EXCEPT !.rd_len = acc]
    /\ pc' = "format"
    /\ UNCHANGED <<input, pos, txn, scratch>>

ReadCount ==
    /\ pc = "count"
    /\ \/ CountDigitAhead /\ CountDigit
       \/ ~CountDigitAhead /\ digits = 0 /\ Fail("missing read count digits")
       \/ ~CountDigitAhead /\ digits > 0 /\ acc > RD_COUNT_MAX
             /\ Fail("read count exceeds h3FE")
       \/ ~CountDigitAhead /\ digits > 0 /\ acc <= RD_COUNT_MAX /\ CountTaken

\* Mutant: a counted read needs no format.
ReadFormatOptional ==
    /\ pc = "format"
    /\ cmd' = [cmd EXCEPT !.rd_fmt = IF At(pos) \in Selector THEN At(pos) ELSE FMT_NONE]
    /\ pos' = IF At(pos) \in Selector THEN pos + 1 ELSE pos
    /\ pc' = "close"
    /\ UNCHANGED <<input, txn, scratch>>

ReadFormat ==
    /\ pc = "format"
    /\ \/ /\ At(pos) \in Selector
          /\ cmd' = [cmd EXCEPT !.rd_fmt = At(pos)]
          /\ pos' = pos + 1
          /\ pc' = "close"
          /\ UNCHANGED <<input, txn, scratch>>
       \/ /\ At(pos) \notin Selector
          /\ cmd.rd_len = 0
          /\ cmd' = [cmd EXCEPT !.rd_fmt = FMT_NONE]
          /\ pc' = "close"
          /\ UNCHANGED <<input, pos, txn, scratch>>
       \/ /\ At(pos) \notin Selector
          /\ cmd.rd_len > 0
          /\ Fail("missing display format for read")

ReadClose ==
    /\ pc = "close"
    /\ \/ At(pos) = Underscore /\ EndCmd(cmd, pos + 1)
       \/ At(pos) # Underscore /\ Fail("read command must end with '_'")

-----------------------------------------------------------------------------
(* parse_special. *)

word_out  == <<111, 117, 116, Underscore>>
word_inp  == <<105, 110, 112>>
word_help == <<104, 101, 108, 112>>
word_ask  == <<63>>

SpecialDone(c, p) ==
    /\ cmds' = Append(cmds, c)
    /\ pos' = p
    /\ pc' = "accepted"
    /\ UNCHANGED <<input, cmd, pool, error, error_pos, scratch>>

\* out_ takes exactly eight bits, then blanks; a bad bit is where the error is.
BitsAt(i) == [k \in 0..7 |-> At(i + k) - 48]
ByteOf(b) == 128 * b[0] + 64 * b[1] + 32 * b[2] + 16 * b[3] + 8 * b[4] + 4 * b[5] + 2 * b[6] + b[7]

SpecialOut ==
    /\ pc = "special"
    /\ strprefix(pos, word_out)
    /\ \/ \E i \in 0..7 :
             /\ ~is_bin(At(pos + 4 + i))
             /\ \A k \in 0..(i - 1) : is_bin(At(pos + 4 + k))
             /\ FailAt(pos + 4 + i, "out_ requires 8 binary digits")
       \/ /\ \A k \in 0..7 : is_bin(At(pos + 4 + k))
          /\ \/ /\ ~strtail_empty(pos + 12)
                /\ FailAt(pos + 12, "extra characters after out_xxxxxxxx")
             \/ /\ strtail_empty(pos + 12)
                /\ SpecialDone([NoCmd EXCEPT !.kind = "gpio_out",
                                             !.gpio_byte = ByteOf(BitsAt(pos + 4))],
                               pos + 12)

IsWord(w) == strprefix(pos, w) /\ strtail_empty(pos + Len(w))

SpecialInp ==
    /\ pc = "special"
    /\ IsWord(word_inp)
    /\ SpecialDone([NoCmd EXCEPT !.kind = "gpio_in"], pos + 3)

SpecialHelp ==
    /\ pc = "special"
    /\ \E w \in {word_help, word_ask} :
          /\ IsWord(w)
          /\ SpecialDone([NoCmd EXCEPT !.kind = "help"], pos + Len(w))

SpecialUnknown ==
    /\ pc = "special"
    /\ ~strprefix(pos, word_out)
    /\ \A w \in {word_inp, word_help, word_ask} : ~IsWord(w)
    /\ Fail("unknown command")

-----------------------------------------------------------------------------

\* A step of the call that is running.
Step ==
    \/ SkipBlank \/ Dispatch \/ Chain \/ BeginCmd
    \/ AddrSelector \/ AddrHex \/ AddrAscii \/ AddrBin
    \/ PayloadHead \/ HexRun \/ BinRun \/ BinByte \/ AsciiRun
    \/ ReadTail \/ ReadCount \/ ReadFormat \/ ReadClose
    \/ SpecialOut \/ SpecialInp \/ SpecialHelp \/ SpecialUnknown

Next == Step \/ \E l \in LINES : Parse(l)

Spec == Init /\ [][Next]_vars

-----------------------------------------------------------------------------
(* Properties. *)

Slot == [kind : {"none", "write", "read", "gpio_out", "gpio_in", "help"},
         ctrl_byte : Byte, internal_addr : Byte, rd_len : 0..RD_COUNT_MAX,
         rd_fmt : Selector \cup {FMT_NONE}, payload_off : 0..POOL_SIZE,
         payload_len : 0..PAYLOAD_MAX, gpio_byte : Byte]

Labels == Done \cup {"entry", "chain", "special", "addr", "addrByte", "payload",
                     "run", "bits", "tail", "count", "format", "close"}

\* Types of the parser's state; the cursor stays between the first character
\* and the terminating NUL, so no loop reads past the string.
TypeOK ==
    /\ line \in Seq(1..255)
    /\ base \in 1..(Len(line) + 1)
    /\ pos \in base..(Len(line) + 1)
    /\ pc \in Labels
    /\ cmds \in Seq(Slot) /\ Len(cmds) <= MAX_CMDS
    /\ cmd \in Slot
    /\ pool \in Seq(Byte) /\ Len(pool) <= POOL_SIZE
    /\ error_pos \in 0..Len(line)
    /\ fmt \in Selector \cup {FMT_NONE}
    /\ acc \in Nat
    /\ pc = "bits" \/ (pc = "addrByte" /\ fmt = ch_b) => acc \in Byte
    /\ digits \in 0..BYTE_BITS
    /\ got \in Nat

\* A command is being decoded into the slot after the counted ones.
Decoding == pc \in {"addr", "addrByte", "payload", "run", "bits",
                    "tail", "count", "format", "close"}

SliceEnd(c) == c.payload_off + c.payload_len

\* The payload slices of the commands lie in the shared pool one after the
\* other, without a gap or an overlap, none reaches past what was decoded, and
\* until a rejection no pool byte belongs to no command: what neo_exec.c sends
\* for a command is what that command's own text decoded to.
EndOf(k) == IF k = 0 THEN 0 ELSE SliceEnd(cmds[k])
SlicesTile ==
    /\ \A k \in 1..Len(cmds) : /\ cmds[k].payload_off = EndOf(k - 1)
                               /\ EndOf(k) <= Len(pool)
    /\ Decoding => /\ cmd.payload_off = EndOf(Len(cmds))
                   /\ SliceEnd(cmd) = Len(pool)
    /\ pc # "rejected" /\ ~Decoding => Len(pool) = EndOf(Len(cmds))

\* A pool byte costs at least one character, after the five of the command
\* it belongs to: decoding never gets ahead of the text.
BytesCostText ==
    (\A k \in 1..Len(cmds) : cmds[k].kind \in {"write", "read"}) =>
        5 * Len(cmds) + Len(pool) <= pos - base

\* A rejected line is over, and an accepted one was read to its end (blanks may
\* follow a special command): no tail of a line is silently ignored.
WholeLineParsed ==
    pc = "accepted" =>
        /\ error = "none"
        /\ \A k \in pos..Len(line) : At(k) \in Blank
        /\ cmds[1].kind \in {"write", "read"} => pos = Len(line) + 1

\* What the executor may rely on: the control byte says which way a command goes,
\* a counted read says how to display what it reads, only writes own payload
\* bytes, and a special command stands alone.
CommandsWellFormed ==
    \A k \in 1..Len(cmds) :
        LET c == cmds[k] IN
        /\ c.kind # "none"
        /\ c.kind = "read"  => /\ c.payload_len = 0 /\ c.ctrl_byte \in {161, 163}
                               /\ c.rd_len > 0 => c.rd_fmt # FMT_NONE
        /\ c.kind = "write" => c.rd_len = 0 /\ c.ctrl_byte \in {160, 162}
        /\ c.kind \notin {"read", "write"} => Len(cmds) = 1 /\ pool = <<>>

\* Every call returns: no loop of the parser spins without consuming text.
Terminates == (pc = "entry") ~> (pc \in Done)

-----------------------------------------------------------------------------
(* The inductive invariant behind them. *)

\* What each loop knows about the command it is decoding.
PhaseInv ==
    /\ pc \in {"entry", "special"} => cmds = <<>> /\ pool = <<>>
    /\ pc \notin {"accepted", "rejected"} =>
           \A k \in 1..Len(cmds) : cmds[k].kind \in {"read", "write"}
    /\ Decoding => /\ Len(cmds) < MAX_CMDS
                   /\ cmd.kind \in {"read", "write"}
                   /\ cmd.kind = "read"  => cmd.payload_len = 0 /\ cmd.ctrl_byte \in {161, 163}
                   /\ cmd.kind = "write" => cmd.rd_len = 0 /\ cmd.ctrl_byte \in {160, 162}
    /\ pc \in {"payload", "run", "bits"} => cmd.kind = "write"
    /\ pc \in {"tail", "count", "format", "close"} => cmd.kind = "read"
    /\ pc = "close" => (cmd.rd_len > 0 => cmd.rd_fmt # FMT_NONE)

\* Characters consumed beyond the five per counted command and one per byte.
Floor == CASE pc = "addr" -> 3
           [] pc = "addrByte" -> IF fmt = ch_b THEN 4 + digits ELSE 4
           [] pc \in {"payload", "tail"} -> 5
           [] pc = "bits" -> 6 + digits
           [] pc \in {"run", "count", "format", "close"} -> 6
           [] OTHER -> 0

CostInv ==
    /\ pc # "accepted" => 5 * Len(cmds) + Len(pool) + Floor <= pos - base
    /\ BytesCostText

IInv == TypeOK /\ SlicesTile /\ PhaseInv /\ CostInv /\ CommandsWellFormed

\* An error ends the call, and only the end of the line ends it well.
EndInv == (pc # "rejected" => error = "none") /\ WholeLineParsed

=============================================================================
