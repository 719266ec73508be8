----------------------------- MODULE NeoGrammar -----------------------------
(***************************************************************************)
(* The transaction grammar of README.md section 2, as what a user means    *)
(* and how he spells it.  A behaviour picks a transaction, writes it down  *)
(* by the README's rules and hands the text to NeoParser, or hands it any  *)
(* other line.                                                             *)
(***************************************************************************)
EXTENDS NeoParser, SequencesExt

CONSTANTS
    INTENTS     \* transactions a user may mean: chains of TWI commands

\* A group of payload bytes, and a command with the spelling chosen for it.
Group == [fmt : Selector, bytes : Seq(Byte)]
Meaning == [kind : {"write", "read"}, ctrl_byte : 160..163, addr_fmt : Selector,
            internal_addr : Byte, gap : BOOLEAN, counted : BOOLEAN, rd_len : 0..RD_COUNT_MAX,
            rd_fmt : Selector \cup {FMT_NONE}, groups : Seq(Group)]

VARIABLE intent     \* the commands meant

gvars == <<vars, intent>>

-----------------------------------------------------------------------------
(* Spelling (README.md section 2.1 and 2.2). *)

HexDigit(d) == IF d < 10 THEN 48 + d ELSE 55 + d
Hex2(b) == <<HexDigit(b \div 16), HexDigit(b % 16)>>
Bit(b, w) == 48 + ((b \div w) % 2)

\* Separators are optional; `gap` puts one wherever the README allows it.
Gap(gap) == IF gap THEN <<Underscore>> ELSE <<>>

Bin8(b, gap) ==
    <<Bit(b, 128), Bit(b, 64), Bit(b, 32)>> \o Gap(gap) \o
    <<Bit(b, 16), Bit(b, 8), Bit(b, 4), Bit(b, 2)>> \o Gap(gap) \o <<Bit(b, 1)>>

SpellByte(f, b, gap) ==
    CASE f = ch_h -> Hex2(b)
      [] f = ch_b -> Bin8(b, gap)
      [] f = ch_a -> <<b>>

Spell(f, bytes, gap) ==
    <<f>> \o FlattenSeq([k \in DOMAIN bytes |-> SpellByte(f, bytes[k], gap)])
          \o (IF f = ch_a THEN <<Underscore>> ELSE <<>>)

Digits(n) ==
    IF n < 16 THEN <<HexDigit(n)>>
    ELSE IF n < 256 THEN Hex2(n)
    ELSE <<HexDigit(n \div 256)>> \o Hex2(n % 256)

\* A read that names no count is closed by the '_' alone.
SpellRead(c) ==
    IF ~c.counted THEN <<Underscore>>
    ELSE <<ch_h>> \o Digits(c.rd_len)
         \o (IF c.rd_fmt = FMT_NONE THEN <<>> ELSE <<c.rd_fmt>>) \o <<Underscore>>

SpellCmd(c) ==
    <<ch_h>> \o Hex2(c.ctrl_byte) \o Gap(c.gap)
    \o Spell(c.addr_fmt, <<c.internal_addr>>, c.gap) \o Gap(c.gap)
    \o (IF c.kind = "read" THEN SpellRead(c)
        ELSE FlattenSeq([k \in DOMAIN c.groups |->
                           Spell(c.groups[k].fmt, c.groups[k].bytes, c.gap) \o Gap(c.gap)]))

SpellTxn(t) == FlattenSeq([k \in DOMAIN t |-> SpellCmd(t[k])])

-----------------------------------------------------------------------------
(* What can be spelled: the rules of README.md 2.1 and 2.2, and the limits. *)

\* "A byte A0..A3 inside a command must be in binary or ASCII": the rule for what
\* follows an 'h', where it would be read as the start of a command.
Spellable(c) ==
    /\ \A k \in DOMAIN c.groups :
          c.groups[k].fmt = ch_h => c.groups[k].bytes[1] \notin 160..163
    /\ c.counted => c.rd_len \notin 160..163

\* The bytes a command writes.
Data(c) == FlattenSeq([k \in DOMAIN c.groups |-> c.groups[k].bytes])

\* The control byte says which way a command goes.  What is spelled in ASCII is a
\* letter or a digit, no group is empty, and the format of a read may be left out
\* for zero bytes only.
Grammatical(c) ==
    /\ c.kind = IF c.ctrl_byte \in {161, 163} THEN "read" ELSE "write"
    /\ c.addr_fmt = ch_a => is_alnum_lat(c.internal_addr)
    /\ \A k \in DOMAIN c.groups :
          /\ c.groups[k].bytes # <<>>
          /\ c.groups[k].fmt = ch_a =>
                \A i \in DOMAIN c.groups[k].bytes : is_alnum_lat(c.groups[k].bytes[i])
    /\ Spellable(c)
    /\ IF c.kind = "write" THEN c.rd_len = 0 /\ c.rd_fmt = FMT_NONE ELSE c.groups = <<>>
    /\ IF c.counted THEN c.rd_len > 0 => c.rd_fmt # FMT_NONE
       ELSE c.rd_len = 0 /\ c.rd_fmt = FMT_NONE

ASSUME CommandsAssumption ==
    \A t \in INTENTS : t \in Seq(Meaning) /\ t # <<>> /\ \A k \in DOMAIN t : Grammatical(t[k])

\* What is meant has room in the transaction it is decoded into.
ASSUME RoomAssumption ==
    \A t \in INTENTS :
        /\ Len(t) <= MAX_CMDS
        /\ \A k \in DOMAIN t : Len(Data(t[k])) <= PAYLOAD_MAX
        /\ Len(FlattenSeq([k \in DOMAIN t |-> Data(t[k])])) <= POOL_SIZE

\* Commands to choose intents from.
WriteCmds(ctrls, addrs, groups, n) ==
    {c \in [kind : {"write"}, ctrl_byte : ctrls, addr_fmt : Selector, internal_addr : addrs,
            gap : BOOLEAN, counted : {FALSE}, rd_len : {0}, rd_fmt : {FMT_NONE},
            groups : UNION {[1..k -> groups] : k \in 0..n}] : Grammatical(c)}

ReadCmds(ctrls, addrs, counts, fmts) ==
    {c \in [kind : {"read"}, ctrl_byte : ctrls, addr_fmt : Selector, internal_addr : addrs,
            gap : BOOLEAN, counted : BOOLEAN, rd_len : counts, rd_fmt : fmts,
            groups : {<<>>}] : Grammatical(c)}

GInit == Init /\ intent = <<>>

\* One call per behaviour, NeoRepl makes one after another.
SpellOut == pc = "idle" /\ \E t \in INTENTS : Parse(SpellTxn(t)) /\ intent' = t

\* Any other line: it is not known to mean anything.
Scribble == pc = "idle" /\ \E l \in LINES : Parse(l) /\ UNCHANGED intent

ParseOn == Step /\ UNCHANGED intent

GNext == ParseOn \/ SpellOut \/ Scribble

\* Nothing interrupts the CPU for ever.
GSpec == GInit /\ [][GNext]_gvars /\ WF_gvars(ParseOn)

-----------------------------------------------------------------------------
(* Properties. *)

Meant(c) == [kind |-> c.kind, ctrl_byte |-> c.ctrl_byte, internal_addr |-> c.internal_addr,
             rd_len |-> c.rd_len, rd_fmt |-> c.rd_fmt,
             bytes |-> Data(c)]

Decoded(c) == [kind |-> c.kind, ctrl_byte |-> c.ctrl_byte, internal_addr |-> c.internal_addr,
               rd_len |-> c.rd_len, rd_fmt |-> c.rd_fmt,
               bytes |-> SubSeq(pool, c.payload_off + 1, SliceEnd(c))]

\* Every transaction spelled by the README's rules is accepted, and decodes to
\* what was meant: command boundaries, slices of the pool, counts and formats.
RoundTrip ==
    intent # <<>> =>
    /\ pc # "rejected"
    /\ pc = "accepted" =>
         [k \in DOMAIN intent |-> Meant(intent[k])] = [k \in DOMAIN cmds |-> Decoded(cmds[k])]

=============================================================================
