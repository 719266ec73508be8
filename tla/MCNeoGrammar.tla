---------------------------- MODULE MCNeoGrammar ----------------------------
(* What NeoGrammar's user may type.  Transactions: groups that end where      *)
(* another could begin, ASCII text that looks like a command, counts at both  *)
(* ends of their range.  Other lines: every short arrangement of fragments    *)
(* that a loop or a lookahead of the parser tells apart, special words, and   *)
(* chains that run out of commands, of payload or of the pool.                *)
EXTENDS NeoGrammar

G(f, b) == [fmt |-> f, bytes |-> b]

Groups == {G(ch_h, <<9>>), G(ch_h, <<171, 160>>), G(ch_b, <<161>>), G(ch_b, <<5, 163>>),
           G(ch_a, <<104, 65, 48>>), G(ch_a, <<98>>)}

First == WriteCmds({160}, {104}, Groups, 2)
           \cup ReadCmds({161, 163}, {104, 160}, {0, 1, 16, 1022}, {FMT_NONE, ch_h, ch_b, ch_a})
Second == {c \in WriteCmds({162}, {97}, {G(ch_a, <<48>>), G(ch_h, <<176>>)}, 1)
                   \cup ReadCmds({161}, {48}, {0, 171}, {FMT_NONE, ch_b}) : c.addr_fmt = ch_a /\ ~c.gap}
Meanings == {<<c>> : c \in First \cup Second} \cup {<<c, d>> : c \in First, d \in Second}
MCIntents == {t \in Meanings : /\ \A k \in DOMAIN t : Len(Data(t[k])) <= PAYLOAD_MAX
                               /\ Len(FlattenSeq([k \in DOMAIN t |-> Data(t[k])])) <= POOL_SIZE}

-----------------------------------------------------------------------------
hA0 == <<104, 65, 48>>
hA1 == <<104, 65, 49>>
bits7 == <<48, 49, 48, 49, 48, 49, 48>>

\* h  b  a  _  1  (blank)  00  3F  !  0101010  hA0  hA1  A
Fragments == {<<ch_h>>, <<ch_b>>, <<ch_a>>, <<Underscore>>, <<49>>, <<32>>, <<48, 48>>,
              <<51, 70>>, <<33>>, bits7, hA0, hA1, <<ch_A>>}

Upto(n) == UNION {[1..k -> Fragments] : k \in 0..n}

\* The four characters of an address byte come first, then anything.
TwiLines == {FlattenSeq(<<hA0, <<ch_h, 48, 48>>>> \o f) : f \in Upto(4)}
            \cup {FlattenSeq(<<hA1, <<ch_h, 48, 48>>>> \o f) : f \in Upto(3)}
AnyLines == {FlattenSeq(f) : f \in Upto(3)} \cup {FlattenSeq(<<hA0, <<ch_b>>>> \o f) : f \in Upto(3)}

Bits8 == bits7 \o <<49>>
Words == {word_out, word_inp, word_help, word_ask, SubSeq(word_help, 1, 3)}
SpecialLines == {p \o w \o t : p \in {<<>>, <<32>>, <<32, 9>>}, w \in Words,
                 t \in {<<>>, <<9>>, <<32, 33>>, Bits8, bits7, Bits8 \o <<32>>, Bits8 \o <<49>>}}

\* Up to two bytes more than there is room for, in one command or in two.
Times(n, s) == FlattenSeq([k \in 1..n |-> s])
Payloads == {<<ch_h>> \o Times(n, <<48, 48>>) : n \in 1..(PAYLOAD_MAX + 2)}
            \cup {<<ch_b>> \o Times(n, Bits8) : n \in 1..(PAYLOAD_MAX + 2)}
            \cup {<<ch_a>> \o Times(n, <<90>>) \o <<Underscore>> : n \in 1..(PAYLOAD_MAX + 2)}
Full(p) == hA0 \o <<ch_h, 48, 48>> \o p
FullLines == {Full(p) : p \in Payloads} \cup {Full(p) \o Full(q) : p, q \in Payloads}
             \cup {Times(n, Full(<<>>)) : n \in 1..(MAX_CMDS + 2)}

MCLines == TwiLines \cup AnyLines \cup SpecialLines \cup FullLines
=============================================================================
