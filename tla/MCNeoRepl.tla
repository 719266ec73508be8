------------------------------ MODULE MCNeoRepl ------------------------------
(* Commands and other lines for NeoRepl: chains whose payloads share the pool, *)
(* lines that fail after decoding a part, and lines of special commands.       *)
EXTENDS NeoRepl

G(f, b) == [fmt |-> f, bytes |-> b]

First == {c \in WriteCmds({160}, {104}, {G(ch_h, <<171, 160>>), G(ch_b, <<161>>)}, 2)
                  \cup ReadCmds({163}, {160}, {0, 2}, {FMT_NONE, ch_a}) :
              c.addr_fmt = ch_b /\ c.gap}
Second == {c \in WriteCmds({162}, {97}, {G(ch_a, <<48>>)}, 1)
                   \cup ReadCmds({161}, {48}, {1}, {ch_h}) : c.addr_fmt = ch_a /\ ~c.gap}
MCIntents == {<<c>> : c \in First} \cup {<<c, d>> : c \in First, d \in Second}

hA0 == <<104, 65, 48>>
Write(n) == hA0 \o <<ch_a, 90, Underscore, ch_h>> \o FlattenSeq([k \in 1..n |-> <<70, 48 + k>>])
MCOther == {<<>>, <<33>>, Write(0), Write(2) \o <<33>>, Write(1) \o Write(1) \o Write(1),
            Write(7), Write(4) \o Write(5), <<104, 65, 49, 104, 48, 48, ch_h, 50, Underscore>>,
            <<32>> \o word_inp, word_ask, word_out \o <<49>>}
=============================================================================
