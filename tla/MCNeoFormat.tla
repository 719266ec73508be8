---------------------------- MODULE MCNeoFormat ----------------------------
(* Every directive of at most three characters between '%' and the           *)
(* conversion, for one conversion of each kind, longer ones with stars, and  *)
(* a few strings of several directives.                                      *)
EXTENDS NeoFormat

Middles == BoundedSeq({"-", "0", "4", ".", "*", "l"}, 3)
           \cup {<<"-", "0", "4", ".", "2">>, <<"0", "4", ".", "*">>, <<"0", "*", ".", "2">>,
                 <<"-", "*", ".", "*">>, <<"0", "9", "l", "l">>, <<"9", ".", "3", "l", "l">>,
                 <<"h", "h">>, <<"z">>}
Strings == {<<"a">>, <<"%", "d", "b", "%", "x">>, <<"%", "0", "3", "u", "%", "%", "%", "s">>,
            <<"%", "q">>, <<"%", "-">>, <<"%", "i", "%", "o", "%", "X">>}

MCFormats == {<<"%">> \o m \o <<c>> : m \in Middles, c \in {"d", "x", "b", "s", "c", "p", "%"}} \cup Strings

MCStars == {-5, 0, 3}
MCNumbers == {-512, -128, -42, 0, 7, 511}
MCStrings == {<<>>, <<"s", "i", "x">>}
=============================================================================
