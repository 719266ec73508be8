------------------------------ MODULE C99Format ------------------------------
(***************************************************************************)
(* What C99 says a conversion specification is and prints, for the flags   *)
(* '-' and '0', and %b in the manner of %x.  Characters are strings of one *)
(* character.                                                              *)
(***************************************************************************)
EXTENDS Integers, Sequences, FiniteSets, SequencesExt

CONSTANTS INT_BITS, LL_BITS, PTR_DIGITS

Lower == <<"0", "1", "2", "3", "4", "5", "6", "7", "8", "9", "a", "b", "c", "d", "e", "f">>
Upper == <<"0", "1", "2", "3", "4", "5", "6", "7", "8", "9", "A", "B", "C", "D", "E", "F">>
Decimal == {Lower[k] : k \in 1..10}
ValueOf(c) == (CHOOSE k \in 1..10 : Lower[k] = c) - 1
Signed == {"d", "i"}
Base == [d |-> 10, i |-> 10, u |-> 10, o |-> 8, x |-> 16, X |-> 16, b |-> 2]
Numeric == DOMAIN Base

Copies(c, n) == [k \in 1..n |-> c]

-----------------------------------------------------------------------------
(* The grammar: % flags* width? (. precision?)? length? conversion *)

Part(f, a, b) == SubSeq(f, a + 1, b)
Made(s, S) == \A k \in DOMAIN s : s[k] \in S

IsFlags(s)  == Made(s, {"-", "0"})
IsWidth(s)  == s \in {<<>>, <<"*">>} \/ (Made(s, Decimal) /\ s[1] # "0")
IsPrec(s)   == s = <<>> \/ (s[1] = "." /\ (Tail(s) = <<"*">> \/ Made(Tail(s), Decimal)))
IsLength(s) == s \in {<<>>, <<"l">>, <<"l", "l">>}

\* Where the conversion character is: the first that belongs to no other part.
Ends(f) == {k \in 2..Len(f) : f[k] \notin {"-", ".", "*", "l"} \cup Decimal}
End(f) == CHOOSE k \in Ends(f) : \A j \in Ends(f) : k <= j

\* The ends of flags, width, precision and length: there is at most one way.
Cuts(f) == {<<a, b, c>> \in (1..(End(f) - 1)) \X (1..(End(f) - 1)) \X (1..(End(f) - 1)) :
               /\ a <= b /\ b <= c
               /\ IsFlags(Part(f, 1, a)) /\ IsWidth(Part(f, a, b))
               /\ IsPrec(Part(f, b, c)) /\ IsLength(Part(f, c, End(f) - 1))}

Decimals(s) == FoldLeft(LAMBDA v, c : 10 * v + ValueOf(c), 0, s)

\* The specification f begins with, with w and p as the arguments of its stars.
Spec99(f, w, p) ==
    LET t  == CHOOSE c \in Cuts(f) : TRUE
        fl == Part(f, 1, t[1])
        wd == Part(f, t[1], t[2])
        pr == Part(f, t[2], t[3])
        width == IF wd = <<"*">> THEN w ELSE Decimals(wd)
        prec  == IF pr = <<".", "*">> THEN p ELSE Decimals(Tail(pr))
    IN  [left  |-> (\E k \in DOMAIN fl : fl[k] = "-") \/ width < 0,
         zero  |-> \E k \in DOMAIN fl : fl[k] = "0",
         width |-> IF width < 0 THEN -width ELSE width,
         prec  |-> IF pr = <<>> \/ prec < 0 THEN -1 ELSE prec,
         bits  |-> IF End(f) - 1 - t[3] = 2 THEN LL_BITS ELSE INT_BITS,
         conv  |-> f[End(f)]]

\* What C99 leaves undefined: flags and precisions on conversions without them.
Defined(f, w, p) ==
    /\ Ends(f) # {} /\ Cuts(f) # {}
    /\ LET s == Spec99(f, w, p) IN
       CASE s.conv \in Numeric    -> TRUE
         [] s.conv = "s"          -> ~s.zero
         [] s.conv \in {"c", "p"} -> ~s.zero /\ s.prec = -1
         [] s.conv = "%"          -> End(f) = 2
         [] OTHER                 -> FALSE

-----------------------------------------------------------------------------
(* The text. *)

\* As many digits as it takes, each from its place value.
Digits(v, base, ds) ==
    LET n == CHOOSE k \in 1..LL_BITS : v < base^k /\ (k > 1 => base^(k - 1) <= v)
    IN  [k \in 1..n |-> ds[((v \div base^(n - k)) % base) + 1]]

NumberText(s, v) ==
    LET sign   == IF v < 0 THEN <<"-">> ELSE <<>>
        ds     == IF v = 0 /\ s.prec = 0 THEN <<>>
                  ELSE Digits(IF v < 0 THEN -v ELSE v, Base[s.conv], IF s.conv = "X" THEN Upper ELSE Lower)
        number == Copies("0", s.prec - Len(ds)) \o ds
        fill   == s.width - Len(sign \o number)
    IN  CASE s.left                -> sign \o number \o Copies(" ", fill)
          [] s.zero /\ s.prec = -1 /\ ~s.left -> sign \o Copies("0", fill) \o number
          [] OTHER                 -> Copies(" ", fill) \o sign \o number

Justified(s, t) ==
    IF s.left THEN t \o Copies(" ", s.width - Len(t)) ELSE Copies(" ", s.width - Len(t)) \o t

Text(f, w, p, v) ==
    LET s == Spec99(f, w, p) IN
    CASE s.conv \in Numeric -> NumberText(s, v)
      [] s.conv = "s" -> Justified(s, SubSeq(v, 1, IF s.prec = -1 \/ s.prec > Len(v) THEN Len(v) ELSE s.prec))
      [] s.conv = "c" -> Justified(s, <<v>>)
      [] s.conv = "p" -> LET ds == Digits(v, 16, Lower)
                         IN  Justified(s, <<"0", "x">> \o Copies("0", PTR_DIGITS - Len(ds)) \o ds)
      [] s.conv = "%" -> <<"%">>

\* A negative number with more digits asked for than it has.
PaddedNegative(f, w, p, v) ==
    LET s == Spec99(f, w, p) IN
    s.conv \in Signed /\ v < 0 /\ s.prec > Len(Digits(-v, 10, Lower))
=============================================================================
