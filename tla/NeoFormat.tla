------------------------------ MODULE NeoFormat ------------------------------
(***************************************************************************)
(* The printf family of src/neo_io.c: format_core reads a format string    *)
(* and sends characters to a sink, the backend or a buffer.  A step is one *)
(* plain character or one conversion.                                      *)
(***************************************************************************)
EXTENDS Integers, Sequences, FiniteSets, SequencesExt, FiniteSetsExt

CONSTANTS
    FORMATS,        \* format strings, as sequences of one-character strings
    CAPS,           \* buffer sizes for neo_vsnprintf
    STARS,          \* arguments of '*'
    NUMBERS,        \* integers passed, of long long
    STRINGS,        \* strings passed
    INT_BITS,       \* width of int and long (32 in the code)
    LL_BITS,        \* width of long long and of the arithmetic (64)
    PTR_DIGITS      \* hex digits of a pointer (8)

C99 == INSTANCE C99Format

ASSUME SizesAssumption == 0 < INT_BITS /\ INT_BITS <= LL_BITS /\ PTR_DIGITS > 0

ASSUME ArgsAssumption ==
    /\ STARS \subseteq Int /\ CAPS \subseteq Nat
    /\ NUMBERS \subseteq (-(2^(LL_BITS - 1)))..(2^(LL_BITS - 1) - 1)

VARIABLES
    at,         \* "format" or "done"
    fmt,        \* what is left of the format string
    cap,        \* the buffer's size, or Backend
    produced,   \* s->produced
    text,       \* what the backend got, or the buffer holds
    ended,      \* where neo_vsnprintf has put the NUL
    c99         \* the same call by C99: text, format left, everything defined,
                \* no negative number with a precision

vars == <<at, fmt, cap, produced, text, ended, c99>>

Backend == -1

Copies(c, n) == [k \in 1..n |-> c]
AtLeast0(n) == IF n > 0 THEN n ELSE 0
From(f, k) == SubSeq(f, k, Len(f))
First(f) == IF f = <<>> THEN "" ELSE f[1]

\* How many characters at the start of f are in S.
Run(f, S) == CHOOSE n \in 0..Len(f) : /\ \A k \in 1..n : f[k] \in S
                                      /\ n < Len(f) => f[n + 1] \notin S

-----------------------------------------------------------------------------
(* Digits and padding. *)

digits == <<"0", "1", "2", "3", "4", "5", "6", "7", "8", "9", "a", "b", "c", "d", "e", "f">>
DIGITS == <<"0", "1", "2", "3", "4", "5", "6", "7", "8", "9", "A", "B", "C", "D", "E", "F">>
Decimal == {digits[k] : k \in 1..10}
DigitValue(c) == (CHOOSE k \in 1..10 : digits[k] = c) - 1

parse_uint(f) == FoldLeft(LAMBDA v, c : 10 * v + DigitValue(c), 0, SubSeq(f, 1, Run(f, Decimal)))

\* Digit by digit from the lowest, then reversed; zero is one digit.
u64_to_str(v, base, ds) ==
    LET tmp[u \in 0..v] == IF u = 0 THEN <<>> ELSE <<ds[(u % base) + 1]>> \o tmp[u \div base]
    IN  IF v = 0 THEN <<"0">> ELSE Reverse(tmp[v])

emit_padded(body, d, prec_digits) ==
    LET pad_zero  == AtLeast0(prec_digits - Len(body))
        pad       == AtLeast0(d.width - Len(body) - pad_zero)
        zeros     == d.zero /\ ~d.left /\ prec_digits < 0
    IN  (IF d.left THEN <<>> ELSE Copies(IF zeros THEN "0" ELSE " ", pad))
        \o Copies("0", pad_zero) \o body
        \o (IF d.left THEN Copies(" ", pad) ELSE <<>>)

-----------------------------------------------------------------------------
(* A conversion: what format_core reads after '%'. *)

\* w and p are the arguments of the stars.
Directive(f, w, p) ==
    LET fl == SubSeq(f, 1, Run(f, {"-", "0"}))
        f1 == From(f, Len(fl) + 1)
        width == IF First(f1) = "*" THEN w ELSE parse_uint(f1)
        f2 == From(f1, IF First(f1) = "*" THEN 2 ELSE Run(f1, Decimal) + 1)
        f3 == From(f2, IF First(f2) = "." THEN 2 ELSE 1)
        prec == IF First(f2) # "." THEN -1
                ELSE IF First(f3) = "*" THEN (IF p < 0 THEN -1 ELSE p) ELSE parse_uint(f3)
        f4 == From(f3, IF First(f2) # "." THEN 1
                       ELSE IF First(f3) = "*" THEN 2 ELSE Run(f3, Decimal) + 1)
        len == CASE First(f4) = "l" -> SubSeq(f4, 1, IF First(From(f4, 2)) = "l" THEN 2 ELSE 1)
                 [] First(f4) = "h" -> SubSeq(f4, 1, IF First(From(f4, 2)) = "h" THEN 2 ELSE 1)
                 [] First(f4) = "z" -> <<"z">>
                 [] OTHER           -> <<>>
        f5 == From(f4, Len(len) + 1)
    IN  [left  |-> (\E k \in DOMAIN fl : fl[k] = "-") \/ width < 0,
         zero  |-> \E k \in DOMAIN fl : fl[k] = "0",
         width |-> IF width < 0 THEN -width ELSE width,
         prec  |-> prec,
         bits  |-> IF len = <<"l", "l">> THEN LL_BITS ELSE INT_BITS,
         spec  |-> First(f5),
         rest  |-> From(f5, 2)]

Numeric == {"d", "i", "u", "o", "x", "X", "b"}
Signed  == {"d", "i"}
Base(spec) == CASE spec \in {"d", "i", "u"} -> 10 [] spec = "o" -> 8 [] spec \in {"x", "X"} -> 16 [] spec = "b" -> 2

\* Arguments of the type the conversion takes.
Arguments(d) ==
    CASE d.spec \in Signed -> {v \in NUMBERS : v \in (-(2^(d.bits - 1)))..(2^(d.bits - 1) - 1)}
      [] d.spec \in (Numeric \cup {"p"}) \ Signed -> {v % 2^d.bits : v \in NUMBERS}
      [] d.spec = "s" -> STRINGS
      [] d.spec = "c" -> {"c"}
      [] OTHER -> {0}

\* Mutant: negated in the width it has, where the lowest number has no opposite.
MagnitudeWraps(v) == IF v = -(2^(INT_BITS - 1)) THEN 0 ELSE IF v < 0 THEN -v ELSE v

\* Written to avoid the overflow of -v.
Magnitude(v) == IF v < 0 THEN -(v + 1) + 1 ELSE v

\* The integer path: numbuf2, with the zeros that go between a sign and its
\* digits when the '0' flag fills the width.
Number(d, v) ==
    LET uv   == Magnitude(v)
        num  == IF d.prec = 0 /\ uv = 0 THEN <<>>
                ELSE u64_to_str(uv, Base(d.spec), IF d.spec = "X" THEN DIGITS ELSE digits)
        sign == IF v < 0 THEN <<"-">> ELSE <<>>
        fill == v < 0 /\ d.zero /\ ~d.left /\ d.prec < 0 /\ d.width > Len(sign \o num)
    IN  IF fill THEN sign \o Copies("0", d.width - Len(sign \o num)) \o num
        ELSE emit_padded(sign \o num, d, d.prec)

Pointer(d, v) ==
    LET ds == u64_to_str(v, 16, digits)
    IN  emit_padded(<<"0", "x">> \o Copies("0", PTR_DIGITS - Len(ds)) \o ds, d, -1)

Shown(d, v) == IF d.prec < 0 \/ d.prec > Len(v) THEN Len(v) ELSE d.prec

Converted(d, v) ==
    CASE d.spec \in Numeric -> Number(d, v)
      [] d.spec = "p" -> Pointer(d, v)
      [] d.spec = "s" -> emit_padded(SubSeq(v, 1, Shown(d, v)), d, -1)
      [] d.spec = "c" -> emit_padded(<<v>>, d, -1)
      [] d.spec = "%" -> <<"%">>
      [] OTHER        -> <<"%">> \o (IF d.spec = "" THEN <<>> ELSE <<d.spec>>)

-----------------------------------------------------------------------------
(* The sinks and format_core. *)

RoomWithoutNul == cap - Len(text)                                   \* mutant

\* emit_buf keeps the last byte for the NUL.
Room == cap - 1 - Len(text)

Emit(t) ==
    /\ produced' = produced + Len(t)
    /\ text' = text \o (IF cap = Backend THEN t ELSE SubSeq(t, 1, IF Room < Len(t) THEN Room ELSE Len(t)))

Init ==
    /\ at = "format"
    /\ fmt \in FORMATS
    /\ cap \in CAPS \cup {Backend}
    /\ produced = 0
    /\ text = <<>>
    /\ ended = -1
    /\ c99 = [text |-> <<>>, rest |-> fmt, defined |-> TRUE, plain |-> TRUE]

Literal ==
    /\ at = "format"
    /\ First(fmt) \notin {"", "%"}
    /\ Emit(<<First(fmt)>>)
    /\ fmt' = Tail(fmt)
    /\ c99' = [c99 EXCEPT !.text = @ \o <<First(fmt)>>, !.rest = Tail(@)]
    /\ UNCHANGED <<at, cap, ended>>

\* The same conversion by C99, as far as it is defined.
Reference(w, p, v) ==
    LET f == c99.rest IN
    IF c99.defined /\ C99!Defined(f, w, p)
    THEN [c99 EXCEPT !.text = @ \o C99!Text(f, w, p, v), !.rest = From(f, C99!End(f) + 1),
                     !.plain = @ /\ ~C99!PaddedNegative(f, w, p, v)]
    ELSE [c99 EXCEPT !.defined = FALSE]

\* What a star may take, where there is one.
Stars == IF \E k \in DOMAIN fmt : fmt[k] = "*" THEN STARS ELSE {0}

Conversion ==
    /\ at = "format"
    /\ First(fmt) = "%"
    /\ \E w, p \in Stars :
          LET d == Directive(Tail(fmt), w, p) IN
          \E v \in Arguments(d) :
             /\ Emit(Converted(d, v))
             /\ fmt' = d.rest
             /\ c99' = Reference(w, p, v)
    /\ UNCHANGED <<at, cap, ended>>

\* The end of neo_vsnprintf; a backend gets no NUL.
Return ==
    /\ at = "format"
    /\ fmt = <<>>
    /\ ended' = IF cap <= 0 THEN -1 ELSE IF Len(text) < cap THEN Len(text) ELSE cap - 1
    /\ at' = "done"
    /\ UNCHANGED <<fmt, cap, produced, text, c99>>

Next == Literal \/ Conversion \/ Return

Spec == Init /\ [][Next]_vars

-----------------------------------------------------------------------------
(* Properties. *)

\* Where C99 says what a call prints, the backend gets that, a negative number
\* with a precision larger than its digits aside.
PrintsC99 ==
    at = "done" /\ cap = Backend /\ c99.defined /\ c99.plain => text = c99.text /\ produced = Len(text)

\* A buffer holds as much of it as fits in front of the NUL; the result counts
\* all of it, and a buffer of no bytes is not touched.
TruncatesC99 ==
    at = "done" /\ cap # Backend /\ c99.defined /\ c99.plain =>
        /\ produced = Len(c99.text)
        /\ text = SubSeq(c99.text, 1, AtLeast0(IF cap - 1 < produced THEN cap - 1 ELSE produced))
        /\ ended = IF cap = 0 THEN -1 ELSE Len(text)
=============================================================================
