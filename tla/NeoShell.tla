------------------------------ MODULE NeoShell -------------------------------
(***************************************************************************)
(* The shell around the parser and the executor: main and its banner,      *)
(* neo_app_run's prompt loop and neo_read_line, on top of the UART, whose  *)
(* two FIFOs move while the firmware polls them.  The parser is a verdict  *)
(* on a line and the executor the text it prints (NeoParser and NeoExec    *)
(* say which); what is printed goes out one character at a time, and the   *)
(* user may press a key between any two of them.                           *)
(***************************************************************************)
EXTENDS Integers, Sequences, SequencesExt

CONSTANTS
    CHARS,      \* the keys the user presses
    ACCEPTED,   \* the lines neo_parse_transaction accepts
    LINE_MAX,   \* NEO_PARSER_LINE_MAX; s_line has one byte more for the NUL
    RX_DEPTH, TX_DEPTH,     \* entries of the UART's FIFOs
    KEYS        \* bound: how many keys are pressed

ASSUME KeysAssumption == CHARS \subseteq 0..255 /\ ACCEPTED \subseteq Seq(1..255) \ {<<>>}
ASSUME DepthAssumption == {LINE_MAX, RX_DEPTH, TX_DEPTH} \subseteq Nat \ {0}
ASSUME BoundAssumption == KEYS \in Nat

VARIABLES
    pc,     \* where main or neo_app_run is; it gets on when pend is printed
    buf,    \* s_line[0 .. n-1]
    pend,   \* characters still to be handed to neorv32_uart0_putc
    rx, tx, \* the UART's FIFOs, oldest first
    screen, \* what the terminal received
    log,    \* history: the lines taken, with what became of each
    keys    \* keys still to be pressed

vars == <<pc, buf, pend, rx, tx, screen, log, keys>>

NUL == 0
BS  == 8
LF  == 10
CR  == 13
DEL == 127

\* neo_uart_putc_be puts a carriage return before a line feed.
NewLine == <<CR, LF>>

\* Texts, one character for what the properties need not tell apart.
Banner == <<66>> \o NewLine
Ready  == NewLine \o <<83>> \o NewLine
Prompt == <<62, 32>>
Answer(verdict) == CASE verdict = "ran"   -> <<82>> \o NewLine
                     [] verdict = "error" -> <<69>> \o NewLine
                     [] OTHER             -> <<>>

-----------------------------------------------------------------------------
(* The terminal and the UART. *)

\* A character that arrives at a full FIFO is lost.
PressKey(c) ==
    /\ keys > 0
    /\ keys' = keys - 1
    /\ rx' = IF Len(rx) < RX_DEPTH THEN Append(rx, c) ELSE rx
    /\ UNCHANGED <<pc, buf, pend, tx, screen, log>>

\* The entry leaves the FIFO when its stop bit is out.
TxDone ==
    /\ tx # <<>>
    /\ screen' = Append(screen, Head(tx))
    /\ tx' = Tail(tx)
    /\ UNCHANGED <<pc, buf, pend, rx, log, keys>>

\* neorv32_uart0_putc waits for a free entry.
Putc ==
    /\ pend # <<>>
    /\ Len(tx) < TX_DEPTH
    /\ tx' = Append(tx, Head(pend))
    /\ pend' = Tail(pend)
    /\ UNCHANGED <<pc, buf, rx, screen, log, keys>>

\* neorv32_uart0_setup disables the UART first, and that empties both FIFOs.
UartInit == rx' = <<>> /\ tx' = <<>>

-----------------------------------------------------------------------------
(* main and neo_app_run. *)

Init ==
    /\ pc = "banner"
    /\ buf = <<>>
    /\ pend = Banner
    /\ rx = <<>>
    /\ tx = <<>>
    /\ screen = <<>>
    /\ log = <<>>
    /\ keys = KEYS

AppRun ==
    /\ pc = "banner"
    /\ pend = <<>>
    /\ UartInit
    /\ pend' = Ready
    /\ pc' = "prompt"
    /\ UNCHANGED <<buf, screen, log, keys>>

ShowPrompt ==
    /\ pc = "prompt"
    /\ pend = <<>>
    /\ pend' = Prompt
    /\ buf' = <<>>
    /\ pc' = "read"
    /\ UNCHANGED <<rx, tx, screen, log, keys>>

\* What the parser sees ends at the first NUL.
CString(s) == SelectInSeq(s, LAMBDA c : c = NUL)
Parsed == IF CString(buf) = 0 THEN buf ELSE SubSeq(buf, 1, CString(buf) - 1)

Verdict == CASE buf = <<>>          -> "empty"
             [] Parsed \in ACCEPTED -> "ran"
             [] OTHER               -> "error"

\* Mutant: an empty line leaves the loop.
LineTakenBreaks ==
    /\ pc = "got"
    /\ pend = <<>>
    /\ pend' = Answer(Verdict)
    /\ log' = Append(log, [text |-> buf, verdict |-> Verdict])
    /\ pc' = IF buf = <<>> THEN "over" ELSE "prompt"
    /\ UNCHANGED <<buf, rx, tx, screen, keys>>

LineTaken ==
    /\ pc = "got"
    /\ pend = <<>>
    /\ pend' = Answer(Verdict)
    /\ log' = Append(log, [text |-> buf, verdict |-> Verdict])
    /\ pc' = "prompt"
    /\ UNCHANGED <<buf, rx, tx, screen, keys>>

-----------------------------------------------------------------------------
(* neo_read_line, echo on. *)

RoomOffByOne == Len(buf) <= LINE_MAX                                \* mutant

Room == Len(buf) < LINE_MAX

\* neo_getc returns c.
Getc(c) ==
    /\ pc = "read"
    /\ pend = <<>>
    /\ Room
    /\ rx # <<>>
    /\ c = Head(rx)
    /\ rx' = Tail(rx)
    /\ UNCHANGED <<tx, screen, log, keys>>

EndOfLine ==
    /\ \E c \in {CR, LF} : Getc(c)
    /\ pend' = NewLine
    /\ pc' = "got"
    /\ UNCHANGED buf

\* Mutant: the terminal is told to go back even when there is nothing to erase.
EraseAlways ==
    /\ \E c \in {BS, DEL} : Getc(c)
    /\ buf' = IF buf = <<>> THEN <<>> ELSE Front(buf)
    /\ pend' = <<BS, 32, BS>>
    /\ UNCHANGED pc

Erase ==
    /\ \E c \in {BS, DEL} : Getc(c)
    /\ buf' = IF buf = <<>> THEN <<>> ELSE Front(buf)
    /\ pend' = IF buf = <<>> THEN <<>> ELSE <<BS, 32, BS>>
    /\ UNCHANGED pc

Store ==
    \E c \in CHARS \ {CR, LF, BS, DEL} :
        /\ Getc(c)
        /\ buf' = Append(buf, c)
        /\ pend' = <<c>>
        /\ UNCHANGED pc

\* The loop ends without another character when the buffer is full.
Full ==
    /\ pc = "read"
    /\ pend = <<>>
    /\ ~Room
    /\ pc' = "got"
    /\ UNCHANGED <<buf, pend, rx, tx, screen, log, keys>>

-----------------------------------------------------------------------------

Firmware == Putc \/ AppRun \/ ShowPrompt \/ LineTaken \/ EndOfLine \/ Erase \/ Store \/ Full

Next == Firmware \/ TxDone \/ \E c \in CHARS : PressKey(c)

Spec == Init /\ [][Next]_vars

\* The CPU runs and the UART shifts; nobody has to press a key.
FairSpec == Spec /\ WF_vars(Firmware) /\ WF_vars(TxDone)

-----------------------------------------------------------------------------
(* Properties. *)

\* The line fits s_line with its NUL, and the FIFOs hold what they can.
TypeOK ==
    /\ pc \in {"banner", "prompt", "read", "got"}
    /\ buf \in Seq(CHARS) /\ Len(buf) <= LINE_MAX
    /\ rx \in Seq(CHARS) /\ Len(rx) <= RX_DEPTH
    /\ Len(tx) <= TX_DEPTH
    /\ keys \in 0..KEYS

\* A terminal: rows of characters and the cursor's column in the last one.
Blanks(n) == [k \in 1..n |-> 32]
Written(row, col, c) ==
    LET r == row \o Blanks(col + 1 - Len(row)) IN [r EXCEPT ![col + 1] = c]
Display(t, c) ==
    CASE c = BS -> [t EXCEPT !.col = IF @ = 0 THEN 0 ELSE @ - 1]
      [] c = CR -> [t EXCEPT !.col = 0]
      [] c = LF -> [t EXCEPT !.rows = Append(@, <<>>)]
      [] OTHER  -> [rows |-> [t.rows EXCEPT ![Len(t.rows)] = Written(@, t.col, c)],
                    col  |-> t.col + 1]
Trimmed(row) == LET n == SelectLastInSeq(row, LAMBDA c : c # 32) IN SubSeq(row, 1, n)
Blank == [rows |-> <<<<>>>>, col |-> 0]
Terminal(s) == FoldLeft(Display, Blank, s)
Rows(s) == LET r == Terminal(s).rows IN [k \in 1..Len(r) |-> Trimmed(r[k])]

\* All that is printed and not lost; the rows from the first prompt on.
Shown == screen \o tx \o pend
Session == LET r == Rows(Shown) IN
           SubSeq(r, SelectInSeq(r, LAMBDA row : row = <<83>>) + 1, Len(r))

\* What a transcript of the session should look like, had nobody pressed
\* backspace: prompt, line, answer.  Documents and code differ on two things, which
\* are left open: whether a line is echoed, and whether a full one is broken before
\* its answer.
Ways == [echo : BOOLEAN, breaks : BOOLEAN]
Echo(way, text) == IF way.echo THEN text ELSE <<>>
End(way, text) == IF ~way.echo \/ (Len(text) = LINE_MAX /\ ~way.breaks) THEN <<>> ELSE NewLine
Entered(way, text) == Prompt \o Echo(way, text) \o End(way, text)
Past(way) == FlattenSeq([k \in 1..Len(log) |-> Entered(way, log[k].text) \o Answer(log[k].verdict)])
Transcript(way) ==
    Past(way) \o CASE pc = "read" -> Prompt \o Echo(way, buf)
                   [] pc = "got"  -> Entered(way, buf)
                   [] OTHER       -> <<>>

\* The screen never tells anything but what the shell took: line after line it shows
\* either none of the characters typed or the very characters that were parsed,
\* erased ones gone, and the answer to that line, whenever keys are pressed and however
\* slowly the UART shifts.  neo_uart.h:29-30 says that typed characters are not
\* echoed, neo_io.h:57 that they may be; which keys become one line is not said here.
ScreenTellsTheTruth == pc # "banner" => \E way \in Ways : Session = Rows(Transcript(way))

-----------------------------------------------------------------------------
(* The inductive invariant behind TypeOK and ScreenTellsTheTruth. *)

Char == 0..255
Typed == CHARS \ {CR, LF, BS, DEL}

TypeInv ==
    /\ TypeOK
    /\ buf \in Seq(Typed)
    /\ {screen, tx, pend} \subseteq Seq(Char)
    /\ log \in Seq([text : Seq(Typed), verdict : {"empty", "ran", "error"}])

\* Until the second set-up of the UART, the banner is on its way.
BannerInv == pc = "banner" => Shown = Banner /\ log = <<>>

\* Two rows a reader cannot tell apart: blanks behind the last character do not show.
Shows(row, k) == IF k <= Len(row) THEN row[k] ELSE 32
SameRow(r, q) == \A k \in 1..(Len(r) + Len(q)) : Shows(r, k) = Shows(q, k)

\* Terminal v is u below its first n rows.
Matches(v, u, n) ==
    /\ Len(v.rows) = n + Len(u.rows)
    /\ v.col = u.col
    /\ \A k \in 1..Len(u.rows) : SameRow(v.rows[n + k], u.rows[k])

\* The first n rows are what is left of the banner, and then the greeting.
Heading(v, n) ==
    /\ n < Len(v.rows)
    /\ v.rows[n] = <<83>>
    /\ \A k \in 1..(n - 1) : v.rows[k] \in {<<>>, <<66>>}

\* The cursor is in front of an empty row.
Fresh(t) == t.col = 0 /\ Last(t.rows) = <<>>

\* neo_uart_read_line passes echo = 1, and a full line ends without CR or LF.
AsCoded == [echo |-> TRUE, breaks |-> FALSE]

ScreenInv ==
    /\ Fresh(Terminal(Past(AsCoded)))
    /\ pc # "banner" => \E n \in {2, 3} : /\ Heading(Terminal(Shown), n)
                                          /\ Matches(Terminal(Shown), Terminal(Transcript(AsCoded)), n)

IInv == TypeInv /\ BannerInv /\ ScreenInv

\* Every line that is taken is answered and the prompt comes back.
Answered == (pc = "got") ~> (pc = "read" /\ pend = <<>>)
=============================================================================
