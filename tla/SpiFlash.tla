------------------------------ MODULE SpiFlash -------------------------------
(***************************************************************************)
(* The driver of src/spi_flash.c and the flash it drives.  A step of the   *)
(* driver is one frame (chip select low, command, address and data, chip   *)
(* select high); the flash programs and erases on its own time, and while  *)
(* it does it heeds no frame but a status read.  A byte is the set of its  *)
(* cleared bits: {} is an erased byte, and programming can only add to it. *)
(***************************************************************************)
EXTENDS Integers, Sequences, FiniteSetsExt

CONSTANTS
    PAGE, SECTOR,   \* SPI_FLASH_PAGE_SIZE, SPI_FLASH_SECTOR_SIZE
    HUGE_MAX,       \* SPI_FLASH_BLOCK_SIZE * 10
    SIZE,           \* bytes of the flash
    BITS,           \* bits of a byte
    JOBS,           \* calls: [op, addr, length, data]
    CALLS, RESETS   \* bounds: how many calls are made, how often the CPU restarts

WORD == 4

Reads  == {"read_byte", "read_page"}
Writes == {"write_byte", "write_word", "write_page"}
Fixed  == [read_byte |-> 1, write_byte |-> 1, write_word |-> WORD]

ASSUME GeometryAssumption ==
    /\ {PAGE, SECTOR, HUGE_MAX, SIZE} \subseteq Nat \ {0}
    /\ SECTOR % PAGE = 0 /\ SIZE % SECTOR = 0 /\ WORD <= PAGE
    /\ CALLS \in Nat /\ RESETS \in Nat

\* A caller's buffer holds what the driver reads from it: whole pages for the
\* huge write, which hands PAGE bytes on whatever the length is.
ASSUME JobsAssumption ==
    \A c \in JOBS :
        /\ c \in [op : {"check", "write_huge", "erase_sector"} \cup Reads \cup Writes,
                  addr : 0..(SIZE - 1), length : Nat, data : Seq(SUBSET BITS)]
        /\ c.op \in DOMAIN Fixed => c.length = Fixed[c.op]
        /\ c.op \in Writes => Len(c.data) >= c.length
        /\ c.op = "write_huge" => Len(c.data) >= PAGE

VARIABLES
    job,        \* the call being made, or made last
    at,         \* what the driver does next
    cmd,        \* the frame that follows the write enable
    adr,        \* addr of neo_spi_flash_write_huge
    j,          \* its counter
    erased,     \* its addressErasePrev
    result,     \* bytes read
    status,     \* what neo_spi_flash_check returned last: 0 or -1
    mem,        \* the flash array
    wel,        \* write enable latch of the status register
    work,       \* the program or erase in progress: BUSY of the status register
    before,     \* history: the array when the call was made
    known,      \* history: no restart since the flash was last known to be ready
    calls, resets   \* calls still to be made, restarts still to come

driver == <<job, at, cmd, adr, j, erased, result, status>>
flash  == <<mem, wel, work>>
book   == <<before, known, calls, resets>>
vars   == <<driver, flash, book>>

Address == 0..(SIZE - 1)
None == [op |-> "none", addr |-> 0, data |-> <<>>]
busy == work # None

PageOf(a)   == {x \in Address : x \div PAGE = a \div PAGE}
SectorOf(a) == {x \in Address : x \div SECTOR = a \div SECTOR}
NotCut(n, m) == n                                                   \* mutant
AtMost(n, m) == IF n > m THEN m ELSE n

-----------------------------------------------------------------------------
(* The flash. *)

\* Within a page the address wraps.
InPage(a, k) == PAGE * (a \div PAGE) + ((a + k) % PAGE)

Worked(w, m) ==
    CASE w.op = "erase" -> [x \in Address |-> IF x \in SectorOf(w.addr) THEN {} ELSE m[x]]
      [] w.op = "program" ->
           [x \in Address |->
               m[x] \cup UNION {w.data[k] : k \in {i \in 1..Len(w.data) : InPage(w.addr, i - 1) = x}}]

FlashDone ==
    /\ busy
    /\ mem' = Worked(work, mem)
    /\ work' = None
    /\ wel' = FALSE
    /\ UNCHANGED <<driver, book>>

WriteLatch(v) == wel' = (IF busy THEN wel ELSE v) /\ UNCHANGED <<mem, work>>

\* A frame that needs the latch, or finds the flash busy, is lost without it.
Start(w) == work' = (IF wel /\ ~busy THEN w ELSE work) /\ UNCHANGED <<mem, wel>>

-----------------------------------------------------------------------------
(* Calls. *)

NoCall == [op |-> "check", addr |-> 0, length |-> 0, data |-> <<>>]

Init ==
    /\ job = NoCall
    /\ at = "idle"
    /\ cmd = None
    /\ adr = 0
    /\ j = 0
    /\ erased = 0
    /\ result = <<>>
    /\ status = -1
    /\ mem \in {[x \in Address |-> b] : b \in {{}, BITS}}
    /\ wel = FALSE
    /\ work = None
    /\ before = mem
    /\ known = TRUE
    /\ calls = CALLS
    /\ resets = RESETS

\* The array is smaller than three address bytes and repeats in their range.
Program(a, d) == [op |-> "program", addr |-> a % SIZE, data |-> d]
Erase(a) == [op |-> "erase", addr |-> a % SIZE, data |-> <<>>]

Called(c) ==
    /\ at = "idle"
    /\ calls > 0
    /\ calls' = calls - 1
    /\ before' = mem
    /\ job' = c
    /\ UNCHANGED <<flash, known, resets>>

CallCheck(c) ==
    /\ c.op = "check"
    /\ Called(c)
    /\ at' = "set"
    /\ UNCHANGED <<cmd, adr, j, erased, result, status>>

\* Reads go on past the page; longer ones are cut to a page.
CallRead(c) ==
    /\ c.op \in Reads
    /\ Called(c)
    /\ result' = [k \in 1..AtMost(c.length, PAGE) |-> IF busy THEN {} ELSE mem[(c.addr + k - 1) % SIZE]]
    /\ UNCHANGED <<at, cmd, adr, j, erased, status>>

CallWrite(c) ==
    /\ c.op \in Writes
    /\ Called(c)
    /\ cmd' = Program(c.addr, SubSeq(c.data, 1, AtMost(c.length, PAGE)))
    /\ at' = "wren"
    /\ UNCHANGED <<adr, j, erased, result, status>>

CallErase(c) ==
    /\ c.op = "erase_sector"
    /\ Called(c)
    /\ cmd' = Erase(c.addr)
    /\ at' = "wren"
    /\ UNCHANGED <<adr, j, erased, result, status>>

\* neo_spi_flash_write_huge up to its loop; nothing to write is no call.
CallHuge(c) ==
    /\ c.op = "write_huge"
    /\ c.length > 0
    /\ Called(c)
    /\ adr' = c.addr
    /\ j' = 0
    /\ erased' = c.addr
    /\ cmd' = Erase(c.addr)
    /\ at' = "wren"
    /\ UNCHANGED <<result, status>>

-----------------------------------------------------------------------------
(* Frames. *)

Goto(l) == at' = l /\ UNCHANGED <<job, cmd, adr, j, erased, result, status, book>>

Wren == at = "wren" /\ WriteLatch(TRUE) /\ Goto("work")

Work == at = "work" /\ Start(cmd) /\ Goto("wait")

ReadyWhenBusy == busy                                               \* mutant

\* What the status poll waits for.
Ready == ~busy

Wip ==
    /\ at = "wait"
    /\ Ready
    /\ UNCHANGED flash
    /\ Goto(IF job.op = "write_huge" THEN "loop" ELSE "idle")

\* Mutant: the sector boundary is noticed one page late.
NextSectorLate == adr > erased + SECTOR

NextSector == adr >= erased + SECTOR

\* A turn of the huge write's loop: an erase when the window is passed, and then
\* the same page of the caller's data once more.
HugeErase ==
    /\ at = "loop"
    /\ j < AtMost(job.length, HUGE_MAX)
    /\ NextSector
    /\ erased' = adr
    /\ cmd' = Erase(adr)
    /\ at' = "wren"
    /\ UNCHANGED <<job, adr, j, result, status, flash, book>>

HugePage ==
    /\ at = "loop"
    /\ j < AtMost(job.length, HUGE_MAX)
    /\ ~NextSector
    /\ cmd' = Program(adr, SubSeq(job.data, 1, PAGE))
    /\ adr' = adr + PAGE
    /\ j' = j + PAGE
    /\ at' = "wren"
    /\ UNCHANGED <<job, erased, result, status, flash, book>>

HugeDone ==
    /\ at = "loop"
    /\ j >= AtMost(job.length, HUGE_MAX)
    /\ UNCHANGED flash
    /\ Goto("idle")

\* neo_spi_flash_check: the latch is set, read back, cleared and read back.
CheckSet   == at = "set" /\ WriteLatch(TRUE) /\ Goto("isSet")
CheckClear == at = "clear" /\ WriteLatch(FALSE) /\ Goto("isClear")

\* The check has returned.
Passed(v) ==
    /\ status' = IF v THEN 0 ELSE -1
    /\ known' = (known \/ v)
    /\ at' = "idle"
    /\ UNCHANGED <<job, cmd, adr, j, erased, result, flash, before, calls, resets>>

CheckIsSet ==
    /\ at = "isSet"
    /\ \/ wel /\ UNCHANGED flash /\ Goto("clear")
       \/ ~wel /\ Passed(FALSE)

CheckAnyway == at = "isClear" /\ Passed(TRUE)                        \* mutant

CheckIsClear == at = "isClear" /\ Passed(~wel)

\* The CPU restarts, the flash does not.
Reset ==
    /\ resets > 0
    /\ resets' = resets - 1
    /\ known' = FALSE
    /\ at' = "idle"
    /\ result' = <<>>
    /\ status' = -1
    /\ UNCHANGED <<job, cmd, adr, j, erased, flash, before, calls>>

Step ==
    \/ Wren \/ Work \/ Wip \/ HugeErase \/ HugePage \/ HugeDone
    \/ CheckSet \/ CheckClear \/ CheckIsSet \/ CheckIsClear

Next ==
    \/ Step \/ FlashDone \/ Reset
    \/ \E c \in JOBS : CallCheck(c) \/ CallRead(c) \/ CallWrite(c) \/ CallErase(c) \/ CallHuge(c)

Spec == Init /\ [][Next]_vars

\* The CPU runs and the flash finishes what it began.
FairSpec == Spec /\ WF_vars(Step) /\ WF_vars(FlashDone)

-----------------------------------------------------------------------------
(* Properties. *)

Frame == [op : {"none", "program", "erase"}, addr : Address, data : Seq(SUBSET BITS)]

\* No program frame is longer than a page, no read returns more than one.
TypeOK ==
    /\ job \in JOBS \cup {NoCall}
    /\ at \in {"idle", "wren", "work", "wait", "loop", "set", "isSet", "clear", "isClear"}
    /\ cmd \in Frame /\ Len(cmd.data) <= PAGE
    /\ adr \in Nat /\ j \in Nat /\ erased \in Nat
    /\ result \in Seq(SUBSET BITS) /\ Len(result) <= PAGE
    /\ status \in {0, -1}
    /\ mem \in [Address -> SUBSET BITS]
    /\ wel \in BOOLEAN
    /\ work \in Frame /\ (work \in {None, cmd} \/ resets < RESETS)
    /\ before \in [Address -> SUBSET BITS]
    /\ known \in BOOLEAN
    /\ calls \in Nat /\ resets \in 0..RESETS

\* The addresses a write is meant for, beyond the end of the array included.
Span(c) == c.addr..(c.addr + AtMost(c.length, PAGE) - 1)

\* What a call has done to the array when it returns, on a flash that is known to
\* be ready when it is made: the bits asked for are in place, all of them and
\* nowhere else.  A write that runs over its page keeps to that page.
Landed ==
    (at = "idle" /\ known) =>
        CASE job.op \in Writes /\ Span(job) \subseteq PageOf(job.addr) ->
               mem = [x \in Address |->
                         before[x] \cup IF x \in Span(job) THEN job.data[x - job.addr + 1] ELSE {}]
          [] job.op \in Writes ->
               \A x \in Address \ PageOf(job.addr) : mem[x] = before[x]
          [] job.op = "erase_sector" ->
               mem = [x \in Address |-> IF x \in SectorOf(job.addr) THEN {} ELSE before[x]]
          [] job.op \in Reads ->
               mem = before /\ \A k \in 1..Len(result) : result[k] = mem[(job.addr + k - 1) % SIZE]
          [] OTHER -> TRUE

\* A check that succeeds proves more than that the latch works: the flash is done
\* with whatever a restart may have left it doing.
CheckMeansReady == (at = "idle" /\ known) => ~busy

\* From the base of a sector on, every page the huge write programs has been
\* erased for it: none is programmed over old contents.
HugePagesErased ==
    /\ at = "work" /\ known /\ cmd.op = "program"
    /\ job.op = "write_huge" /\ job.addr % SECTOR = 0
    => \A x \in PageOf(cmd.addr) : mem[x] = {}

\* What the proofs need besides.  A flash at work holds its latch, whoever set it to
\* work; and one that is known to be ready works only while the driver polls it.
ReadyInv ==
    /\ busy => wel /\ work.op \in {"program", "erase"}
    /\ at \in {"wren", "work", "wait"} =>
          job.op \in Writes \cup {"erase_sector", "write_huge"} /\ cmd.op \in {"program", "erase"}
    /\ at = "loop" => job.op = "write_huge"
    /\ at \in {"set", "isSet", "clear", "isClear"} => job.op = "check"
    /\ known \/ resets < RESETS
    /\ known /\ busy => at = "wait" /\ work = cmd
    /\ known /\ at = "work" => wel

\* The one frame of a call that changes the array.
Due(c) == IF c.op = "erase_sector" THEN Erase(c.addr)
          ELSE Program(c.addr, SubSeq(c.data, 1, AtMost(c.length, PAGE)))

\* A single call changes the array once, when its frame is carried out.
CallInv ==
    /\ known /\ job.op \in Writes \cup {"erase_sector"} =>
          /\ cmd = Due(job)
          /\ mem = IF busy \/ at \in {"wren", "work"} THEN before ELSE Worked(cmd, before)
    /\ known /\ job.op \in Reads =>
          mem = before /\ \A k \in 1..Len(result) : result[k] = mem[(job.addr + k - 1) % SIZE]

\* The sector the huge write is in is erased from offset o on.
Ahead(o) == \A x \in SectorOf(erased % SIZE) : x % SECTOR >= o => mem[x] = {}

HugeInv ==
    known /\ job.op = "write_huge" /\ job.addr % SECTOR = 0 /\ at # "idle" =>
        LET off == adr - erased IN
        /\ erased % SECTOR = 0 /\ off \in 0..SECTOR /\ off % PAGE = 0
        /\ at = "loop" => Ahead(off)
        /\ at # "loop" /\ cmd.op = "erase" =>
              off = 0 /\ cmd = Erase(erased) /\ (at = "wait" /\ ~busy => Ahead(0))
        /\ at # "loop" /\ cmd.op = "program" =>
              /\ off >= PAGE /\ cmd.addr = (adr - PAGE) % SIZE /\ Ahead(off)
              /\ at # "wait" => Ahead(off - PAGE)

IInv == TypeOK /\ ReadyInv /\ CallInv /\ HugeInv

\* Every call returns.
Returns == (at # "idle") ~> (at = "idle")

\* spi_flash.h declares the huge write as one of `length` bytes from pData.
HugeLands ==
    (at = "idle" /\ known /\ job.op = "write_huge") =>
        \A k \in 1..AtMost(job.length, HUGE_MAX) : mem[(job.addr + k - 1) % SIZE] = job.data[k]
=============================================================================
