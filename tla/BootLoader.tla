----------------------------- MODULE BootLoader -----------------------------
(***************************************************************************)
(* The bootloader (sw/bootloader/main.c and hal/source): automatic boot    *)
(* after a time-out, and a console that takes an executable from the host, *)
(* stores it in the SPI flash, loads it from there and starts it.  The CPU *)
(* may be reset at any moment; the flash then ends the byte or the sector  *)
(* it is at.  Configured as config.h has it: UART, SPI flash and status    *)
(* LED, neither TWI flash nor SD card.                                     *)
(***************************************************************************)
EXTENDS ExeImage, FiniteSets

CONSTANTS
    FILES,      \* programs: [base : address, bytes : what image_gen reads]
    NOISE,      \* words that may replace one of an upload
    SECTOR,     \* SPI_FLASH_SECTOR_SIZE
    FLASH,      \* bytes of the flash; its first one is SPI_FLASH_BASE_ADDR
    MEM,        \* words of main memory, from address 0
    CMDS,       \* bound: commands the user gives
    RESETS      \* bound: resets

\* A sector holds a header; the flash, what main memory can hold and a sector more;
\* the top of the address space is the boot ROM's and the devices'.
ASSUME SizesAssumption ==
    /\ SECTOR \in Nat /\ BIN_OFFSET_DATA <= SECTOR
    /\ MEM \in Nat /\ NB * MEM < (BYTE - 1) * Power(BYTE, NB - 1)
    /\ FLASH \in Nat /\ NB * MEM + SECTOR <= FLASH

\* image_gen refuses an empty file; programs are linked for main memory.
ASSUME FilesAssumption ==
    \A f \in FILES :
        /\ f \in [base : Nat, bytes : Seq(0..(BYTE - 1))]
        /\ f.bytes # <<>>
        /\ f.base % NB = 0
        /\ f.base + NB * Len(Words(Padded(f.bytes))) <= NB * MEM

ASSUME NoiseAssumption == NOISE \subseteq 0..(WORD - 1)

VARIABLES
    at,         \* where the bootloader is
    job,        \* the command, or "auto"
    exe,        \* g_exe_base and g_exe_size
    hdr,        \* the local executable_header_t
    i,          \* the loop variable: bytes of the current part that are done
    left,       \* num_sectors of the erase loop
    g_flash_addr,
    said,       \* the message that ended the last load or store
    mem,        \* main memory, by words
    flash,      \* the flash, by bytes
    work,       \* what the flash is busy with
    stream,     \* words the host has sent and the UART holds
    led, mie,   \* status LED, machine interrupts enabled
    kept,       \* the program the flash keeps or is being given
    forced,     \* the user asked to boot without an executable
    cmds, resets

code == <<job, exe, hdr, i, left, g_flash_addr, said>>
book == <<kept, forced, cmds, resets>>
irq  == <<led, mie>>
dev  == <<mem, flash, work, stream>>
vars == <<at, code, dev, irq, book>>

None == [op |-> "none"]
busy == work # None

Header(ws) == [signature |-> ws[1], base_addr |-> ws[2], size |-> ws[3], checksum |-> ws[4]]
\* Mutant: the default base address.
HeaderWordsDefault(h) == <<h.signature, 0, h.size, h.checksum>>
HeaderWords(h) == <<h.signature, h.base_addr, h.size, h.checksum>>

-----------------------------------------------------------------------------
(* The flash and main memory. *)

\* Programming only clears bits.
Programmed(old, b) == Value(2, [k \in 1..BITS |-> Digit(2, old, k - 1) * Digit(2, b, k - 1)])

\* What the flash holds when it has done what it is busy with.
Settled ==
    CASE work.op = "none"    -> flash
      [] work.op = "erase"   -> [a \in DOMAIN flash |-> IF a \div SECTOR = work.addr \div SECTOR
                                                        THEN BYTE - 1 ELSE flash[a]]
      [] work.op = "program" -> [flash EXCEPT ![work.addr] = Programmed(@, work.byte)]

FlashDone ==
    /\ busy
    /\ flash' = Settled
    /\ work' = None
    /\ UNCHANGED <<at, code, mem, stream, irq, book>>

FlashWord(a) == WordOf([k \in 1..NB |-> flash[(a + k - 1) % FLASH]])

MappedUnaligned(a) == a \div NB \in DOMAIN mem    \* mutant: it is rounded down

\* Where a word can be stored; what is read elsewhere is no word at all.  Behind
\* main memory no port of the bus gateway answers and its monitor reports an error.
\* Data memory and devices, which do answer, lie higher and are not in the model.
Mapped(a) == a % NB = 0 /\ a \div NB \in DOMAIN mem
MemWord(a) == IF Mapped(a) THEN mem[a \div NB] ELSE WORD

-----------------------------------------------------------------------------
(* Reset, heart beat and traps. *)

Holds(a, ws) ==
    LET b == Bytes(ws)
    IN  [x \in 0..(FLASH - 1) |-> IF x \in a..(a + Len(b) - 1) THEN b[x - a + 1] ELSE BYTE - 1]

\* crt0 and system_setup, which disables the UART first and so empties it.
Restarted ==
    /\ at' = "auto"
    /\ exe' = [base |-> 0, size |-> 0]
    /\ g_flash_addr' = 0
    /\ stream' = <<>>
    /\ forced' = FALSE
    /\ led' = 1
    /\ mie' = TRUE

Init ==
    /\ at = "auto"
    /\ job = "auto"
    /\ exe = [base |-> 0, size |-> 0]
    /\ hdr = Header(<<0, 0, 0, 0>>)
    /\ i = 0
    /\ left = 0
    /\ g_flash_addr = 0
    /\ said = ""
    /\ mem = [a \in 0..(MEM - 1) |-> 0]
    /\ work = None
    /\ stream = <<>>
    /\ led = 1
    /\ mie = TRUE
    /\ forced = FALSE
    /\ cmds = CMDS
    /\ resets = RESETS
    /\ \/ kept = None /\ flash \in {[x \in 0..(FLASH - 1) |-> b] : b \in {0, BYTE - 1}}
       \/ \E f \in FILES : /\ kept = [op |-> "keep", base |-> f.base, data |-> Words(Padded(f.bytes))]
                           /\ flash = Holds(0, Image(f.bytes, f.base))

Reset ==
    /\ resets > 0
    /\ resets' = resets - 1
    /\ Restarted
    /\ UNCHANGED <<job, hdr, i, left, said, mem, flash, work, kept, cmds>>

\* system_trap_handler at a timer interrupt.
Mti ==
    /\ mie
    /\ led' = 1 - led
    /\ UNCHANGED <<at, code, dev, mie, book>>

\* system_trap_handler otherwise, an ebreak included: panic, LED on for good.
Trap == at' = "halt" /\ led' = 1 /\ mie' = FALSE

Goto(l) == at' = l /\ UNCHANGED irq

\* Mutant: the automatic boot tries again.
AfterLoadRetries(ok) ==
    CASE job = "auto" -> Goto(IF ok THEN "boot" ELSE "auto")
      [] job = "u" /\ ~ok    -> Trap
      [] OTHER               -> Goto("prompt")

\* What main does after system_app_load.
AfterLoad(ok) ==
    CASE job = "auto" /\ ok  -> Goto("boot")
      [] job = "u" /\ ~ok    -> Trap
      [] OTHER               -> Goto("prompt")

-----------------------------------------------------------------------------
(* system_app_load. *)

\* Mutant: what was available before stays so.
LoadKeepsSize(j) == job' = j /\ UNCHANGED exe /\ forced' = FALSE

Load(j) ==
    /\ job' = j
    /\ exe' = [exe EXCEPT !.size = 0]
    /\ forced' = FALSE

\* spi_flash_setup fails at a busy flash: its write enable latch does not follow.
LoadFlash(j) ==
    /\ Load(j)
    /\ g_flash_addr' = 0
    /\ IF busy THEN said' = "ERROR_DEVICE" /\ Goto("prompt")
               ELSE Goto("header") /\ UNCHANGED said
    /\ UNCHANGED <<hdr, i, left, dev, kept>>

TimeOut ==
    /\ at = "auto"
    /\ LoadFlash("auto")
    /\ UNCHANGED <<cmds, resets>>

\* A key in time: it is taken from the UART and means nothing else.
AnyKey ==
    /\ at = "auto"
    /\ Goto("prompt")
    /\ UNCHANGED <<code, dev, book>>

\* spi_flash_stream_get and uart_stream_get, n words.
Streamed(n) == IF job = "u" THEN SubSeq(stream, 1, n)
               ELSE [k \in 1..n |-> FlashWord(g_flash_addr + NB * (k - 1))]

StreamGet(n) ==
    IF job = "u"
    THEN /\ Len(stream) >= n
         /\ stream' = SubSeq(stream, n + 1, Len(stream))
         /\ UNCHANGED g_flash_addr
    ELSE /\ g_flash_addr' = g_flash_addr + NB * n
         /\ UNCHANGED stream

GetHeader ==
    /\ at = "header"
    /\ StreamGet(4)
    /\ hdr' = Header(Streamed(4))
    /\ exe' = [exe EXCEPT !.base = hdr'.base_addr]
    /\ i' = 0
    /\ IF hdr'.signature = BIN_SIGNATURE
       THEN Goto("copy") /\ UNCHANGED said
       ELSE said' = "ERROR_SIGNATURE" /\ AfterLoad(FALSE)
    /\ UNCHANGED <<job, left, mem, flash, work, book>>

\* One turn of the loop.  A store outside main memory, or to an odd address, is a
\* trap; without it i would wrap past a size near 2^32 and never reach it.
Copy ==
    /\ at = "copy"
    /\ i < hdr.size
    /\ StreamGet(1)
    /\ LET tmp == Streamed(1)[1]
           a   == Add(hdr.base_addr, i)
       IN  IF Mapped(a)
           THEN /\ mem' = [mem EXCEPT ![a \div NB] = tmp]
                /\ hdr' = [hdr EXCEPT !.checksum = Add(@, tmp)]
                /\ i' = Add(i, NB)
                /\ UNCHANGED <<at, irq>>
           ELSE Trap /\ UNCHANGED <<mem, hdr, i>>
    /\ UNCHANGED <<job, exe, left, said, flash, work, book>>

ChecksumFits(h) == Add(h.checksum, 1) = 0

Copied ==
    /\ at = "copy"
    /\ i >= hdr.size
    /\ said' = IF ChecksumFits(hdr) THEN "OK" ELSE "ERROR_CHECKSUM"
    /\ exe' = IF ChecksumFits(hdr) THEN [exe EXCEPT !.size = hdr.size] ELSE exe
    /\ AfterLoad(ChecksumFits(hdr))
    /\ UNCHANGED <<job, hdr, i, left, g_flash_addr, dev, book>>

-----------------------------------------------------------------------------
(* system_app_store. *)

\* What is loaded, and that the flash is to keep it or keeps it.
Loaded(op) == [op |-> op, base |-> exe.base,
               data |-> [k \in 1..(exe.size \div NB) |-> MemWord(exe.base + NB * (k - 1))]]

\* Where the flash is when the user is asked.
Store ==
    /\ job' = "s"
    /\ g_flash_addr' = IF exe.size = 0 THEN g_flash_addr ELSE 0
    /\ IF exe.size = 0 THEN Goto("prompt") /\ UNCHANGED said
       ELSE IF busy THEN said' = "ERROR_DEVICE" /\ Goto("prompt")
       ELSE Goto("confirm") /\ UNCHANGED said
    /\ UNCHANGED <<exe, hdr, i, left, dev, kept, forced>>

\* Mutant: without the one that is always erased.
SectorsRoundedDown(size) == size \div SECTOR
Sectors(size) == size \div SECTOR + 1

Confirm(yes) ==
    /\ at = "confirm"
    /\ IF yes THEN Goto("erase") ELSE Goto("prompt")
    /\ left' = IF yes THEN Sectors(exe.size) ELSE left
    /\ g_flash_addr' = 0
    /\ hdr' = Header(<<BIN_SIGNATURE, exe.base, exe.size, 0>>)
    /\ UNCHANGED <<job, exe, i, said, dev, book>>

\* Write-enable, erase or program, and the wait for the flash, which is the
\* guard of the step that follows.
EraseSector ==
    /\ at = "erase"
    /\ ~busy
    /\ left > 0
    /\ work' = [op |-> "erase", addr |-> g_flash_addr % FLASH]
    /\ g_flash_addr' = g_flash_addr + SECTOR
    /\ left' = left - 1
    /\ kept' = Loaded("store")
    /\ UNCHANGED <<at, job, exe, hdr, i, said, mem, flash, stream, irq, forced, cmds, resets>>

Erased ==
    /\ at = "erase"
    /\ ~busy
    /\ left = 0
    /\ g_flash_addr' = BIN_OFFSET_DATA
    /\ i' = 0
    /\ Goto("data")
    /\ UNCHANGED <<job, exe, hdr, left, said, dev, book>>

\* A byte of spi_flash_stream_put.
PutByte(b) ==
    /\ work' = [op |-> "program", addr |-> g_flash_addr % FLASH, byte |-> b]
    /\ g_flash_addr' = g_flash_addr + 1
    /\ i' = i + 1
    /\ UNCHANGED <<at, job, exe, left, said, mem, flash, stream, irq, book>>

StoreData ==
    /\ at = "data"
    /\ ~busy
    /\ i - (i % NB) < hdr.size
    /\ LET tmp == MemWord(hdr.base_addr + i - (i % NB))
       IN  /\ PutByte(ByteOf(tmp, i % NB))
           /\ hdr' = [hdr EXCEPT !.checksum = IF i % NB = 0 THEN Add(@, tmp) ELSE @]

DataStored ==
    /\ at = "data"
    /\ ~busy
    /\ i - (i % NB) >= hdr.size
    /\ g_flash_addr' = 0
    /\ i' = 0
    /\ hdr' = [hdr EXCEPT !.checksum = Complement(@)]
    /\ Goto("header_out")
    /\ UNCHANGED <<job, exe, left, said, dev, book>>

StoreHeader ==
    /\ at = "header_out"
    /\ ~busy
    /\ i < BIN_OFFSET_DATA
    /\ PutByte(Bytes(HeaderWords(hdr))[i + 1])
    /\ UNCHANGED hdr

Stored ==
    /\ at = "header_out"
    /\ ~busy
    /\ i = BIN_OFFSET_DATA
    /\ said' = "OK"
    /\ kept' = Loaded("keep")
    /\ Goto("prompt")
    /\ UNCHANGED <<job, exe, hdr, i, left, g_flash_addr, dev, forced, cmds, resets>>

-----------------------------------------------------------------------------
(* system_app_boot. *)

Boot ==
    /\ at = "boot"
    /\ Goto(IF exe.size = 0 THEN "anyway" ELSE "quiet")
    /\ UNCHANGED <<code, dev, book>>

Anyway(yes) ==
    /\ at = "anyway"
    /\ forced' = yes
    /\ Goto(IF yes THEN "quiet" ELSE "prompt")
    /\ UNCHANGED <<code, dev, kept, cmds, resets>>

\* Mutant: the interrupt is left on.
MieLeftOn == mie
MieAtBoot == FALSE

DisableIrq ==
    /\ at = "quiet"
    /\ mie' = MieAtBoot
    /\ at' = "dark"
    /\ UNCHANGED <<led, code, dev, book>>

LedOff ==
    /\ at = "dark"
    /\ led' = 0
    /\ at' = "jump"
    /\ UNCHANGED <<mie, code, dev, book>>

Jump ==
    /\ at = "jump"
    /\ Goto("app")
    /\ UNCHANGED <<code, dev, book>>

-----------------------------------------------------------------------------
(* The console of main. *)

\* What the host sends: an image, perhaps with one word of its signature, base
\* address, checksum or data changed, perhaps cut short.
Uploads(f) ==
    LET w == Image(f.bytes, f.base)
    IN  {w} \cup {[w EXCEPT ![k] = v] : k \in DOMAIN w \ {3}, v \in NOISE}
            \cup {SubSeq(w, 1, k) : k \in {3, Len(w) - 1}}

Command ==
    /\ at = "prompt"
    /\ cmds > 0
    /\ cmds' = cmds - 1
    /\ UNCHANGED resets

CmdUpload(f) ==
    /\ Command
    /\ Load("u")
    /\ stream' \in Uploads(f)
    /\ Goto("header")
    /\ UNCHANGED <<hdr, i, left, g_flash_addr, said, mem, flash, work, kept>>

CmdLoad  == Command /\ LoadFlash("l")
CmdStore == Command /\ Store

CmdBoot ==
    /\ Command
    /\ job' = "e"
    /\ Goto("boot")
    /\ UNCHANGED <<exe, hdr, i, left, g_flash_addr, said, dev, kept, forced>>

CmdExit ==
    /\ Command
    /\ Trap
    /\ UNCHANGED <<code, dev, kept, forced>>

\* r: back to the first instruction of the boot ROM.
CmdRestart ==
    /\ Command
    /\ Restarted
    /\ UNCHANGED <<job, hdr, i, left, said, mem, flash, work, kept>>

Cpu ==
    \/ TimeOut \/ GetHeader \/ Copy \/ Copied
    \/ EraseSector \/ Erased \/ StoreData \/ DataStored \/ StoreHeader \/ Stored
    \/ Boot \/ DisableIrq \/ LedOff \/ Jump

User ==
    \/ AnyKey \/ CmdLoad \/ CmdStore \/ CmdBoot \/ CmdExit \/ CmdRestart
    \/ \E f \in FILES : CmdUpload(f)
    \/ \E yes \in BOOLEAN : Confirm(yes) \/ Anyway(yes)

Next == Cpu \/ User \/ FlashDone \/ Mti \/ Reset

Spec == Init /\ [][Next]_vars

\* The CPU runs, its time-out expires, and the flash ends what it began.
FairSpec == Spec /\ WF_vars(Cpu) /\ WF_vars(FlashDone)

-----------------------------------------------------------------------------
(* Properties. *)

\* The loops of the loader stay inside the header's size and never store outside
\* main memory; no erase or program starts behind the end of the flash.
TypeOK ==
    /\ at \in {"auto", "prompt", "header", "copy", "confirm", "erase", "data", "header_out",
               "boot", "anyway", "quiet", "dark", "jump", "app", "halt"}
    /\ mem \in [0..(MEM - 1) -> 0..(WORD - 1)]
    /\ flash \in [0..(FLASH - 1) -> 0..(BYTE - 1)]
    /\ at \in {"erase", "data", "header_out"} => g_flash_addr <= FLASH
    /\ exe.size # 0 => exe.base % NB = 0 /\ exe.base + exe.size <= NB * MEM
    /\ led \in {0, 1} /\ mie \in BOOLEAN /\ left \in Nat

\* Whenever the bootloader counts an executable as available, main memory holds
\* every word of a program image_gen was given, at the address it would start.
\* Nothing else is started, unless the user insists.  The base address is not in
\* the checksum, so the program may lie elsewhere.
StartsIntact ==
    exe.size # 0 \/ (at = "app" /\ ~forced) =>
        exe.size # 0 /\ \E f \in FILES : Loaded("keep").data = Words(Padded(f.bytes))

FromFlash == job \in {"auto", "l"} /\ at \in {"prompt", "boot", "halt"}

\* A load from the flash that succeeds is of the program that was last stored,
\* word for word and to the same address, even if a reset cut that store short;
\* never of the program before it, nor of a mixture.
RoundTrip == FromFlash /\ exe.size # 0 => Loaded(kept.op) = kept

\* The program that takes over finds the timer interrupt off and the LED dark; a
\* bootloader that gave up leaves the LED on, whenever the last heart beat was.
HandOver ==
    /\ at = "app"  => ~mie /\ led = 0
    /\ at = "halt" => ~mie /\ led = 1

LoadEnds == job \in {"auto", "l"} /\ at \in {"header", "copy"} /\ at' \notin {"header", "copy", "auto"}

\* A store counts the sectors to erase without the header: these sizes have room
\* for it in the last one.
Covered(size) == BIN_OFFSET_DATA + (size % SECTOR) <= SECTOR

\* A store that has reported success can be loaded, in this session and after a
\* reset, if its last byte was in a sector that was erased.
KeptLoads ==
    [][LoadEnds /\ kept.op = "keep" /\ Covered(NB * Len(kept.data)) => exe'.size # 0]_vars

Waits == at \in {"prompt", "confirm", "anyway", "app", "halt"}

\* An upload waits for ever for words the host does not send.
Starved == job = "u" /\ at \in {"header", "copy"} /\ Len(stream) < IF at = "header" THEN 4 ELSE 1

\* Main halts behind an upload that failed.  A store that was cut may leave a header
\* with a signature and no size; that the load of such a flash panics, while the
\* documentation promises the console, is AutoBootFallsBack and set apart here.
HaltsInVain == at = "halt" /\ job # "u" /\ kept.op # "store"

\* The bootloader gets to a prompt, a question or the program, whatever is in the
\* flash and whenever it was reset; of itself it halts behind failed uploads and
\* cut stores only.
Settles == ~Waits ~> (Waits /\ ~HaltsInVain) \/ Starved

\* "If no valid executable can be fetched the interactive bootloader console is
\* started" (software_bootloader.adoc:191-192): the automatic boot never gives up
\* in a panic.
AutoBootFallsBack == [][job = "auto" /\ at \in {"header", "copy"} => at' # "halt"]_vars
=============================================================================
