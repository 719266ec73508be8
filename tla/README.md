# A verification project for the neorv32-sfp firmware

The firmware turns a NEORV32 soft core into a *TWI/GPIO shell*: a user at a
terminal types a line, the firmware parses it into I2C and GPIO transactions,
carries them out and prints what happened. The repository also vendors the
NEORV32 project, with the drivers the firmware calls, the bootloader that loads
and starts it, and a second core it may be built with. This directory holds TLA+ modules
that model the firmware, TLC configurations that check them on small instances,
and proofs checked by TLAPS. Paths below are relative to the repository.

## 1. The system

### 1.1 Components, their state and their operations

| Part | Source | State | Operations |
|------|--------|-------|------------|
| parser | `src/neo_parser.c`, `inc/neo_parser.h` | cursor `cur_t`; the static `neo_txn_t`: command slots, shared payload pool, error | `neo_parse_transaction` and its helpers |
| executor | `src/neo_exec.c` | loop indices; the bus and the GPIO port through a HAL table | `neo_exec_run`, `exec_write`, `exec_read`, printers |
| line input, output | `src/neo_io.c` (backend, `neo_read_line`) | line buffer, index | `neo_putc`, `neo_puts`, `neo_getc`, `neo_read_line` |
| formatter | `src/neo_io.c` (rest) | none | `neo_printf` family |
| console backend | `src/neo_uart.c` | UART0 control register, its two FIFOs | `neo_uart_init`, `putc`/`getc` backends, `neo_uart_read_line` |
| application | `src/neo_app.c`, `src/main.c` | static line buffer and transaction | boot, banner, prompt loop |
| flash driver | `src/spi_flash.c` | local variables of each call | check, read, write byte/word/page/huge, erase |
| helpers | `src/utils*.c` | none | memory sizes |
| vendored HAL and RTL | `neorv32/sw/lib`, `neorv32/rtl` | FIFOs and bus engines of UART, TWI, SPI | register-level drivers; the engines run beside the CPU |
| bootloader | `neorv32/sw/bootloader` | `g_exe_base`, `g_exe_size`, `g_flash_addr`; main memory, flash, LED, interrupt enable | automatic boot, upload, load, store, start, restart |
| image generator | `image_gen/image_gen.c` | none (host tool) | binary to image conversion; the header the bootloader reads |
| dual-core start | `neorv32_smp.c`, `crt0.S`, `neorv32_bus.vhd`, `demo_dual_core` | CLINT registers of core 1, reservation station, `__spin_locked` | launch, wake-up, lock, unlock |
| tests, scripts | `test/`, `scripts/` | – | – |

`neo_app_run` calls `neo_read_line` on the UART backend, hands the line to the
parser, and an accepted transaction to the executor. Parser and executor share
`s_txn` by value of its offsets: a command names its bytes by an offset and a
length into one pool. Everything on the CPU is one thread that polls. What runs
beside it are the terminal's user, the UART's shift registers, the I2C slave,
the engines of the TWI and SPI controllers and the flash. The bootloader leaves
an executable in main memory and jumps to it; it shares the flash with its own
past, since a reset may fall anywhere. The dual-core programs share the CLINT
registers, memory and UART0.

### 1.2 What is hard

* Commands end where the next begins, decided by four loops of the parser with
  different stop conditions and a three-character lookahead that also fires
  inside what looks like data.
* All commands of a line decode into one pool, reused by the next line.
* The slave may refuse any byte; the executor continues regardless, and the
  terminal shows the marks it derives from the answers.
* STOP is issued by each command although comments, help text and README say it
  is issued once; the last byte of a read must be refused by the master.
* Keys arrive while the firmware echoes or executes: characters are lost at a
  full FIFO; a full line returns without its end of line.
* The UART is initialised twice with output in flight.
* The flash ignores what it is sent while it works, also after a restart of the
  CPU; writes wrap at a page; the huge write erases by a moving window.
* A HAL call is several register accesses around an engine that runs by itself,
  over FIFOs of one entry; a word left behind is the next call's answer.
* A store into the flash is data first, header last, byte by byte, and a reset
  may cut it; the load that follows only has a signature and a sum to tell.
* The heart beat interrupt toggles the LED between any two steps.
* A launch of core 1 times out while core 1 is on its way; the next request goes
  through the same two registers.
* One reservation serves two cores, under a turn that only a successful SC flips.

The hazards, each at its line, are in `PROJECT.json`.

### 1.3 What makes each part correct

* Parser: never reads past the NUL, always returns, slices tile the pool, an
  accepted line was read to its end, a decoded command has what the executor
  relies on, a line spelled by the grammar decodes to what was meant.
* Executor: behaves as an I2C master should, releases the bus at the end, sends each
  command's bytes and no others, marks what the slave really answered, returns.
* Shell: what the terminal shows of a line is what is parsed; each line gets its
  answer; the prompt always comes back.
* Flash driver: what is written lands, whole, and nothing else changes.
* Prompt loop as a whole: bus and port see what the user meant, once, in order.
* HAL: a call is one event on the wires and returns what that event sampled.
* Formatter: the text and the count of C99, truncated as C99 truncates.
* Bootloader: only whole programs start; what was confirmed can be loaded; what
  was cut is never taken for a program; it gets to a prompt or to the program.
* Two cores: a launch that returns 0 is true; one core at a time has the console.

## 2. Modules

| Module | Models | Specification |
|--------|--------|---------------|
| `NeoParser` | `neo_parser.c`, complete | one call after another on lines from `LINES` |
| `NeoGrammar` | the spelling rules of `README.md` 2.1, 2.2 as a reference | a user writes an intended transaction down, or any line of `LINES`; `NeoParser` parses it |
| `NeoExec` | `neo_exec.c`, complete | runs of transactions from `TXNS` |
| `TwiBus` | what may be seen on SCL and SDA | abstract specification, implemented by `NeoExec` |
| `NeoShell` | `main.c`, `neo_app.c`, `neo_uart.c`, `neo_read_line`; UART FIFOs, user, terminal | keys from `CHARS` at any time |
| `SpiFlash` | `spi_flash.c`, complete; the flash | calls from `JOBS`, restarts |
| `NeoRepl` | `neo_app_run` with `NeoGrammar`, `NeoParser` and `NeoExec` composed | lines a user means, and others, one after another |
| `SerialHal` | the polling calls of `neorv32_twi.c`, `neorv32_spi.c`; both controllers with their FIFOs | calls from `CALLS`, an I2C device that holds SCL |
| `SerialBus` | what callers of these functions count on | abstract specification, implemented by `SerialHal` |
| `NeoFormat` | the `printf` family of `neo_io.c` | one call for every format, argument and buffer size |
| `C99Format` | what C99 says of a conversion specification | operators, the reference for `NeoFormat` |
| `ExeImage` | `image_gen -t exe`: header and data | operators |
| `BootLoader` | `sw/bootloader` in its default configuration; flash, host, resets | a user at the console |
| `DualCore` | `neorv32_smp_launch`, crt0 of core 1, reservation station, `demo_dual_core` | both cores, one shared access a step |
| `SharedConsole` | one core at a time holds the console | abstract specification, implemented by `DualCore` |
| `MC...` | constants for TLC | – |
| `NeoRepl_proofs` | – | theorems about `NeoParser` and `NeoRepl`, for all values of their constants |
| `NeoExec_proofs`, `NeoShell_proofs`, `SpiFlash_proofs`, `SerialHal_proofs`, `BootLoader_proofs`, `DualCore_proofs` | – | theorems about the module of that name, for all values of its constants |
| `SequenceInduction` | – | lemmas on sequences, and on folds over finite sets, that these proofs share |

### 2.1 NeoParser

A line is the sequence of its byte values before the NUL. A step is one turn of
a parser loop, or the decision between two loops, so `pos` is `c->p` at the head
of every loop and `pc` names the loop: `entry` (blanks, dispatch), `chain`,
`addr`/`addrByte` (`parse_one_byte_any`), `payload`, `run`, `bits`
(`parse_write_payload`), `tail`, `count`, `format`, `close` (`parse_read_tail`),
`special`. `cmds`, `cmd`, `pool`, `error` and `error_pos` are the fields of
`neo_txn_t`; `cmd` is the slot at index `count` that is not counted yet. Error
texts are kept, since they tell the failures apart. A NULL line is left out:
the application never passes one. The out-parameters that no caller of a failed
parse reads (a half decoded byte) are left out.

### 2.2 NeoGrammar

`SpellTxn` writes a transaction by the README's rules: hex, binary with or
without separators, or ASCII groups, optional `_` between parts, counts of one
to three digits, the format left out only for a count of zero. `Spellable` is
the README's rule that a hex group does not begin with A0..A3, and the same for a
count, which the README does not say (section 5). `Grammatical` is what else makes a
command, and `RoomAssumption` the parser's limits. It is a second, independent
statement of the language the parser accepts. `INTENTS` are the transactions that
may be meant: any set of grammatical ones. `SpellOut` types one, `Scribble` any other
line, which is meant for nothing (`intent` is empty).

### 2.3 NeoExec and TwiBus

A step of `NeoExec` is one HAL call and the printing that follows. The slave
chooses the acknowledge bit of every exchange and the bytes that are read;
`wire` is the history of the bus, `out` the printed lines with bytes as
(form, value) pairs. The bit returned after an intermediate byte of a read is
left free, although the line is wired so that the master reads its own
acknowledge: `exec_read` has a branch for it and the HAL contract allows it.
`TwiBus` sees `wire` alone. It is the same variable in both modules, so the
refinement mapping is the identity, and `BusLegal == Bus!Spec` is checked as a
temporal property. The header it expects is the one of the devices this
firmware addresses, control byte and internal address also before a read. A tenure
may end with STOP or with the repeated START of the next; either needs SDA, so
that both are legal only when no slave has been promised another byte. The code
ends each command with STOP, its comments promise a repeated START (section 5):
`TwiBus` is fulfilled by both. `BusReleased` is likewise about the prompt, and not
about what stands between two commands.

### 2.4 NeoShell

Printing is a queue `pend` of characters still to be handed to
`neorv32_uart0_putc`; the program only moves on when it is empty, since `putc`
blocks. `tx` is the UART's transmit FIFO, whose head leaves when its stop bit is
out, `rx` the receive FIFO, which loses what arrives when it is full. Reinit
empties both. `NeoParser` and `NeoExec` appear as a verdict and an answer. The
warnings about absent peripherals are left out, and so is the wording.
`ScreenTellsTheTruth` compares the terminal with a transcript of the lines that
were *taken*. The transcript has two parameters, because documents and code do not agree
on them (section 5): whether typed characters are echoed, and whether a line
that fills the buffer is ended on the screen. What the property does not leave open
is that each line is shown as it was parsed, or not at all.

### 2.5 SpiFlash

A step is one chip-select frame. Bytes are sets of cleared bits, so programming
is union and erasing is `{}`. The flash ignores frames while it works and drops
its write latch when it is done; the address wraps in the page. `Reset` restarts
the CPU and leaves the flash alone. A status poll that finds the flash busy
changes nothing and is no step; `Wip` is the last one. The wake-up frame is left
out (the flash is awake). A caller's buffer is assumed to hold what the driver
reads from it, which for the huge write is whole pages.

### 2.6 NeoRepl

The three modules keep their own variables; `turn` says whose step it is.
`ReadLine` hands a line to the parser's `Parse`, `Accepted` hands the parser's
`cmds` and `pool` to the executor's `Run`, as `neo_app_run` hands over `s_txn`.
`Rejected` goes back to the prompt and leaves the transaction as it is, commands
decoded before the error included. `sends` and `drives` are histories of what
the lines typed so far should put on the bus and on the port, computed from what
the user meant and not from what was decoded. The slave is there or not for the
whole session; its free answers are the business of `exec_bus`. That HAL calls
return is what `SerialHal` shows, and that the console delivers the line what
`NeoShell` shows.

### 2.7 SerialHal and SerialBus

A step of the CPU is one access to a controller's register: the poll of TX_FULL
that lets the call go on (`Room`), the write of the data register (`Put`), the
poll of BUSY (`NotBusy`), the read (`Get`). `neorv32_spi_transfer` begins with
the write, the chip-select functions end with it. `tx` and `rx` are the FIFOs of
one entry that `neorv32_top.vhd` has by default; a write to a full one is lost.

A step of a controller (`Clock`) is a clock of it: its engine takes an entry
(`Take`), ends an operation with what the other side answered (`Finish`) or goes
on with what it does (`Wait`), and in the same clock its FIFOs do what the engine's
registers told them one clock earlier (`FifoClock`). So the TWI engine is busy with
an entry that is still in the transmit FIFO (`tx_re`), and a received word is pushed
after busy has fallen (`rx_we`): the polls can fall between the two. The SPI
engine takes an entry in the clock it is idle, and carries out a chip-select command there
and then. The number of clocks is left open, with one exception: a controller
acknowledges an access in the clock after it, and the CPU waits for that
(`neorv32_cpu_control.vhd:435-449`), so each controller has at least a clock between two
accesses (`due`). That is what makes a transfer right behind a chip-select command find
the one-entry FIFO empty, although nothing in the driver looks; and it is why the
word is in the receive FIFO when the CPU comes to read it.
`Stretched` is the engine's halt on a
held SCL, which needs clock stretching enabled; `neo_app.c:28` passes 0, and so
does the run. `SerialBus` knows a call, its event and its answer; `Todo` maps
the program counter, FIFOs and engine to what is left of the call.

### 2.8 NeoFormat and C99Format

Characters are strings of one character. `Directive` reads what follows a `%`
as `format_core` does, branch by branch; `Number`, `Pointer`, `emit_padded` lay
out the text; `Emit` is either sink. The va_list is nondeterministic: each
conversion takes any argument of its type. `C99Format` is written from the
standard's grammar (flags, width, precision, length as a split of the text) and
not from the code; `c99` runs along and holds what C99 prints, as long as C99
defines it. Widths of int and long long are 8 and 10 bits in the run, so that
both ends of both types occur. Field widths beyond the 70 bytes of `numbuf2`
are not passed: there the sign branch (`neo_io.c:504-518`) would write behind it.

### 2.9 BootLoader and ExeImage

`at` is where the bootloader is, `job` the command it is in. Main memory is an
array of words, the flash of bytes; words are small but keep their wrap-around.
A load reads one word a step, a store programs one byte a step, and the flash
ends an erase or a program on its own (`FlashDone`), so that `Reset` may find it
busy and `spi_flash_setup` fail at it, because a busy flash does not set its
write enable latch. `Init` has the flash blank, full of zeros or with a program;
the host uploads images of `ExeImage`, whole, cut short or with a word changed.
A store outside main memory or to an odd address is a trap (`Mapped`): behind main
memory no port of the bus gateway answers and its monitor reports an error. The
bootloader's data memory and the devices do answer, but lie far above; they are
not in the model. A changed
size word is left out of the uploads: with it the host and the loader disagree
about the end of the stream. Lost characters are not modelled. A reset is one of
the CPU; with the power the flash may lose more than the byte it is at.

### 2.10 DualCore and SharedConsole

A step is one access to what the cores share: a CLINT register, the lock's word
by LR or SC, a character of UART0. The time-out of a launch may come at any poll
(`TimedOut`): core 1 is as slow as it likes. The caller then prints its error without
the lock (`Report`), character by character, while a late core 1 may hold it. `STACKS` names the stack of each
call, so that a torn or late request shows. `LR` and `SC` are the reservation
station's branches for one address; the granule of 64 bytes is assumed to hold
nothing else that is written, since such a write would end a reservation.
`SharedConsole` sees only who holds the console, who prints apart from it
(`apart`, the core in `Report`) and what is on it. A core that prints apart cannot
hold the console.

## 3. Runs

| Run | Question | Bounds and why they are enough |
|-----|----------|--------------------------------|
| `parser_lines` | all parser properties, the inductive invariant and the round trip, one call | every arrangement of up to 4 (write), 3 (read) or 3 (any) of 13 fragments that the lookaheads tell apart, after a valid header; all special words with tails; chains that run out of commands, payload and pool; every spelling of one and two commands of up to two groups; limits of 2 commands, 4 bytes and 5 in all, so every limit is hit |
| `exec_bus` | is `TwiBus` implemented; bytes, marks, release, return | every command kind, lengths 0 to 2, chains, all answers; a second transaction after a first |
| `shell_session` | screen against lines; liveness | 5 keys of 4 kinds at any moments, lines of 2, receive FIFO of 1 and transmit FIFO of 2: full lines, losses and erasing at the start of the line all occur |
| `flash_calls` | where do writes land; what does a check mean | 3 calls out of 14, one restart, 3 sectors of 2 pages of 4 bytes, two-bit bytes |
| `flash_huge` | does a huge write store its data? (no) | two pages |
| `repl_session` | do bus and port see what was meant? does anything of one line reach a later one? | lines of one and two commands, an output, 11 lines that fail after decoding a part or only print; lines until three have been carried out; limits of 2 commands and 6 bytes |
| `hal_calls` | is `SerialBus` implemented; is anything left over; does every call return | 3 calls out of all 7 kinds in any order, both answers to each bit; a fourth call would meet the same state as the third |
| `boot_session` | what is started, stored and loaded, across damage and resets | programs of one and two sectors and one whose header does not fit beside it, 3 commands, one reset at any step, words of 2 bytes of 8 values |
| `boot_auto` | does the automatic boot fall back to the console? (no) | one program, one reset |
| `format_calls` | is the text C99's? | every middle of up to 3 of six characters for 7 conversions, longer ones with two stars, both ends of each type; buffers of 0, 1 and 4 |
| `dual_core` | is a launch's answer true; is the lock a lock | two launches, messages of 2 characters; both cores' whole programs |
| `dual_starve` | is the lock free from starvation? (no) | one launch, messages of 1 character |

Bounds: `MAX_CMDS`, `PAYLOAD_MAX`, `POOL_SIZE`, `LINE_MAX`, `PAGE`, `SECTOR`,
`HUGE_MAX`, `SIZE`, `NB`, `BITS`, `FLASH`, `MEM`, `INT_BITS`, `LL_BITS`, `PTR_DIGITS`,
`LENGTH` and the FIFO depths are the code's or the hardware's own
limits made small; `OUT_MAX`, `KEYS`,
`CALLS`, `MAX_CALLS`, `CMDS`, `RESETS`, `STACKS` only end a run.
Deadlock checking is off where the system may stop: after the single call of a
run, when no key is pressed any more, when the bound on calls is used up, when
the bootloader has handed over or halted, when both cores have returned.

### 3.1 The properties worth reading first

* `SlicesTile` (NeoParser): commands' slices cover the pool exactly, in order.
* `RoundTrip` (NeoGrammar): the parser inverts the README's spelling.
* `BusLegal` (NeoExec): refinement of `TwiBus`.
* `BusReleased` (NeoExec): whatever the chain, no slave is left waiting at the prompt.
* `MarksAreTrue` (NeoExec): every `+` on the terminal is an acknowledged byte,
  in bus order, and every byte has left its mark.
* `ScreenTellsTheTruth` (NeoShell): a terminal that interprets backspace,
  carriage return and line feed shows, line after line, nothing or exactly what was
  parsed, and its answer, under every interleaving and loss.
* `CheckMeansReady` (SpiFlash): a successful `neo_spi_flash_check` is a
  sufficient guard after a restart with the flash at work.
* `DoneAsMeant` (NeoRepl): at every prompt the bus has seen exactly the bytes of
  the accepted lines, spelled by the grammar, in order.
* `Atomic` (SerialHal): refinement of `SerialBus`; every answer is the one of its
  own event, although it passes through a FIFO and two polls.
* `RoundTrip` (BootLoader): a load that succeeds is of the program last stored,
  even if a reset cut the store; never of the one before it nor of a mixture. For a
  program that leaves no room for the header it may fail (section 4.5); the run has one
  whose contents it holds for, and the theorem says so as a condition (`AllCovered`).
* `KeptLoads` (BootLoader): what "OK" promises after a store, for the sizes whose
  last sector has room for the header.
* `StartsIntact` (BootLoader): main memory holds a whole program whenever the
  bootloader believes it does, and nothing else is started unasked.
* `PrintsC99` (NeoFormat): two independent readings of a format agree.
* `LaunchTruthful` (DualCore): 0 means that core 1 is on its way into the given
  function on the given stack, whatever earlier launches timed out.
* `Exclusive` (DualCore): refinement of `SharedConsole`; nothing but the holder prints,
  with the one exception of section 5, the report of a failed launch.
* `Settles` (BootLoader): whatever is in the flash, the bootloader gets to a prompt,
  a question or the program; it halts only behind a failed upload and, against its
  documentation (`boot_auto`), behind a store that was cut.
* `HugePagesErased` (SpiFlash): from a sector's base, the moving erase window is
  always ahead of the programming.

### 3.2 Fairness

`NeoParser` (`ParseOn` in `NeoGrammar`), `NeoExec`: weak fairness of the step of the
running call, because the CPU has nothing else to do; none of the choice to make another call.
`NeoShell`: weak fairness of the firmware and, separately, of the transmitter,
which shifts on its own clock; none of the user. `SpiFlash`: weak fairness of
the driver and of the flash finishing its work, which its data sheet bounds in
time. `NeoRepl`: weak fairness of the firmware, none of the user; that HAL calls
return, an assumption of `NeoExec` too, is what `SerialHal` shows. `SerialHal`:
weak fairness of the CPU and of each controller's `Take`, `Finish` and `Wait`, which
are clocked; none of the device that holds SCL. `BootLoader`: weak fairness of the
CPU, its time-out included, and of the flash; none of the user, the host, the
reset or the interrupt, so that `Settles` excludes an upload whose words do not
come (`Starved`). It also excludes the halt behind a cut store, which `boot_auto` shows. `DualCore`: weak fairness of each core; a poll that is not
answered ends. `dual_starve` uses it too: its counterexample has both cores
running for ever, so that no assumption on their speed would help.

## 4. Proofs

Every theorem below holds for all values of the constants that satisfy the
module's assumptions; the runs of section 3 check the same statements on small
instances.

### 4.1 Theorems

| Module | Theorem | Statement |
|--------|---------|-----------|
| `NeoRepl_proofs`, the parser | `TypeCorrect` | cursor within the string, no overrun of pool or slots |
| | `SlicesAlwaysTile` | the commands' slices cover the pool, in order |
| | `BytesAlwaysCostText` | the text bounds what is decoded |
| | `CommandsAlwaysWellFormed` | every command has what the executor relies on |
| | `WholeLineAlwaysParsed` | an accepted line was read to its end |
| `NeoRepl_proofs`, the grammar | `SpelledIsDecoded` | what is spelled by the README's rules is accepted and decodes to what was meant (`RoundTrip`), for every transaction of the grammar that fits |
| `NeoExec_proofs` | `TypeCorrect` | never outside the transaction, the command, the payload |
| | `BusAlwaysReleased` | no transaction leaves the bus held for the prompt |
| | `BusAlwaysLegal` | `Spec => Bus!Spec`: `NeoExec` implements `TwiBus` |
| | `TransactionAlwaysSent` | all bytes of a transaction, in order, and no others |
| | `MarksAlwaysTrue` | every mark on the terminal is the slave's answer |
| `NeoRepl_proofs`, the loop | `PromisesAlwaysKept` | the parser keeps what the executor takes for granted |
| | `ReplRunsExecutor` | `RSpec => Executor!Spec`: the composed loop implements `NeoExec` |
| | `ReplKeepsExecutorsWord` | so the four executor theorems hold of the composed loop |
| | `DoneAlwaysAsMeant` | at every prompt bus and port have seen what was meant with all the lines so far (`DoneAsMeant`) |
| `NeoShell_proofs` | `TypeCorrect` | the line and its NUL fit, the FIFOs hold what they can |
| | `ScreenAlwaysTellsTheTruth` | of each line the terminal shows nothing or exactly what was parsed, and its answer |
| `SpiFlash_proofs` | `TypeCorrect` | no frame and no read longer than a page |
| | `CheckAlwaysMeansReady` | a check succeeds on a ready flash only |
| | `EveryCallLands` | a call does what it is called for and nothing else |
| | `HugePagesAlwaysErased` | a huge write that starts at a sector's base programs erased pages only |
| `SerialHal_proofs` | `NothingEverLeftOver` | nothing of a call is left for the next one |
| | `HalAtomic` | `Spec => Atomic`: `SerialHal` implements `SerialBus` |
| `BootLoader_proofs` | `BootInvariant` | `IInv`: what each moment of a load, a store, a reset and a hand-over leaves behind |
| | `BootTypes` | the loader's loops stay in main memory, no erase or program begins behind the flash |
| | `BootHandOver` | whoever takes over finds the timer interrupt off and the LED dark |
| | `LoadsWhatWasStored` | a load gives the address and size of the program last stored, and that program if its store erased all it wrote |
| | `StoredLoads` | a store that has said OK can be loaded (`KeptLoads`) |
| | `ProgramsStayWhole` | if all programs leave room for the header, only whole programs are kept or available |
| | `BootsIntact` | then what is available or started unasked is a program `image_gen` was given (`StartsIntact`) |
| | `StoreLoadRoundTrip` | then a load that succeeds is of the program last stored, word for word (`RoundTrip`) |
| `DualCore_proofs` | `LaunchAlwaysTruthful` | 0 means that core 1 is on its way to the function given |
| | `SharedDataAlwaysReady` | core 1 runs behind core 0's clearing of .bss |
| | `SpinlockExclusive` | `Spec => Exclusive`: `DualCore` implements `SharedConsole`; only the holder prints, except the report of a failed launch |

Each module also has `InvAlways`, `Spec => []IInv`, on which these rest (in
`BootLoader_proofs` it is `BootInvariant`; for the loop, the lemmas about `RInv`).

### 4.2 Assumptions

* `NeoParser`: `LinesAssumption` (no NUL in a C string), `LimitsAssumption`
  (positive command limit, natural payload limit, pool within `uint16_t`).
* `NeoExec`: `TxnsAssumption`, the promise of an accepted transaction (slices in
  the pool, a write's control byte is even and a read's odd); `WireAssumption`
  (bytes are bytes). The first is not left to trust: `PromisesAlwaysKept` and
  `ReplRunsExecutor` discharge it, since they instantiate `NeoExec_proofs` with
  `TXNS <- Promised`, the set of *all* transactions that keep the promise.
* `NeoGrammar`, `NeoRepl`: `CommandsAssumption` (what a user means is a chain of
  commands of the README's grammar), `RoomAssumption` (no more commands, bytes in a
  command or bytes in all than the parser has room for), `BytesAssumption`. The set
  of all such transactions satisfies both.
* `NeoShell`: `KeysAssumption` (bytes), `DepthAssumption` (line and FIFOs are not
  empty: `NEO_PARSER_LINE_MAX` is 1024, `neo_read_line` refuses none),
  `BoundAssumption`.
* `SpiFlash`: `GeometryAssumption` (pages divide sectors, sectors the array),
  `JobsAssumption` (a caller's buffer holds what the driver reads).
* `SerialHal`: `CallsAssumption`, `ClkstrAssumption`: one of the seven kinds of call;
  clock stretching on or off.
* `BootLoader`: `WidthAssumption` (words of `NB` bytes, at least one);
  `SignatureAssumption` (the signature, 0x214F454E at `system.h:20`, is neither all
  zeros nor what an erased flash reads); `SizesAssumption` (a sector, 64K at
  `config.h:155`, holds a header; main memory ends below the boot ROM and the
  devices at 0xFFE00000, `neorv32.h:39`; the flash holds what main memory can and
  a sector more); `FilesAssumption` (`image_gen.c:206` refuses an empty file; the
  linker script places programs in main memory, from a word's address on);
  `NoiseAssumption` (a damaged word is a word). Three theorems have `AllCovered`
  as their hypothesis: every program leaves 16 bytes of the last sector it takes
  free. Other programs are the divergence listed in section 5.
* `DualCore`: `StacksAssumption`, `LengthAssumption`: some launch, some text.
* `DoneAlwaysAsMeant` has a hypothesis, `OthersOnlyPrint`: a line of `LINES` that is
  accepted decodes to commands that only print. It is about the constant, not about
  the code: `LINES` are the lines that were not meant to transfer anything. TLC, given
  it as an invariant of the run `repl_session`, finds that it holds of the eleven lines there,
  some of which are accepted.

### 4.3 The arguments

**NeoParser.** None of the properties is inductive alone. `IInv` adds `PhaseInv`
and `CostInv`. `PhaseInv` is what each loop knows: a command being decoded has a
free slot, is a read or a write according to its loop, has no payload or no
count, and a control byte of its direction; before the first command nothing is
decoded. `CommandsWellFormed` needs it at the step that counts a command,
`TypeOK` for the slot limit. `CostInv` says that the text consumed pays for what
was decoded, with `Floor` for what the loop at hand has consumed on top.
`EndInv` carries `WholeLineParsed`: an error ends the call, and only the end of
the line ends it well.

**NeoExec.** `TenureInv` ties the program counter to the wires: between START and
STOP the bus has seen the first `BytesSent` bytes of the command and the last
acknowledge told the slave whether another byte is wanted. From it each step is
a step of `TwiBus` or leaves `wire` alone. `ProgressInv` says that what was sent
since `Run` is the concatenation of the finished commands and a beginning of the
current one; the acknowledge marks are matched against the wire the same way,
one printed entry against one byte.

**NeoGrammar.** `Ahead(pos)`, what the cursor has before it, is always the rest of
the spelling. `Reads` says so between two commands (`Between`) and, with one
predicate for each loop (`InAddr`, `InPayload`, `InRun`, `InRunBits`, `InTail`,
`InCount`, ...), in the middle of one (`Within`): which group and which of its bytes
or digits come next, what the accumulator is worth, and that the bytes in the pool
followed by those still ahead are the bytes that were meant. A step of a loop
(`Outcome`) goes on with the text, moves one byte from what is ahead to the pool,
or ends the command with nothing left over; so no step rejects. What a separator, the
end of a group or the next command looks like from within a loop is in
`SelectorAhead`, `GroupEndAhead` and `CmdAhead`: here `Spellable` is needed.

**NeoRepl.** `RInv` is the parser's `IInv` and that `s_txn` is not written while
the executor runs. An accepted transaction is in `Promised` by
`CommandsWellFormed` and `SlicesTile`; the executor's steps are steps of
`NeoExec`, and those of the parser and the user stutter in it.
`DoneAsMeant` speaks of prompts only; `MeantInv` says what stands between two of
them. While a line is parsed the bus still owes it some bytes (`Owes`): those of the
intent it spells, by the argument for `RoundTrip`; none if it asks for a port byte
(`ReadsOut`, the same argument for the special command) or is no line of either sort.
While a transaction runs, what the bus has seen is what it had seen before, followed
by what `NeoExec` has sent of this one (`Sending`), and a port that does not show the
last byte asked for has the command that drives it before it (`Driving`). A call
of the HAL adds the same bytes to both sides (`SentGrows` of `NeoExec_proofs`),
and `SentAsMeant` says that the commands decoded send the bytes meant.
`intent` and `sends` record what the user meant, so the theorem needs to know that a line that
spells nothing was not meant to do anything: `OthersOnlyPrint`.

**NeoShell.** `ScreenTellsTheTruth` speaks of a terminal that is a fold over all
that was printed. `ScreenInv` compares two terminals: one fed with what was
printed (`Shown`: on the screen, in the FIFO, waiting), one with the transcript
(`Transcript`, of the way of showing lines that the code has: `AsCoded` is the
witness for the property's `\E`). Below the two or three rows of banner and greeting (`Heading`) the first has
the rows of the second up to blanks on the right (`Matches`, `SameRow`), and the
cursor in the same column. A blank overwritten by the erase sequence is why rows
cannot be compared for equality. Every action adds the same text to both, but
for the erase, where one gets BS, blank, BS and the other loses its last character:
there the cursor must stand at the end of its row, which holds because every
page of the transcript ends in a line feed (`Fresh`) and a prompt and typed
characters only append. That needs an empty line to have its own line feed,
so `LINE_MAX` must not be 0. `BannerInv` says what the second set-up of the
UART may cut off: any part of the banner, and nothing else.

**SpiFlash.** `ReadyInv`: a flash that is known to be ready works only while the
driver polls it, on the frame the driver sent last. `CallInv`: during a write or
an erase the array is what it was before the call or that with the frame carried
out. `HugeInv`: from the offset of the huge write on, its sector is erased
(`Ahead`), also where the address folds at the end of the flash.

**SerialHal.** `PlaceInv`: a call is in one place at a time, the FIFO, the engine
or the answer, and nothing else is anywhere; `Todo` reads the abstract call off
that place. Three moments need a word of their own: the TWI entry that is in the engine
and, for a clock, in the FIFO; the received word that is on its way into
the FIFO (`WordThere`), which is there once the controller had the clock that the
CPU waits for; and the chip-select command that is still queued when its call
has returned, for which the same clock is enough.

**BootLoader.** The invariant speaks of the flash as it will be when the work at
hand is done (`Settled`): then a reset, which may come while the flash is busy,
changes nothing in it. `KeptInv` says how much of the program being stored is in
the flash: first the data, a byte at a time, then the header, word by word. As
long as the size word is not whole it still has an erased byte at its top, which
makes it larger than main memory: the copy then runs into an address that is not
`Mapped` and traps. Once it is whole, all data is in the flash (`FlashHeader`).
This is why a load can never end with a part of a program that a reset cut off.
`StoreInv` says which sectors are erased when (`Blank`), `LoadInv` that the copy
loop has copied the words before `i` and added them up, so that what it compares
at its end are two sums. `FetchInv` draws the conclusion for loads from the
flash. In an upload a changed word changes the sum, since adding a word modulo
`WORD` can be undone (`SumTells`). A program of which the header does not fit beside its data
is programmed over bytes that are not erased. Programming only clears bits, the
sum of what results may equal the checksum by accident, and no invariant can say
what was loaded: hence `Covered` in `LoadsWhatWasStored`, and `AllCovered` in the
theorems that speak of all programs.

**DualCore.** `RequestInv`: core 1 reads a request while it stands, and core 0
makes the second only when core 1 has left the first behind. `ImageInv`: the
boot ROM's start-up code is left only for the application's. `LockInv`: the
lock's word says whether a core holds the console, and a reservation that stands
says that the word is still what its owner read. A core that reports a failed
launch has not come to the lock yet, so it holds nothing.

### 4.4 Lemmas on data

The provers cannot use the library's induction theorems, whose parameter is an
operator. `SequenceInduction` therefore argues with *sets*: `LeastNat` and
`SetInduction` say that a set of numbers with 0 and the successor of each member
is all of `Nat`, and a property of sequences is proved for the set of lengths it
holds at. So are proved what `FlattenSeq` returns for an appended, a grown or a single
member, what a flattened sequence is from its k-th member on (`Onward`), and what
slices, suffixes and reversals are. `NeoShell_proofs` does the
same for the terminal: `FoldExists`, `TerminalEmpty` and `TerminalAppend` say
that `FoldLeft` feeds the terminal one character after another, which the
definition, a choice over subsets of indices, does not say by itself.
For `BootLoader` the folds are sums over sets: `GatherExists`, `GatherAny` and
`GatherAgree` say that a fold with a commutative operator may take the members of
a finite set in any order, from which `SumNext` (one more word) and `SumTells`
(one changed word) follow. `PowerNext`, `ValueDigits` and `WordOfBytes` relate a
word to its bytes, for any base and width.

### 4.5 What the proofs found

* `Landed` was wrong for a write at the end of the flash: the set of addresses a
  write is meant for was folded into the array before it was compared with the
  page. `Span` now names them unfolded. TLC had no job there.
* `CommandsWellFormed` promised less than the executor needs: the theorem of
  `NeoRepl` asked for the direction bit of the control byte. It is in the
  property and in the parser's proof now.
* `BootLoader` had sizes that no memory map has: main memory has to end below the
  address whose top byte is all ones, or a size that is only half written could
  be in bounds; and the flash needs a sector more than main memory, because the
  store erases one more than it needs. A signature of all zeros or ones would be
  found in a flash that was never written. All three are in the assumptions now.
* A program that does not leave room for the header is not merely refused by the
  next load: for some contents the checksum of what was programmed over unerased
  bytes is right by accident, and a program starts that no one stored. `AllCovered`
  is therefore a hypothesis and not a convenience. The run's programs have no
  such accident.
* `NeoExec` needs nothing of its caller but `TxnsAssumption`; the limits on the number of
  commands and on counts play no part in its theorems.
* `DoneAsMeant` holds only if a line that is recorded as no transaction is none:
  among `LINES` no accepted line may write, read or drive the port. The comment at
  `TypeOther` said so in words; `OthersOnlyPrint` states it.

### 4.6 Only model-checked

* Liveness (`Terminates`, `Returns`, `Answered`, `Settles` and the like): there is
  no rule for it in these provers.
* `NeoFormat`: numbers to digits; its reference enumerates the splits of a text.

## 5. Divergences between code and documents

Shown by runs:

* `boot_auto`: `software_bootloader.adoc:191-192` says that the console is started
  if no valid executable can be fetched. A store writes signature, base and size in
  this order (`system.c:251-255`). If a reset cuts it behind the signature, the size still
  reads as erased flash: the automatic boot accepts the signature, copies until a
  store leaves main memory and halts in a panic (`system.c:150`), at this and
  every later reset. A key pressed before the automatic boot is the way out.
* `flash_huge`: `neo_spi_flash_write_huge` hands the same pointer to every page
  (`spi_flash.c:287`), so that every page receives the first page's data.
* `dual_starve`: `docs/datasheet/soc.adoc:655` promises mutual exclusion "without
  starvation". An LR that no SC follows leaves a reservation behind that the
  other core may only replace in its own turn (`neorv32_bus.vhd:920-923`), and
  the turn changes at a successful SC alone. With core 0 in the lock and core 1
  spinning on it, core 0's `spin_unlock` fails for ever; `spin_check`, an LR by
  itself, blocks core 1 in the same way when the turn is core 0's. A write by
  anyone into the lock's 64 bytes would end it; the model has none.

Seen while modelling and not run:

* `inc/neo_parser.h:46-49` calls 160 command slots a comfortable headroom for a
  line of 1024 bytes; the shortest command has five characters (`hA0a0`), so a
  line holds 204 and the parser rejects it.
* `README.md:57` allows read counts up to `h3FE`; `parse_read_tail` looks for a
  command first (`neo_parser.c:363`), so a count that begins with A0..A3 opens a
  second command.
* `neo_exec.c:106-111`, the help text and `README.md:62-63` promise one STOP at
  the end of a chain; `exec_write` and `exec_read` each send one. `TwiBus` and
  `BusReleased` are stated so that both ways fulfil them, and say nothing here.
* `inc/neo_uart.h:33-34` says that what exceeds a line is dropped; it stays in the
  FIFO and becomes the next line. `ScreenTellsTheTruth` is about the lines that
  are taken and does not say which keys make one.
* `neo_app_run` sets the UART up a second time right behind the banner, which
  clears the transmit FIFO and the banner's end with it (`neo_app.c:21`).
* `inc/neo_io.h:22` gives `%d` a precision. A negative number with more digits
  asked for than it has gets its zeros in front of the sign (`%.3d` of -5 prints
  `0-5`), and one digit too few: `emit_padded` counts the sign as a digit. This
  is what `PrintsC99` sets aside as `PaddedNegative`. `%hd` and `%hhd` are read
  and print the int unnarrowed.
* The bootloader erases `g_exe_size / 64K + 1` sectors (`spi_flash.c:146`) and
  writes 16 bytes more. A program that leaves fewer than 16 bytes of its last
  sector free runs into a sector that is not erased; the store still says OK, where `software_bootloader.adoc:266` says that it was then
  successful. The next load usually fails its checksum, and for some contents passes
  it by accident (section 4.5).
* Neither base address nor size is covered by the checksum, so a damaged base
  loads the program elsewhere and starts it there.
* A launch that returned -2 may still start core 1 later. The demo prints the error
  without the lock (`demo_dual_core/main.c:104`), in the midst of what core 1 prints
  then; the comment at `main.c:110-111` says that access to UART0 needs to be exclusive.
  `Exclusive` has this print as its exception.
* `inc/neo_parser.h:91` calls `error_pos` an offset within the input; it is
  counted from behind leading blanks.
* `README.md:76-78` shows read data without a sign; the code prints `-` after
  every byte, and the unit tests expect that.
* `inc/neo_uart.h:29` says characters are not echoed; `neo_uart.c:50` passes
  `echo = 1` below a comment against it. `ScreenTellsTheTruth` allows both.
* A received NUL is stored in the line and ends it for the parser
  (`Parsed` in `NeoShell`), where `README.md:43` calls other characters errors.
  The screen agrees with the line only for printable keys: erasing a character
  that the terminal does not show also erases one that it does.
* The payload limits of 1022 and 2044 bytes cannot be reached with a line of
  1024 characters.
* A huge write that does not start at a sector's base programs pages it has not
  erased and later erases pages it has written.
* A flash write right after a restart, without a check first, may be lost
  without an error.

## 6. Not modelled

* The helpers in `utils*.c`: stateless reads of linker symbols.
* `neo_io`'s null backend, the warnings of absent peripherals, the wording.
* Of the controllers: set-up, interrupts, clock dividers, FIFOs deeper than one.
  GPIO is a register.
* Of the bootloader: the TWI flash, the SD card with petit FatFs (both compiled
  out by default), flow control and UART overflow, the information command.
* Of `image_gen`: the other output formats, which print the same words.
* Of the second core: its runtime environment's traps, caches, and programs
  other than the demonstration.
* The NEORV32 core and its other peripherals, their HAL, the example programs,
  benchmarks and self tests, the headers of a closed Windows driver, the unit
  tests and scripts. They are nine tenths of the repository's lines: vendored
  hardware descriptions, register definitions, straight-line instruction tests
  and benchmarks that the firmware neither calls nor waits for. Modelling them
  would show nothing about this program; what the firmware does rely on below
  its own sources is what sections 2.4 to 2.10 model.

## 7. Plan

1. Done: `NeoParser` and its proofs, `NeoGrammar`, `NeoExec` with `TwiBus`,
   `NeoShell`, `SpiFlash`, `NeoRepl`, `SerialHal` with `SerialBus`, `NeoFormat`,
   `BootLoader`, `DualCore` with `SharedConsole`.
2. Done: the theorems of section 4.
3. Left: what section 4.6 names.
