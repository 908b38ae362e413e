# A TLA+ verification of simulavr-oseid

The program is simulavr 0.1.2.2, a simulator of AVR microcontrollers in C with
a gdb server, patched for the OsEID smart card firmware. Paths below are
relative to `src/simulavr-0.1.2.2/src/` unless they start with `doc/`.

The modules here model its core, its breakpoints and program memory, its
stacks, its timers, its gdb server, the instructions that compute, move data
and branch, the device tables of the supported chips, SPI, UART, A/D converter,
USB registers and the OsEID devices under the core's step loop, and the display
coprocess that writes VCD files. TLC checks them on small instances. TLAPS proves
for every value of the constants what is said of the core, the breakpoints, the
memory stack, the gdb server, the devices and the VCD file, but for liveness;
and of the decoder, for registers of every width, that routines which add,
subtract, compare, multiply, shift and mask numbers of two registers, by the flags
of each instruction, give those of the integers, that copies and skips do what
they should and take the same clocks on all data, and that execution never runs
into an operand.

## 1. Inventory

The simulator is one thread. Its "concurrency" is that of cooperating
callbacks: devices hang callbacks into two lists of the core, and reads and
writes of memory cells, resets and debugger packets change the devices in
between. A second source of interleaving is the debugger at the other end of a
TCP connection, a third is SIGINT, a fourth the display coprocess at the other
end of a pipe.

| Component | State | Operations | Talks to | What is hard, and what makes it correct |
|---|---|---|---|---|
| Core (`avrcore.c`, `callback.c`, `intvects.c`) | PC, SREG, CK, inst_CKS, state, pending interrupts, callback lists, breakpoint list | step (execute, clock callbacks, async callbacks, interrupt check), run, reset, raise and clear an interrupt | calls every device through callbacks and resets; is stepped by `main.c` or the gdb server | lists changed while walked, stale nodes after reset, order of interrupts. Correct: a vector is pending once, is taken with interrupts on and not after RETI, returns to what it interrupted; a device has one node per list; nobody starves |
| Lists (`utils.c`) | nodes | add if absent, delete the first equal, look up, iterate with removal | used by the core three times | removal inside iteration |
| Timers (`timers.c`) | TCCR, TCNT, TIMSK, TIFR, pointers to installed callbacks | register writes, clock callback, interrupt callback, reset | core lists, interrupts | pointer and node are two pieces of state |
| Breakpoints, flash (`avrcore.c`, `flash.c`, `storage.c`) | flash words, list of (pc, saved opcode) | insert, remove, disable all at a hit, debugger writes | gdb server, decoder, SPM | two writers of one word. Correct: the program is never lost |
| SPM (`spm_helper.c`) | SPMCSR, page buffer | write SPMCSR, SPM | flash | uninitialised state, writes under breakpoints |
| Stacks (`stack.c`) | SPL, SPH and memory; or an array | push, pop, write SP, reset | decoder, core | byte order, wrap of SP, wrap of PC. Correct: returns return, POP gives back what PUSH stored |
| gdb server (`gdbserver.c`, `sig.c`) | mode of the connection, static flags `block_on`, `is_running`, `last_reply`, `global_server_quit`, signal flag | accept, parse, run loop with polls that parse again, stop, kill, resend | steps and resets the core, sets breakpoints, reads and writes memory | re-entrance, static flags, late ^C, retransmission, SIGINT, lost connections. Correct: replies match requests, a stop is final, a ^C is answered, a poll does not block |
| Decoder, ALU, registers (`decoder.c`, `register.c`) | 32 registers, SREG, X/Y/Z | one function per opcode | core, memory, stack | flag arithmetic at the edges, 16-bit results, clocks per instruction |
| Memory (`memory.c`, `device.c`, `sram.c`) | cells: device, masks | read, write, attach, reset all | every device | dispatch, masks, devices that own several cells, reset once per cell |
| SPI, UART, ADC (`spi.c`, `uart.c`, `adc.c`) | control and status registers, shift counters, pointers to installed callbacks | register access, clock and interrupt callbacks, reset | core lists, interrupts, each other (control unit and data register find one another by address), external data | clear-on-read protocols, toggled flags, stale and duplicated callbacks. Correct: one interrupt for each event, none forgotten, a counter runs while it counts, what was started ends |
| Ports, external data (`ports.c`) | PORT, DDR and the pins | register access | memory | a function of two registers and the input |
| OsEID devices (`OsEID.c`) | FIFO with its length, EEPROM | FIFO commands through stdin and stdout, EEPROM access | memory, the card reader | length below zero and above the buffer, reset that forgets the length. Correct: the FIFO is a queue |
| USB (`usb.c`) | registers, byte counts of the endpoints | store what is written; a read of a status register asks a person | memory | memory that no constructor initialises |
| Device tables (`defn/`, `devsupp.c`, `intvects.c`) | static | build a core from a table: attach each row to a new device or to one at another address | all devices | three tables that must agree. Correct: no row is refused, related devices find each other, every interrupt has a vector |
| EEPROM, watchdog, MCUCR, ACSR (`eeprom.c`, `timers.c`, `devsupp.c`) | registers | - | - | no table in `defn/` attaches them, so no program reaches them |
| Display, VCD (`display.c`, `disp-vcd/`) | the simulator's end of the pipe; the coprocess's clock, SP, bound registers and file | a message for every change; quit, signal, wait | core, stack, memory; another process | a pipe that fills, two processes and one ^C, a header that has to come first. Correct: the file says what the machine did, times increase, closing ends |
| Curses display (`disp/`) | - | the same messages, painted | - | output only |
| Start-up (`main.c`), memory allocation, errors, classes | - | - | - | `avr_error` exits: it is the `exit` of every module |

The hazards at their lines are in `PROJECT.json`, "hazards", each with the
properties that would catch it.

## 2. Plan

In this order, the most important behaviour first; 1 to 14 are done.

1. `DList`, `Timers`, `AvrCore`: the step with callbacks, interrupts, resets
   and the debugger between steps.
2. `Interrupts`: what the core promises a program, implemented by `AvrCore`.
3. `Breakpoints`: program memory and all its writers.
4. `MemStack` and `HwStack`, with `ControlStack` as what they owe a program.
5. `GdbServer`: the server and a debugger.
6. Proofs: list lemmas; types and uniqueness of the pending list; callback
   sweeping; the core implements `Interrupts`; breakpoints.
7. `PROJECT.json`: runs, mutants, findings, hazards.
8. `Alu`, `Decoder`: the instructions, their flags, clocks and skips, checked
   by what compiled routines (`DecoderRoutines`) compute with them; the flags
   proved exact.
9. `Devices`: the tables of the chips, and the core built from them.
10. `Bus`, `Spi`, `Uart`, `Adc`, `OsEID`, `Usb`: one module for each device, on
    the callback lists of `DList`.
11. `Peripherals`: they and the step loop composed, under any program and a
    debugger.
12. `Display`: the simulator, the pipe and the VCD coprocess.
13. Proofs: the server never confuses replies, never waits in a poll and stops
    for good; the devices count, interrupt, serve and queue correctly.
14. Proofs: the memory stack implements `ControlStack`; the VCD file declares,
    orders and follows; the types of all devices, and that what is pending has
    a vector; all routines of the decoder, the program counter and the clocks,
    for every width.
15. `Timer16`: TEMP and the two-byte accesses, with an interrupt handler that
    uses the same TEMP.
16. The instructions on I/O registers, LPM and ELPM in `Decoder`.

## 3. Modules

### `DList`, `DListProofs`
The lists of `utils.c` as sequences. `DListAdd` appends unless a node compares
equal, `DListDelete` removes the first that does, and a comparison function is
a key. `IteratorVisit` and `IteratorNext` are one turn of `dlist_iterator`'s
loop; a position stands for the node pointer. The loop reads `node->next` after
the node was freed; in the C library's allocator `next`, at the fourth word of
the block, survives the free, and the model takes that outcome. `DListProofs`
proves what a delete does to uniqueness, type and the set of elements.

### `Timers`
Timer 0, timer 1 and their common TIMSK/TIFR unit. That a device's callback is
installed is two pieces of state, as in the code: the node in the core's list
(`clk_cb`, `async_cb`) and the pointer in the device (`clk_ptr`, `intr_ptr`).
`TccrSelect`, `TccrStop`, `TimskWrite`, `TifrWrite`, `TcntWrite` are register
writes, `ClkIncrCb` and `TimerIntrCb` the callbacks, `TimersReset` the resets.
`timer->ocra` and `ocrb` are never assigned, so a tick of timer 1 compares with
arbitrary memory: `CompareOutcomes` is a choice. (`timer->ti` is not
initialised either; the model takes the builds in which it reads as NULL or as
the device, since otherwise the program crashes.)

### `AvrCore`
`phase` says where `avr_core_step` is: `step` (about to execute), `clk` (in the
clock loop; `node` is the list position and `inst_CKS` the clocks left),
`async`, `check`, or `exit` after `avr_error`. Each visit of a node is one
action, so that a list is seen between two nodes. The program is every
program: instructions that touch the state (OUT to the timers, SEI, CLI, RETI,
BREAK, SLEEP, WDR) are one action each, and `ExecOther` is all others. Code
addresses are abstracted to "main" and the handlers. `gpwr_clear` says that no
register was written since the reset: the reset clears the registers, so the
first OUT after it can only write a zero, which is what saves the callback
lists from duplicates. Debugger actions happen between steps. The debugger
writes neither PC nor SP: with these it can send a program anywhere and no
return address means anything.

### `Interrupts`
The abstract specification: a set of pending interrupts, an enable flag, the
frames of running code. `KeepsInterruptPromise` maps the list to its set, the
return stack and PC to the frames, and "the last instruction was RETI" to
`resumed`.

### `Breakpoints`
Flash words are sets of one-bits, so erasing is the full set and programming a
page is intersection. `program` is a history variable: what flash would hold
if breakpoints did not exist. `Inserted` and `Removed` are the list operations
from state to state; `HitBreakpoint` is `avr_core_disable_breakpoints` after a
BREAK; `WriteFlash` is a word, or a byte of one, of an 'M' packet; the `Spm...`
actions are `spm_run`. SPMCSR and the page buffer start with any value, as they
are never initialised. `avr_core_enable_breakpoints` has no caller and is not
modelled.

### `ControlStack`, `MemStack`, `HwStack`, `MemStackProofs`
`ControlStack` is what a stack owes a program. `MemStack` is the stack in data
memory: bytes in memory, SP in two registers set one at a time, 16-bit wrap,
PC adjustment at the end of flash. It maps what lies in memory to the items of
`ControlStack`. Its programs use memory that stores (holes are allowed outside
the stack), pop as they push, and set SP while the stack is empty. Pushes of
four bytes, which a comment allows and the code refuses, are made by nothing.
`HwStack` is the array of the devices without SRAM. Programs do not nest more
calls than the stack has words; `callers` is history.

### `GdbServer`, `MCGdbServer`, `GdbServerProofs`
`phase` is where the server is: in `accept`, in the main loop, at the top of
`gdb_continue`'s loop (`run`), in its poll, after it (`polled`), or gone.
`loops` is the stack of `gdb_continue` activations, because the poll calls the
same parser. `blocking` is the mode of the connection and `block_on` what
`gdb_pre_parse_packet` believes. A packet is what its handler does to the
server; acknowledgements by the server are left out. The debugger is the
environment: it sends one request at a time, a ^C while it waits for a stop,
acknowledges replies, and, by its `habits`, sends packets again, refuses replies,
kills a running program or goes away. Which debugger connects is chosen at
first among the constant `Debuggers`. SIGINT only sets a flag, and makes a
waiting read or accept fail. A packet arrives whole: a connection lost in the
middle of a packet ends in the same `avr_error` as one lost between packets.
A retransmitted 'c' that the server reads after the stop starts the program
again (the protocol has no sequence numbers); `StopIsFinal` is about copies that
arrive while the program runs.

### `Alu`, `Decoder`, `DecoderRoutines`, `MCDecoder`, `DecoderProofs`
`Alu` has the flags as the code computes them, from single bits of operands and
result; registers have any width. `Decoder` has one action for each handler
(one for the handlers of X, Y and Z that differ in the register pair only). The
decoding of opcode words is abstracted to records. Data memory is the registers,
some cells of SRAM, and addresses without a device; I/O registers belong to
their devices and are not reached. The model runs one routine on one input,
possibly with a breakpoint; `BREAK` returns to the debugger, which removes it.
The debugger does nothing else while a routine runs. Not in it: IN, OUT, SBI,
CBI, SBIC and SBIS, LPM and ELPM, the calls and jumps through EIND; calls, stack and
core control are in the modules above. LDD and STD compute an address above
0xffff without wrapping, which in the code is outside of the array of cells
(`decoder.c:1600`); no routine does that. A bit is named by its weight, so that
`1 << b` of the code is `w`; logical operations are on the sets of weights of
the bits that are set. `DecoderRoutines` has the routines, in the
forms compilers give them, and says what each computes in terms of integers;
where the debugger may have breakpoints: on any instruction but one of two
words behind a skip (`BreakpointsAssumption`), which `BREAK` would make one of
one word. `MCDecoder` has the inputs and the breakpoints of the run. The routines
take registers of any width; those that shift and mask need it to be a power of
two whose nibbles are two halves (`BitsAssumed`, in `Alu`).

### `Devices`
The tables, row by row: register name and address, the class of device the row
creates or the address it refers to, the related address its data gives.
`Attached` is `dev_supp_attach_io_regs`, folded over the rows in their order:
which cell belongs to which device, and the first row the core would refuse
(an address below 0x20, a reference to an empty cell, a name the device does not
know, an address outside of memory). `devices_supported` has all chips of
`devsupp.c`; the rows of many are the same but for their addresses, so those of
`Port`, `Timer0Rows` and the like take them as arguments. Masks and reset
values are left out. `AddAddrNames` is the list of names a device's `add_addr`
accepts.

### `Bus`, `Spi`, `Uart`, `Adc`, `OsEID`, `Usb`
`Bus` is what the devices see of the core: the two callback lists and the
pending interrupts. As in `Timers` the pointer in the device (`clk_cb`,
`intr_cb`) and the node in the list are two pieces of state. Each module has
one operator for each branch of the device's read and write functions that
changes state, for its callbacks and its reset. A counter is the code's, a
16-bit one where the code has one; the divisor is what the control register
selects. The data that is shifted or converted is left out, since no flag
depends on it. `Spi`: every write of SPCR with SPE adds a callback and
forgets the pointer to the former. `Uart`: UDRE toggles, and `shadow` is the copy from
which interrupts are raised. `Adc`: free-running conversions keep their callback.
`OsEID`: the length is 16 bits and does not stop at zero; the control and data
lines are what a reader types, a byte being one of a small set. `Usb`: nothing
acts; reads of status registers take what a person answers.

### `Peripherals`, `MCPeripherals`, `PeripheralsProofs`
The step loop around these devices; a visit of a node is one action, as in
`AvrCore`. Accesses of the program and of the debugger are the same action, but
the program's are followed by clocks. `session` chooses a chip, the devices in
use and whether a debugger is attached; a run takes one device at a time,
because devices share nothing but the lists and the iteration of these is
checked with several devices in `core_safety`. The program has two manners: it
writes UDR first or with UDRE set, and neither pops an empty FIFO nor overfills
it (nothing else would make the length mean anything). `owed`, `unsent` and
`queue` are histories: events without an interrupt yet, bytes without a frame
yet, what the FIFO should hold. `quiet` is the moment after which nobody touches
the devices. An access without a branch in its device ends in `avr_error`,
`ExecBadAccess`; so does a write of USR, which `uart.c:236` compares with USR's
value instead of its address.

### `Display`, `MCDisplay`, `DisplayProofs`
`out` is what the current operation of the simulator has still to write, `pipe`
what is under way, `child` the coprocess: its phase in the loop of `main`, clock,
stack pointer, the I/O registers bound by name, and the file as a sequence of
entries. A write blocks on a full pipe, is interrupted by a ^C, is tried again
once (`display_send_msg`), and raises SIGPIPE without a reader. `no_xterm` says
whether the ^C of the user reaches both processes. The coprocess may fail to
start, and crash at the name of a traced I/O register: the pointers that
`vcd_bind_io_reg_shortcut` frees were never set. `config` is what `vcd.cfg`
asks for. `disp-vcd/config_scanner.c` and `config_parser.c` are generated.

## 4. Runs

| Run | What it shows |
|---|---|
| `core_safety` | Type, uniqueness of pending vectors, return chain, one node per device, swept lists, no divisor of zero. Two timers with counters of one bit and prescalers 1 and 2, resets by debugger and by interrupt, an irq without a vector, nesting 1. |
| `core_promise` | `AvrCore` implements `Interrupts`, every pending interrupt is served or dropped by a reset, and the mainline runs; with a debugger that writes registers, resets and raises interrupts. |
| `bp_transparent` | Breakpoints are transparent, and a hit gives the program back, as long as no word under one is written. |
| `mem_stack` | The memory stack implements `ControlStack`, with a hole in memory, the stack across SP's wrap, and a flash so large that the address after its last word is truncated when it is pushed. |
| `gdb` | With a debugger that follows the protocol or goes away: replies match requests, polls do not block, a ^C is answered and a kill of a stopped program ends the session. With one that also sends packets again, refuses replies and kills a running program: a stop is final. With SIGINT at any moment. |
| `alu` | 27 routines on numbers of two registers: sums, differences, comparisons, products of four registers, shifts, copies through pointers and skips come out as those of the integers, with all flags; the number of clocks is the same on all data; the PC never points at an operand. With a breakpoint on any instruction of three of the routines, but for two-word instructions behind a skip. |
| `io_devices` | The tables of every chip agree. Under any accesses and resets, with one device in use: no transfer, frame or conversion raises more than one interrupt (`InterruptsEarned`) and none whose interrupt is enabled is forgotten (`FlagsServed`); a counter and its callback start and end together, with a divisor and a node (`CountersRun`); TXC means that all is sent; the FIFO is a queue; and what was started ends when nobody touches it any more (`DrainsWhenQuiet`). |
| `display` | The file of the VCD coprocess declares its signals first, its times increase, it says of the machine what the machine was but for what is under way, and `display_close` ends; with a pipe of two messages, ^C for one or both processes, a coprocess that fails to start or crashes, and three configurations. |

Runs that end in a violation, each a disagreement of the code with its own
documentation that takes several steps to see ("findings" has the quotes):

| Run | The code |
|---|---|
| `doc_incrementor` | reset and a debugger write before the next clock: two clock callbacks for a timer |
| `doc_hit` | a hit loses what was written under a breakpoint |
| `doc_hw_stack` | nested calls lose return addresses on the hardware stack |
| `doc_poll` | a packet during a run makes the next poll block |

Disagreements that need no run to see:

- `avrcore.h:74` "head of list of pending interrupts (sorted by priority)":
  the list is in order of arrival (`avrcore.c:258`).
- `timers.c:549` says the overflow flag keeps the interrupt pending "until
  manually cleared (writing a one to the TOV0 flag) or interrupts are enabled":
  `timer_intr_cb` clears the flag when it queues the interrupt, and clearing
  the flag by hand does not take it back.
- `decoder.c:726` "When a break occurs, we will return control to the caller
  _without_ incrementing PC": the same step may then vector to a handler
  (`avrcore.c:1083`).
- `decoder.c:2908` gives SLEEP one clock: it ends the simulator (`decoder.c:2912`,
  `memory.c:168`), and so does WDR.
- `gdbserver.c:1415` "This keeps the simulator server up so you don't have to
  restart it with every gdb session": a connection closed without 'k' or 'D'
  ends it (`gdbserver.c:154`).
- `gdbserver.c:113` "There are a couple of nested infinite loops, this allows
  escaping them all": the main loop never tests `global_server_quit`.
- `gdbserver.c:245` "Save the reply to last reply so we can resend if need be":
  the saved reply is freed before it is copied (`gdbserver.c:218`); `Nak` has
  the outcomes.
- `avrcore.c:983` "Reset vector is not controlled by the SREG(I) flag": a reset
  behind another interrupt in the list waits while that one is masked
  (`avrcore.c:1000`).
- `gdbserver.c:1148` "Reset the simulator since there may be another connection
  before the simulator stops running": after a kill that arrives during a run
  the debugger gets "OK" and then a T05, and the session stays open
  (`gdbserver.c:1008`).
- `decoder.c:318` "See if next is a two word instruction": a breakpoint on a
  two-word instruction hides it, and a skip over it lands on the operand.
- `adc.c:230` "no interrupt are enabled, remove the callback": a write of ADCSR
  without ADSC removes it with ADIE set, also while a conversion runs, and the
  interrupt waits for the next start.
- `adc.h` has the converter find its control unit by a related address; the
  rows of the at43usb351 and at43usb353 name none and `adc.c:326` leaves the
  member as `malloc` did.
- `display.c:178` "Close a display and send coprocess a quit message": the
  SIGINT behind it makes the coprocess leave with messages unread.
- `disp-vcd/disp.c:394` takes the end of the pipe for "no data": when the
  simulator ends in `avr_error` the coprocess goes on for ever.
- `disp-vcd/vcd.c:725` computes a time in nanoseconds in 32 bits; `Display` is
  about runs shorter than that.
- `decoder.c:2207` says of MULSU "Rd(unsigned),Rr(signed)": Rd is the signed
  operand, as in the instruction set (`decoder.c:2218`).
- `avrcore.c:1156` "Zeroes out PC, IRQ's, clock, and memory": neither CK nor
  SRAM is cleared.

### Bounds
- Counters have one bit (`TcntModulus`), CK is kept modulo `CKPeriod`, a
  multiple of the prescalers: overflow happens in a few steps, every phase of
  CK and counter occurs. Proofs are for every value of these.
- `MaxDepth` stops SEI at that nesting, which is 1: a handler, with another
  interrupt pending, over the mainline. Deeper nesting is covered by the proofs
  of `ReturnChain` and `KeepsInterruptPromise`, which hold for every `MaxDepth`.
- `MaxNodes` stops debugger writes once the lists are that long: in that run
  duplicates exist, and need not be unbounded to break the promise.
- Two pages of one word of two bits, one bit in each byte: erased, BREAK, empty
  and another word are distinct, and byte writes and page programming show.
- `Byte = 3`, so that SP has nine values and an address two bytes; `PC_max = 9`
  is all that two bytes hold.
- `MaxSent`, 3 messages in either direction: a request, a ^C and a
  retransmission can be under way together.

- Registers of four bits (`Half = 8`): carries out of and into both nibbles, and
  numbers of two registers. X takes every low digit, and high digits on both
  sides of each carry; Y's digits are such edges; the status register starts
  empty or full. That what the routines compute is right at every width, on
  every input, is proved.

`core_safety` has no debugger register writes, because with them
`OneNodePerDevice` is false (`doc_incrementor`). `bp_transparent` has no writes
under breakpoints, because with them `Transparent` is false (`doc_hit`).
`RepliesMatch`, `OrderlyPollsDoNotBlock`, `InterruptStops` and `KillEndsSession`
are about an `Orderly` debugger: with retransmissions the poll blocks
(`doc_poll`), and a kill inside a run is taken for a stop. In `gdb` the
other debugger sends no 'C01': a reset that arrives during a run
answers S05 and the run goes on; gdb sends no such packet then.

- Peripherals: a frame of two bits and conversions of two clocks, divisors 1
  and 2 and `CKPeriod = 2`, so that a count passes through zero in a few steps
  at either phase of the clock. `MaxNodes = 3` callback nodes: two of one
  device beside one of another list. A FIFO of three bytes whose reset clears
  two, length modulo 6: empty, full, wrapped. EEPROM addresses of two bytes of one
  bit. Two endpoints, and a register of each kind.
- Display: two values, two operations of the simulator after start-up, two ^Cs,
  a pipe of two messages: it is full and empty in every operation, a write is
  interrupted twice, and the file has several times.

### Fairness
`AvrCore`: `WF_vars(Step)`, because `avr_core_run` and `gdb_continue` step
in a loop without waiting. The program's part (`ProgramFairness`) is a
condition on programs: handlers return at every nesting, and the mainline
enables interrupts again and again. It is strong fairness because instructions
compete with one another.

`GdbServer`: `WF_vars(Server)`, the server's thread, whose only waits are
the reads and `accept` (not enabled when nothing came); this includes that a
step of the core returns, which holds as `avr_core_step` has no unbounded loop.
`WF_vars(ClientReceive)`: gdb reads what it is sent. Nothing is assumed of
what the debugger sends.

`Peripherals`: `WF_vars(Step)`, as for `AvrCore`; no fairness for any access.
`Display`: `WF_vars(ParentStep)` and `WF_vars(ChildStep)`, both processes are
scheduled; what the simulator does is any of its operations, and none for the
user.

## 5. Proofs

Assumptions are the named ASSUMEs of the modules, on constants only.

- **`AvrCoreProofs`**: `TypeCorrect`, `PendingAlwaysUnique`. The inductive
  invariant is `QueueInv`: types, that there are clocks left inside the clock
  loop (without it `inst_CKS` could fall below zero), and uniqueness.
  `RunningIsPrescaled` is inductive with the types.
  `OneNodeEach` and `SweptBeforeWrites` are for a debugger that writes no registers. `SweepInv` says for each list that, from
  the moment a register can hold a nonzero value, nodes before the cursor are
  those of set pointers, so that at the end of the walk nodes and pointers
  agree; and one node each. A reset at any moment only weakens what is asked:
  `gpwr_clear` is then true, and the next writes can only be zeros.
  `CoreKeepsPromise`, the refinement, uses
  `ReturnsToMainline` and `QueueInv`: deleting the vector taken from a list
  with unique keys deletes it from the set.
- **`BreakpointsProofs`**: `AlwaysTransparent`, `BreakpointTypes` and
  `HitsShowProgram`, for runs without writes under breakpoints, from
  `TransparentInv`: types, unique addresses, `Transparent`. Unique addresses
  are what makes "the last node prevails" at a hit and "the first is deleted"
  speak of the same node. `InsertIdempotent` and `RemoveIdempotent` are about
  the list operations alone.
- **`DecoderProofs`**: `AddIsExact` and `SubIsExact`, that result and carry
  together are the exact sum or difference; `AddSigns` and `SubSigns`, that V
  tells a signed result that does not fit and S is its sign. For all operands,
  carry in, and widths. The argument reduces each flag to comparisons with
  `Half`, and the result to the exact one, less a wrap. From these follow
  `WordsAdd` and `WordsSub`, what two chained instructions give on the digits of
  two words, with C, N, S and V, and the same of H.
  `SumsAreRight`, `DifferencesAreRight` and `ComparisonsAreRight` are about the
  decoder running the routines, with any input and breakpoints anywhere:
  `StepRuns` says that a step either leaves the machine alone or runs the handler
  of the program's word; lemmas such as `AdditionsRun` what that handler leaves.
  The inductive invariant `RunsInv` has a part for each routine (`AddRun`,
  `MaxRun`, ...), which says at each address what the registers hold, which
  carry is in C and whether Z is still about the digits so far. For `addm`,
  the loop over memory, the part is `AddmAt`: which `Turn` of the loop it is,
  what the pointers and the counter are and which digits of the sum are in
  memory already; the carry of the low digits survives the steps of the pointers
  and the DEC. The assumptions are `AluAssumed` (a register has a half),
  `DecoderAssumed` (inputs are numbers of two registers) and `RoutinesAssumed`:
  the program is `Routines`, an address below 128 fits in two registers, and X and Y
  are in memory too.
  `ProgramsStayOnInstructions` is about every routine at once. `Sound` says of a
  program that after each instruction, and at each target of a branch, a jump or
  a skip, an instruction begins, and `RoutinesAreSound` that all are so. A step
  then leads from an instruction to an instruction, if a skip takes what it
  jumps over for what it is. The inductive invariant `FlowInv` therefore has
  that breakpoints are only where `BreakpointsAssumed` lets them be, and
  `JumpRun`, what the pointer of IJMP is at each address before it. Without
  the assumption it is false: `decoder.c:318` reads through the breakpoints.
  `MovesAreRight` and `SkipsAreRight` stand on it. `MovesInv` has a part for
  each routine: for the loop of `copy` it is `CopyTurn`, which digits are
  copied after n turns, what both pointers and the counter are and that the Z of
  INC ends the loop at the fourth; for `skip` and `jump`, `SkipAt` and `EqualAt`,
  which instructions have been executed, by the bits tested, at each address.
  `ClocksAreTheSame` adds that the clocks of straight programs, of those that
  skip and of those that branch over one word are the program counter
  (`SteadyRun`), but for multiplications (`MulRun`) and turns of the loop.
  `ShiftsAreRight` needs what the bits of a number are. `BitsTell` says that a
  register has no other bits than another only if they are the same, and
  `BitsExist` that there is a register with any given bits, so that `WithBits`
  is one; both by the least weight or number for which they fail (`Least`, since
  the induction rules of the library cannot be used). From `BitsAssumed`
  follows that `SWAP` exchanges nibbles, and `ANDI` by `Byte - Nibble` drops the
  low one, as `shl` does to move a whole word up. `ShiftsInv` says at each address
  which bit waits in C or T and where the others are.
  `ProductsAreRight` is about three sums of four products. `ProductsInv` says at
  each address what is still to be added for R23..R20 to be the product, up to
  a multiple of `Word * Word` (`Congruent`): the carry in C one place up
  (`BlockAt`), the sign of a mixed product in C (`SignedAt`), the bit that the
  doubled low product shifts out (`OpensTwice`). The last can be added to the high
  half only since a doubled product is even (`HighProduct`, `CarryFits`).
- **`GdbServerProofs`**: `ServerTypes`, `ServerReplies`, `ServerPolls`,
  `ServerStops`. The inductive invariant is `ServerInv`. For every debugger it
  says that `gdb_continue` never nests and, but for `C01`, that nothing runs
  once the debugger was told of a stop. For an orderly one it adds `Turns`: the
  turn is in exactly one place, a packet under way, a run, or a reply under
  way; a ^C may go beside it, and is answered once. `RepliesMatch` alone is not
  inductive, since it does not see the packets that will make the next reply.
  `ModeKnown` says that the mode of the connection is the one remembered,
  wherever a poll can begin.
- **`PeripheralsProofs`**: `DevicesCount`, `DevicesEarn`, `DevicesServe`,
  `UartSendsAll`, for all devices at once, any divisors and lengths, any number
  of callback nodes. The inductive invariant is `DeviceInv`: a device counts
  exactly while its clock callback is set, which has a divisor and a node; an
  interrupt is owed for each flag that is set, so that a callback which finds
  a flag settles a debt whichever of its nodes is visited; a device that
  enables its interrupt has a node; and in the walk of the asynchronous
  callbacks each enabled flag has a node at or after the cursor. The last part
  makes `FlagsServed` follow at the end of the walk, and needs `StillAhead`,
  what removing a node under a cursor does to the nodes after it.
  `FifoKeepsOrder` has an invariant of its own, `FifoInv`. The assumptions are
  that counters hold the lengths they are loaded with and that divisors are
  positive and have a least one, `SpiAssumed`, `UartAssumed`, `AdcAssumed`,
  that the FIFO is shorter than its count can tell, `OsEIDAssumed`, and what
  programs and readers may do, `PeripheralsAssumption`.
  `PeripheralsTyped` adds `LoopInv`, that inside the clock loop clocks are left
  (the count would fall below zero otherwise), `PendingInv`, that interrupt
  callbacks and pending vectors are those of devices in use and that no vector
  is pending twice, and the types of EEPROM and USB (`UsbAssumed`: the
  count of a setup packet fits in its register). From `PendingInv` follows `PendingHaveVectors`: if
  every interrupt of a device in use has a vector in the table of its chip, as
  `TablesChecked` says of the tables and TLC computes, then `TablesAgree` holds
  of every state, whatever is raised.
- **`MemStackProofs`**: `StackStays` and `StackKeepsPromise`, the refinement of
  `ControlStack`, for bytes and addresses of any size, holes anywhere outside of
  the stack and SP anywhere (`MemStackAssumed`). The inductive invariant
  `StackInv` has the types, that the frames lie one upon another between SP and
  the bottom without meeting round the wrap, and that what they hold are items
  of the abstract stack. Without the second a push could write into a frame
  below it, and the memory under the other frames would not be known to stay.
- **`DisplayProofs`**: `FileDeclares`, `FileTimesIncrease` and `FileIsFaithful`,
  for pipes, values and numbers of operations of any size (`DisplayAssumed`).
  `DisplayInv` has the types; `NamesFirst`, that what is on its way to the
  coprocess begins with the names; `ClocksOrdered`, that the clocks under way
  never decrease, from the coprocess's to the machine's; `FileOK`, that the file agrees with
  the coprocess's phase; and that the last value the file has of a signal, or a
  message on its way behind it, is the machine's.
- **`DListProofs`**: lemmas about the lists.

Only model-checked: liveness (`NoStarvation`, `MainlineRuns`,
`InterruptStops`, `KillEndsSession`, `DrainsWhenQuiet`, `CloseEnds`), which is
beyond the prover; the tables of `Devices`, which are ground facts that TLC
evaluates; and the four runs that end in a violation. Every safety property
that a run checks is stated by a theorem.

## 6. Not modelled

See `PROJECT.json`, "components": the decoder's I/O and program memory
instructions; TEMP and the compare registers of timer 1; masks and reset values
of registers; ports and the data that SPI and the converter take from outside;
the UART's receiver, of which the code has little more than the register; the
curses display, and I/O registers above the first 64 in the VCD file (no
behaviour that others depend on); `eeprom.c`, the watchdog, MCUCR (never
attached); options, allocation and reference counts; generated and vendored
code. Sessions use one device at a time.
