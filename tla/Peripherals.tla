---------------------------- MODULE Peripherals ----------------------------
(***************************************************************************)
(* A chip with its I/O devices: the step loop of avrcore.c around the      *)
(* devices of modules Spi, Uart, Adc, OsEID and Usb.  As in module AvrCore *)
(* a step is an instruction, the clock callbacks once per clock of it, the *)
(* asynchronous callbacks, and a look at the pending interrupts; every     *)
(* visit of a callback node is an action.                                  *)
(*                                                                         *)
(* The program is any program that reads and writes the registers of the   *)
(* devices it uses, with the manners the UART and the FIFO expect of it:   *)
(* it writes UDR first or when UDRE is set, and it neither pops an empty   *)
(* FIFO nor overfills it.  Between two steps the debugger may do the same, *)
(* and reset the chip.                                                     *)
(***************************************************************************)
EXTENDS Spi, Uart, Adc, OsEID, Usb

CONSTANTS
    Sessions,          \* what a run is about: [chip, uses, debugger]
    UcrInputs, AdcsrInputs,       \* the values written to UCR and ADCSR
    Lines,             \* the data lines a reader types
    MaxNodes           \* bound on callback nodes: no access of a device beyond

VARIABLES
    session,           \* the chip, the devices used, is there a debugger
    phase,             \* where the step loop is
    inst_CKS,          \* clocks of the instruction still to run
    node,              \* the callback node visited next
    CK,                \* the clock, modulo CKPeriod
    quiet,             \* the program and the debugger are done with the devices
    owed,              \* [irq -> its events not followed by an interrupt yet]
    unsent,            \* bytes written to UDR and not sent as a frame yet
    queue              \* what the FIFO should hold: {that}, or {} if not known

devices   == <<spi, uart, adc, oseid, ee, usb>>
step_vars == <<phase, inst_CKS, node, CK>>
ghosts    == <<owed, unsent, queue>>
vars      == <<chip, session, quiet, step_vars, lists, devices, ghosts>>

Irqs   == {"SPI_STC", "UART_TX", "UART_UDRE", "ADC"}
Phases == {"step", "clk", "async", "check", "stdin", "exit"}
Uses(device) == device \in session.uses

(* The devices that raise the interrupts of those in use. *)
InterruptUnits(uses) ==
    (IF "spi" \in uses THEN {"spii"} ELSE {})
      \cup (IF "uart" \in uses THEN {"uart_int"} ELSE {})
      \cup (IF "adc" \in uses THEN {"adc_int"} ELSE {})

PeripheralsAssumption ==
    /\ Sessions \subseteq [chip : DOMAIN devices_supported, debugger : BOOLEAN,
                           uses : SUBSET {"spi", "uart", "adc", "oseid", "ee", "usb"}]
    /\ \A s \in Sessions : s.uses \cup InterruptUnits(s.uses) \subseteq Classes(s.chip)
    /\ UcrInputs \subseteq SUBSET UcrBits
    /\ AdcsrInputs \subseteq SUBSET AdcsrBits
    /\ Lines \subseteq Seq(Bytes)

ASSUME PeripheralsAssumed == PeripheralsAssumption

(* The devices that are not used keep one of the values they may start with. *)
Init ==
    /\ session \in Sessions /\ chip = session.chip
    /\ phase = "step" /\ inst_CKS = 0 /\ node = 1 /\ CK = 0 /\ quiet = FALSE
    /\ clk_cb = <<>> /\ async_cb = <<>> /\ irq_pending = <<>>
    /\ spi = SpiInit /\ uart = UartInit /\ adc = AdcInit
    /\ IF Uses("oseid") THEN oseid \in OseidInits
       ELSE oseid = CHOOSE o \in OseidInits : TRUE
    /\ IF Uses("ee") THEN ee \in EeInits ELSE ee = CHOOSE e \in EeInits : TRUE
    /\ IF Uses("usb") THEN usb \in UsbInits ELSE usb = CHOOSE u \in UsbInits : TRUE
    /\ owed = [q \in Irqs |-> 0] /\ unsent = 0 /\ queue = {}

----------------------------------------------------------------------------
(* What the program's loads and stores, and the debugger's packets, do to   *)
(* the devices, with what they mean for the histories.                      *)

SpiAccess ==
    /\ Uses("spi")
    /\ \/ SpiReadSpsr
       \/ \E v \in SUBSET {"SPE", "SPIE"}, d \in SpiDivisors : SpiWriteSpcr(v, d)
       \/ SpiReadSpdr
       \/ SpiWriteSpdr
    /\ UNCHANGED <<uart, adc, oseid, ee, usb, ghosts>>

(* UDR is written when UDRE is set, or as the first thing after a reset. *)
UdrFree == "UDRE" \in uart.usr \/ uart.divisor = 0

Owe(irqs) == [q \in Irqs |-> IF q \in irqs THEN Min({owed[q] + 1, 1}) ELSE owed[q]]

UartAccess ==
    /\ Uses("uart")
    /\ \/ /\ \E b \in UartBauds : UartWriteUbrr(b)
          /\ UNCHANGED ghosts
       \/ /\ \E v \in UcrInputs : UartWriteUcr(v)
          /\ UNCHANGED ghosts
       \/ /\ UdrFree
          /\ UartWriteUdr
          /\ unsent' = unsent + 1
          /\ owed' = Owe(IF uart'.shadow THEN {"UART_UDRE"} ELSE {})
          /\ UNCHANGED queue
    /\ UNCHANGED <<spi, adc, oseid, ee, usb>>

AdcAccess ==
    /\ Uses("adc")
    /\ \E v \in AdcsrInputs, d \in AdcDivisors : AdcWriteAdcsr(v, d)
    /\ UNCHANGED <<spi, uart, oseid, ee, usb, ghosts>>

(* The firmware empties the FIFO before it pushes; it may take the random   *)
(* byte, after which the count is off by one until the FIFO is emptied.     *)
OseidAccess ==
    /\ Uses("oseid")
    /\ \/ OseidClear /\ queue' = {<<>>}
       \/ \E q \in queue, b \in Bytes :
             Len(q) < FIFO_LEN /\ OseidPush(b) /\ queue' = {Append(q, b)}
       \/ \E q \in queue : q # <<>> /\ OseidPop /\ queue' = {Tail(q)}
       \/ OseidRandom /\ queue' = {}
       \/ queue = {} /\ OseidPop /\ UNCHANGED queue
    /\ UNCHANGED <<spi, uart, adc, usb, owed, unsent>>

EeAccess ==
    /\ Uses("ee")
    /\ EeWriteRegister \/ EeTriggerRead \/ EeTriggerWrite
    /\ UNCHANGED <<spi, uart, adc, usb, ghosts>>

UsbAccess ==
    /\ Uses("usb")
    /\ \/ UsbReadFcsr
       \/ UsbFetch
       \/ \E e \in Endpoints, v \in SUBSET UsbFlags : UsbWriteFcar(e, v)
       \/ \E e \in Endpoints : UsbWriteFdr(e)
       \/ UsbWriteRegister
    /\ UNCHANGED <<spi, uart, adc, oseid, ee, ghosts>>

Access ==
    /\ phase = "step"
    /\ ~quiet
    /\ Len(clk_cb) + Len(async_cb) < MaxNodes
    /\ SpiAccess \/ UartAccess \/ AdcAccess \/ OseidAccess \/ EeAccess \/ UsbAccess
    /\ UNCHANGED <<chip, session, quiet>>

----------------------------------------------------------------------------
(* avr_core_step *)

Executes(c) ==
    /\ phase = "step"
    /\ phase' = "clk"
    /\ inst_CKS' = c
    /\ node' = 1
    /\ UNCHANGED CK

(* IN takes one clock; LDS, STS, SBI, CBI take two. *)
ExecAccess == Access /\ \E c \in {1, 2} : Executes(c)

(* An instruction that touches no device. *)
ExecOther ==
    /\ Executes(1)
    /\ UNCHANGED <<chip, session, quiet, lists, devices, ghosts>>

(* FIFOCTRL written with 2 waits for a line, in the middle of the           *)
(* instruction, and at the end of the input for ever.                       *)
ExecReadStdin ==
    /\ phase = "step" /\ ~quiet
    /\ Uses("oseid")
    /\ OseidClear
    /\ phase' = "stdin"
    /\ queue' = {}
    /\ UNCHANGED <<chip, session, quiet, inst_CKS, node, CK, spi, uart, adc, usb,
                   owed, unsent>>

ReaderTypes ==
    /\ phase = "stdin"
    /\ \/ /\ \E p \in {"T0", "T1", oseid.protocol} : OseidControlLine(p)
          /\ UNCHANGED <<step_vars, queue>>
       \/ /\ \E line \in Lines :
                /\ OseidDataLine(line)
                /\ queue' = {SubSeq(line, 1, Min({Len(line), FIFO_LEN}))}
          /\ phase' = "clk" /\ inst_CKS' = 2 /\ node' = 1 /\ UNCHANGED CK
    /\ UNCHANGED <<chip, session, quiet, spi, uart, adc, usb, owed, unsent>>

EndOfInput == phase = "stdin" /\ UNCHANGED vars

(* A write of SPSR, USR, ADCL, ADCH, UISR or SPRSR, or a read of UIAR, has  *)
(* no branch in its device but avr_error, which exits the simulator.        *)
ExecBadAccess ==
    /\ phase = "step" /\ ~quiet
    /\ session.uses \cap {"spi", "uart", "adc", "usb"} # {}
    /\ phase' = "exit"
    /\ UNCHANGED <<chip, session, quiet, inst_CKS, node, CK, lists, devices, ghosts>>

(* avr_core_clk_cb_exec *)
VisitSpi ==
    /\ clk_cb[node] = "spi"
    /\ SpiClkIncrCb(node, CK)
    /\ node' = IteratorNext(node, ~spi.clk_cb \/ SpiEnds(CK))
    /\ owed' = Owe(IF SpiEnds(CK) THEN {"SPI_STC"} ELSE {})
    /\ UNCHANGED <<uart, adc, unsent>>

VisitUart ==
    /\ clk_cb[node] = "uart"
    /\ UartClkIncrCb(node, CK)
    /\ node' = IteratorNext(node, ~uart.clk_cb \/ UartEnds(CK))
    /\ owed' = Owe(IF UartEnds(CK) THEN {"UART_TX"}
                   ELSE IF UartFrameEnds(CK) THEN {"UART_UDRE"} ELSE {})
    /\ unsent' = IF UartFrameEnds(CK) /\ unsent > 0 THEN unsent - 1 ELSE unsent
    /\ UNCHANGED <<spi, adc>>

VisitAdc ==
    /\ clk_cb[node] = "adc"
    /\ AdcClkIncrCb(node, CK)
    /\ node' = IteratorNext(node, ~adc.clk_cb \/ AdcEnds(CK))
    /\ owed' = Owe(IF AdcConverts(CK) THEN {"ADC"} ELSE {})
    /\ UNCHANGED <<spi, uart, unsent>>

VisitClkNode ==
    /\ phase = "clk"
    /\ node \in DOMAIN clk_cb
    /\ VisitSpi \/ VisitUart \/ VisitAdc
    /\ UNCHANGED <<chip, session, quiet, phase, inst_CKS, CK, oseid, ee, usb, queue>>

ClockDone ==
    /\ phase = "clk"
    /\ node \notin DOMAIN clk_cb
    /\ CK' = (CK + 1) % CKPeriod
    /\ inst_CKS' = inst_CKS - 1
    /\ phase' = IF inst_CKS' > 0 THEN "clk" ELSE "async"
    /\ node' = 1
    /\ UNCHANGED <<chip, session, quiet, lists, devices, ghosts>>

(* avr_core_async_cb_exec *)
Settle(irqs) == owed' = [q \in Irqs |-> owed[q] - IF q \in irqs THEN 1 ELSE 0]

VisitAsyncNode ==
    /\ phase = "async"
    /\ node \in DOMAIN async_cb
    /\ \/ /\ async_cb[node] = "spii"
          /\ SpiIntrCb(node) /\ Settle(SpiRaises)
          /\ node' = IteratorNext(node, ~spi.intr_cb)
          /\ UNCHANGED <<uart, adc>>
       \/ /\ async_cb[node] = "uart_int"
          /\ UartIntrCb(node) /\ Settle(UartRaises)
          /\ node' = IteratorNext(node, ~uart.intr_cb)
          /\ UNCHANGED <<spi, adc>>
       \/ /\ async_cb[node] = "adc_int"
          /\ AdcIntrCb(node) /\ Settle(AdcRaises)
          /\ node' = IteratorNext(node, ~adc.intr_cb)
          /\ UNCHANGED <<spi, uart>>
    /\ UNCHANGED <<chip, session, quiet, phase, inst_CKS, CK, oseid, ee, usb,
                   unsent, queue>>

AsyncDone ==
    /\ phase = "async"
    /\ node \notin DOMAIN async_cb
    /\ phase' = "check"
    /\ node' = 1
    /\ UNCHANGED <<chip, session, quiet, inst_CKS, CK, lists, devices, ghosts>>

(* avr_core_check_interrupts takes the head of the list if the program has  *)
(* interrupts enabled.                                                      *)
CheckInterrupts ==
    /\ phase = "check"
    /\ phase' = "step"
    /\ irq_pending' \in {irq_pending} \cup
          IF irq_pending = <<>> THEN {}
          ELSE {DListDelete(irq_pending, irq_pending[1], devices_supported[chip].vtab)}
    /\ UNCHANGED <<chip, session, quiet, inst_CKS, node, CK, clk_cb, async_cb,
                   devices, ghosts>>

(* The program has no more business with the devices. *)
FallsQuiet ==
    /\ phase = "step" /\ ~quiet
    /\ quiet' = TRUE
    /\ UNCHANGED <<chip, session, step_vars, lists, devices, ghosts>>

----------------------------------------------------------------------------
(* The debugger, between two steps *)

DebuggerAccess ==
    /\ session.debugger
    /\ Access
    /\ UNCHANGED step_vars

DebuggerWriteEeprom ==
    /\ session.debugger /\ phase = "step" /\ ~quiet
    /\ Uses("ee")
    /\ GdbEeWrite
    /\ UNCHANGED <<chip, session, quiet, step_vars, spi, uart, adc, usb, ghosts>>

(* avr_core_reset: every device is reset, the callback lists are kept. *)
DebuggerReset ==
    /\ session.debugger /\ phase = "step" /\ ~quiet
    /\ spi' = SpiReset /\ uart' = UartReset /\ adc' = AdcReset
    /\ oseid' = OseidReset /\ usb' = UsbReset
    /\ irq_pending' = <<>>
    /\ owed' = [q \in Irqs |-> 0] /\ unsent' = 0
    /\ queue' = {}
    /\ UNCHANGED <<chip, session, quiet, step_vars, clk_cb, async_cb, ee>>

Exited == phase = "exit" /\ UNCHANGED vars

Step == \/ ExecAccess \/ ExecOther \/ ExecReadStdin \/ ExecBadAccess
        \/ VisitClkNode \/ ClockDone \/ VisitAsyncNode \/ AsyncDone \/ CheckInterrupts

Next == Step \/ FallsQuiet \/ ReaderTypes \/ EndOfInput \/ Exited
        \/ DebuggerAccess \/ DebuggerWriteEeprom \/ DebuggerReset

Spec == Init /\ [][Next]_vars

(* The step loop never stops by itself. *)
FairSpec == Spec /\ WF_vars(Step)

----------------------------------------------------------------------------
(* Properties *)

TypeOK ==
    /\ chip \in DOMAIN devices_supported /\ session \in Sessions
    /\ phase \in Phases /\ inst_CKS \in 0..2 /\ node \in Nat \ {0}
    /\ CK \in 0..(CKPeriod - 1) /\ quiet \in BOOLEAN
    /\ clk_cb \in Seq({"spi", "uart", "adc"})
    /\ async_cb \in Seq({"spii", "uart_int", "adc_int"})
    /\ irq_pending \in Seq(Irqs)
    /\ spi \in SpiType /\ uart \in UartType /\ adc \in AdcType
    /\ oseid \in OseidType /\ ee \in EeType /\ usb \in UsbType

(* The tables of the chip, in three files, agree: they build a core, pair   *)
(* the devices that find one another by address, and give every interrupt   *)
(* the chip's devices raise, and those pending, a vector of its own.        *)
TablesAgree ==
    /\ TableBuilds(chip) /\ RelatedFound(chip) /\ VectorsServe(chip)
    /\ ToSet(irq_pending) \subseteq DOMAIN devices_supported[chip].vtab

(* Each interrupt answers an event of its own.  Every write of SPCR with    *)
(* SPE adds one more node for spi_intr_cb to visit, the UART raises UDRE    *)
(* from a shadow of its flag, and resets and restarts come at any point:    *)
(* yet no transfer, frame or conversion is reported twice.                  *)
InterruptsEarned == \A q \in Irqs : owed[q] >= 0

(* When the pending interrupts are examined, no device is left with a flag  *)
(* set whose interrupt it enables: the callback that serves it is installed *)
(* whenever it is wanted, in whatever order the registers were written.     *)
(* Only the A/D converter drops it, at a write of ADCSR in a conversion.    *)
FlagsServed ==
    phase = "check" =>
        /\ ~("SPIF" \in spi.spsr /\ {"SPE", "SPIE"} \subseteq spi.spcr)
        /\ ~("TXC" \in uart.usr /\ {"TXEN", "TXCIE"} \subseteq uart.ucr)
        /\ ~("UDRE" \in uart.usr /\ uart.shadow /\ "UDRIE" \in uart.ucr)
        /\ ~(AdcFlagged /\ adc.intr_cb)

(* A device's pointer to its clock callback is set exactly while it counts, *)
(* and then with a divisor and a node in the list: no count passes zero and *)
(* wraps, none stands still, and none divides by zero, though a reset       *)
(* leaves nodes behind and a restart may add a second one.                  *)
CountersRun ==
    /\ spi.clk_cb  <=> spi.tcnt > 0
    /\ spi.clk_cb  => spi.divisor > 0 /\ "spi" \in ToSet(clk_cb)
    /\ uart.clk_cb <=> uart.tcnt > 0
    /\ uart.clk_cb => uart.divisor > 0 /\ "uart" \in ToSet(clk_cb)
    /\ adc.clk_cb  <=> adc.adc_count > 0
    /\ adc.clk_cb  => adc.divisor > 0 /\ "adc" \in ToSet(clk_cb)

(* The UART reports a transmission complete only when every byte that was   *)
(* written has had a frame, although a byte written while one is sent       *)
(* restarts the frame.                                                      *)
SentBeforeComplete == "TXC" \in uart.usr /\ uart.tcnt = 0 => unsent = 0

(* The FIFO holds, in order, what was pushed or read from the reader's line *)
(* and not popped yet.                                                      *)
FifoIsQueue ==
    \A q \in queue : oseid.flen = Len(q) /\ q = SubSeq(oseid.fifo, 1, oseid.flen)

(* Once nobody touches the devices, every transfer, transmission and single *)
(* conversion ends and its node leaves the list.                            *)
DrainsWhenQuiet ==
    quiet ~> \/ clk_cb = <<>>
             \/ "ADFR" \in adc.adcsr
             \/ phase = "exit"
=============================================================================
