------------------------------ MODULE AvrCore ------------------------------
(***************************************************************************)
(* The simulated core of avrcore.c: one avr_core_step after another, each  *)
(* executing an instruction, running the clock callbacks once per clock of *)
(* it, running the asynchronous callbacks once, and then checking the      *)
(* pending interrupts.  Each of those is a phase here and each visit of a  *)
(* callback node is an action, so that a callback list is seen between two *)
(* nodes.  Between two steps the debugger may reset the device, raise an   *)
(* interrupt, or write registers.                                          *)
(*                                                                         *)
(* The program is any program: each execution of an instruction is a       *)
(* choice among the kinds of instruction that touch the state modelled.    *)
(* An address is abstracted to the code it lies in: the mainline, or the   *)
(* handler of a vector.                                                    *)
(***************************************************************************)
EXTENDS Timers

CONSTANTS
    Irqs,             \* the entries of the device's vector table
    NamedIrqs,        \* those the device defines; the others have a NULL name
    VectorAddr,       \* [Irqs -> Nat]; an entry with a NULL name has address 0
    PC_size,          \* bytes of a return address, 2 or 3
    OtherCKS,         \* the clocks an instruction with no effect here may take
    DebuggerIrqs,     \* irqs the debugger raises ('C' packet with 94 + n)
    DebuggerResets,   \* TRUE if the debugger resets the device
    DebuggerWrites,   \* TRUE if the debugger writes registers
    MaxDepth,         \* bound on nested handlers: no SEI at this depth
    MaxNodes          \* bound on callback nodes: no debugger write beyond it

VARIABLES
    phase,            \* where avr_core_step is
    res,              \* what the last instruction returned
    inst_CKS,         \* clocks of it still to run
    node,             \* the callback node dlist_iterator visits next
    CK,               \* clock counter, modulo CKPeriod
    pc,               \* the code PC points into
    stack,            \* the return addresses pushed and not popped yet
    sreg_i,           \* the I bit of SREG
    gpwr_clear        \* no general register was written since the reset

core_vars == <<phase, res, inst_CKS, node, CK, pc, stack, sreg_i, gpwr_clear>>
lists     == <<clk_cb, async_cb, irq_pending>>
vars      == <<core_vars, timer_vars, lists>>

IRQ_RESET_ADDR == 0
Code   == {"main"} \cup Irqs
Phases == {"step", "clk", "async", "check", "exit"}

CoreAssumption ==
    /\ "RESET" \in NamedIrqs
    /\ NamedIrqs \subseteq Irqs
    /\ "main" \notin Irqs
    /\ {IrqOfFlag[f] : f \in FuncMask} \subseteq NamedIrqs
    /\ VectorAddr \in [Irqs -> Nat]
    /\ \A q \in Irqs : VectorAddr[q] = IRQ_RESET_ADDR
                         <=> q \notin NamedIrqs \/ q = "RESET"
    /\ \A q, r \in NamedIrqs : VectorAddr[q] = VectorAddr[r] => q = r
    /\ PC_size \in {2, 3}
    /\ OtherCKS \subseteq 1..5
    /\ DebuggerIrqs \subseteq Irqs
    /\ DebuggerResets \in BOOLEAN
    /\ DebuggerWrites \in BOOLEAN
    /\ MaxDepth \in Nat
    /\ MaxNodes \in Nat

ASSUME CoreAssumed == CoreAssumption

Init ==
    /\ TimersInit
    /\ clk_cb = <<>> /\ async_cb = <<>> /\ irq_pending = <<>>
    /\ phase = "step" /\ res = "other" /\ inst_CKS = 0 /\ node = 1 /\ CK = 0
    /\ pc = "main" /\ stack = <<>> /\ sreg_i = FALSE /\ gpwr_clear = TRUE

(* avr_core_reset and the vdev resets mem_reset calls: the registers, SREG, *)
(* SP and the timers.  CK and the callback lists are not touched.           *)
CoreReset ==
    /\ pc' = "main"
    /\ irq_pending' = <<>>
    /\ inst_CKS' = 0
    /\ stack' = <<>>
    /\ sreg_i' = FALSE
    /\ gpwr_clear' = TRUE
    /\ TimersReset

----------------------------------------------------------------------------
(* exec_next_instruction *)

(* An instruction returned r and takes c clocks; the clocks run next. *)
Executes(r, c) ==
    /\ phase = "step"
    /\ phase' = IF c > 0 THEN "clk" ELSE "async"
    /\ res' = r
    /\ inst_CKS' = c
    /\ node' = 1
    /\ UNCHANGED CK

(* Any instruction that touches none of this state but, maybe, registers. *)
ExecOther ==
    /\ \E c \in OtherCKS : Executes("other", c)
    /\ gpwr_clear' \in {gpwr_clear, FALSE}
    /\ UNCHANGED <<pc, stack, sreg_i, timer_vars, lists>>

(* SEI (BSET 7). *)
ExecSei ==
    /\ Len(stack) < MaxDepth
    /\ Executes("other", 1)
    /\ sreg_i' = TRUE
    /\ UNCHANGED <<pc, stack, gpwr_clear, timer_vars, lists>>

(* CLI (BCLR 7). *)
ExecCli ==
    /\ Executes("other", 1)
    /\ sreg_i' = FALSE
    /\ UNCHANGED <<pc, stack, gpwr_clear, timer_vars, lists>>

(* RETI, at the end of a handler. *)
ExecReti ==
    /\ stack # <<>>
    /\ Executes("RETI", PC_size + 2)
    /\ pc' = Last(stack)
    /\ stack' = Front(stack)
    /\ sreg_i' = TRUE
    /\ UNCHANGED <<gpwr_clear, timer_vars, lists>>

(* A timer register written with v: what OUT and the debugger's writes     *)
(* share.  While no register was written, v can only be zero.               *)
WriteTccr(t, zero) ==
    \/ TccrStop(t)
    \/ ~zero /\ \E d \in Divisors : TccrSelect(t, d)

WriteTimsk(zero) == \E es \in IF zero THEN {{}} ELSE SUBSET FuncMask : TimskWrite(es)
WriteTifr(zero)  == \E fs \in IF zero THEN {{}} ELSE SUBSET FuncMask : TifrWrite(fs)
WriteTcnt0(zero) ==
    /\ "timer0" \in Timers
    /\ \E v \in IF zero THEN {0} ELSE 0..(TcntModulus["timer0"] - 1) :
          TcntWrite("timer0", v)

WriteTimerRegister(zero) ==
    \/ \E t \in Timers : WriteTccr(t, zero)
    \/ WriteTimsk(zero)
    \/ WriteTifr(zero)
    \/ WriteTcnt0(zero)

(* OUT to a timer register. *)
ExecOut ==
    /\ Executes("other", 1)
    /\ WriteTimerRegister(gpwr_clear)
    /\ UNCHANGED <<pc, stack, sreg_i, gpwr_clear>>

(* BREAK, a breakpoint: no clocks, and PC is not incremented. *)
ExecBreak ==
    /\ Executes("BREAK", 0)
    /\ UNCHANGED <<pc, stack, sreg_i, gpwr_clear, timer_vars, lists>>

(* avr_error prints its message and exits the simulator. *)
Exits ==
    /\ phase' = "exit"
    /\ UNCHANGED <<res, inst_CKS, node, CK, pc, stack, sreg_i, gpwr_clear,
                   timer_vars, lists>>

(* SLEEP and WDR look up a device by name, "use of deprecated interface". *)
ExecSleepWdr == phase = "step" /\ Exits

(* An external clock select written to a TCCR is "not implemented yet". *)
ExecExternalClock == phase = "step" /\ ~gpwr_clear /\ Exits

ExecNextInstruction ==
    \/ ExecOther \/ ExecSei \/ ExecCli \/ ExecReti
    \/ ExecOut \/ ExecBreak \/ ExecSleepWdr \/ ExecExternalClock
----------------------------------------------------------------------------
(* avr_core_clk_cb_exec, once per clock of the instruction *)

VisitClkNode ==
    /\ phase = "clk"
    /\ node \in DOMAIN clk_cb
    /\ ClkIncrCb(node, CK)
    /\ node' = IteratorNext(node, clk_cb[node] \notin clk_ptr)
    /\ UNCHANGED <<phase, res, inst_CKS, CK, pc, stack, sreg_i, gpwr_clear>>

(* As below, with a loop that tests for one clock too many. *)
ClockDone_OneMore ==
    /\ phase = "clk"
    /\ node \notin DOMAIN clk_cb
    /\ CK' = (CK + 1) % CKPeriod
    /\ inst_CKS' = inst_CKS - 1
    /\ phase' = IF inst_CKS' >= 0 THEN "clk" ELSE "async"
    /\ node' = 1
    /\ UNCHANGED <<res, pc, stack, sreg_i, gpwr_clear, timer_vars, lists>>

(* The end of the list: CK counts, and the loop goes on with the next clock *)
(* or ends.                                                                 *)
ClockDone ==
    /\ phase = "clk"
    /\ node \notin DOMAIN clk_cb
    /\ CK' = (CK + 1) % CKPeriod
    /\ inst_CKS' = inst_CKS - 1
    /\ phase' = IF inst_CKS' > 0 THEN "clk" ELSE "async"
    /\ node' = 1
    /\ UNCHANGED <<res, pc, stack, sreg_i, gpwr_clear, timer_vars, lists>>

(* avr_core_async_cb_exec *)

VisitAsyncNode ==
    /\ phase = "async"
    /\ node \in DOMAIN async_cb
    /\ TimerIntrCb(node, VectorAddr)
    /\ node' = IteratorNext(node, ~intr_ptr)
    /\ UNCHANGED <<phase, res, inst_CKS, CK, pc, stack, sreg_i, gpwr_clear>>

AsyncDone ==
    /\ phase = "async"
    /\ node \notin DOMAIN async_cb
    /\ phase' = "check"
    /\ node' = 1
    /\ UNCHANGED <<res, inst_CKS, CK, pc, stack, sreg_i, gpwr_clear,
                   timer_vars, lists>>

----------------------------------------------------------------------------
(* avr_core_check_interrupts, not called after a RETI *)

Check == phase = "check" /\ phase' = "step" /\ UNCHANGED <<res, node, CK>>

(* irq_get_pending_vector: awake, any interrupt will do, so the first. *)
PendingHead == irq_pending[1]

(* As below, without the exception for RETI. *)
Examines_AfterReti == irq_pending # <<>>

Examines == res # "RETI" /\ irq_pending # <<>>

CheckNothing ==
    /\ Check
    /\ ~Examines
    /\ UNCHANGED <<inst_CKS, pc, stack, sreg_i, gpwr_clear, timer_vars, lists>>

(* "Raised an invalid irq for device" *)
CheckInvalid ==
    /\ phase = "check"
    /\ Examines
    /\ PendingHead \notin NamedIrqs
    /\ Exits

CheckReset ==
    /\ Check
    /\ Examines
    /\ PendingHead \in NamedIrqs
    /\ VectorAddr[PendingHead] = IRQ_RESET_ADDR
    /\ CoreReset

(* As below, pushing PC after it was set to the vector. *)
CheckVector_PushesVector ==
    /\ Check
    /\ Examines
    /\ PendingHead \in NamedIrqs
    /\ VectorAddr[PendingHead] # IRQ_RESET_ADDR
    /\ sreg_i
    /\ stack' = Append(stack, PendingHead)
    /\ sreg_i' = FALSE
    /\ pc' = PendingHead
    /\ irq_pending' = DListDelete(irq_pending, PendingHead, VectorAddr)
    /\ UNCHANGED <<inst_CKS, gpwr_clear, timer_vars, clk_cb, async_cb>>

CheckVector ==
    /\ Check
    /\ Examines
    /\ PendingHead \in NamedIrqs
    /\ VectorAddr[PendingHead] # IRQ_RESET_ADDR
    /\ sreg_i
    /\ stack' = Append(stack, pc)
    /\ sreg_i' = FALSE
    /\ pc' = PendingHead
    /\ irq_pending' = DListDelete(irq_pending, PendingHead, VectorAddr)
    /\ UNCHANGED <<inst_CKS, gpwr_clear, timer_vars, clk_cb, async_cb>>

CheckMasked ==
    /\ Check
    /\ Examines
    /\ PendingHead \in NamedIrqs
    /\ VectorAddr[PendingHead] # IRQ_RESET_ADDR
    /\ ~sreg_i
    /\ UNCHANGED <<inst_CKS, pc, stack, sreg_i, gpwr_clear, timer_vars, lists>>

CheckInterrupts ==
    CheckNothing \/ CheckInvalid \/ CheckReset \/ CheckVector \/ CheckMasked

----------------------------------------------------------------------------
(* The debugger, between two steps *)

DebuggerRaise ==
    /\ phase = "step"
    /\ \E q \in DebuggerIrqs :
          irq_pending' = DListAdd(irq_pending, q, VectorAddr)
    /\ UNCHANGED <<core_vars, timer_vars, clk_cb, async_cb>>

DebuggerReset ==
    /\ DebuggerResets
    /\ phase = "step"
    /\ CoreReset
    /\ UNCHANGED <<phase, res, node, CK>>

(* 'M' and 'P' packets: an I/O register, a general register, or SREG. *)
DebuggerWrite ==
    /\ DebuggerWrites
    /\ phase = "step"
    /\ Len(clk_cb) + Len(async_cb) < MaxNodes
    /\ \/ /\ WriteTimerRegister(FALSE)
          /\ UNCHANGED <<sreg_i, gpwr_clear>>
       \/ /\ gpwr_clear' = FALSE
          /\ UNCHANGED <<sreg_i, timer_vars, lists>>
       \/ /\ sreg_i' \in IF Len(stack) < MaxDepth THEN BOOLEAN ELSE {FALSE}
          /\ UNCHANGED <<gpwr_clear, timer_vars, lists>>
    /\ UNCHANGED <<phase, res, inst_CKS, node, CK, pc, stack>>

DebuggerExternalClock == DebuggerWrites /\ phase = "step" /\ Exits

Debugger == \/ DebuggerRaise \/ DebuggerReset
            \/ DebuggerWrite \/ DebuggerExternalClock

(* Nothing runs after the exit. *)
Exited == phase = "exit" /\ UNCHANGED vars

Step == \/ ExecNextInstruction
        \/ VisitClkNode \/ ClockDone
        \/ VisitAsyncNode \/ AsyncDone
        \/ CheckInterrupts

Next == Step \/ Debugger \/ Exited

Spec == Init /\ [][Next]_vars

(* The step loop of avr_core_run and gdb_continue never stops by itself.    *)
(* The program is one whose handlers return, at every nesting depth, and    *)
(* whose mainline enables interrupts again.                                 *)
ProgramFairness ==
    /\ SF_vars(ExecSei /\ pc = "main")
    /\ \A d \in 1..MaxDepth : SF_vars(ExecReti /\ Len(stack) = d)

FairSpec == Spec /\ WF_vars(Step) /\ ProgramFairness

----------------------------------------------------------------------------
(* Properties *)

TypeOK ==
    /\ TimersTypeOK
    /\ phase \in Phases
    /\ res \in {"other", "RETI", "BREAK"}
    /\ inst_CKS \in 0..5
    /\ node \in Nat \ {0}
    /\ CK \in 0..(CKPeriod - 1)
    /\ pc \in Code
    /\ stack \in Seq(Code)
    /\ sreg_i \in BOOLEAN
    /\ gpwr_clear \in BOOLEAN
    /\ irq_pending \in Seq(Irqs)

(* irq_list_add never queues one vector twice, whatever mix of callbacks    *)
(* and debugger raises it, so that deleting the vector taken leaves no      *)
(* second copy that would run the handler again.                            *)
PendingUnique == DListUnique(irq_pending, VectorAddr)

(* The return addresses lead back from the code that runs to the mainline:  *)
(* every handler was entered over the code it interrupted, the oldest of    *)
(* them over the mainline, across nested vectoring, RETI and resets.        *)
ReturnChain ==
    LET frames == Append(stack, pc) IN
    \A i \in DOMAIN frames : frames[i] = "main" <=> i = 1

(* Nothing but the NULL test before callback_list_add keeps a device from   *)
(* having two nodes in a callback list, which would count every clock       *)
(* twice: a reset clears the pointers and leaves the nodes.  Without        *)
(* debugger writes it cannot happen, because the first instruction after a  *)
(* reset can only write zeros and the ones after it find the lists swept.   *)
OneNodePerDevice ==
    /\ IsInjective(clk_cb)
    /\ IsInjective(async_cb)
    /\ clk_ptr \subseteq ToSet(clk_cb)
    /\ intr_ptr => async_cb # <<>>

(* Before an instruction that can write anything but zero, the nodes of the *)
(* lists are those the devices point to.                                    *)
ListsSwept ==
    phase = "step" /\ ~gpwr_clear =>
        /\ ToSet(clk_cb) = clk_ptr
        /\ async_cb # <<>> <=> intr_ptr

(* A running timer has a prescaler: timer0_clk_incr_cb never meets the      *)
(* divisor it calls bad, although pointer and divisor are set apart.        *)
RunningHasDivisor == \A t \in clk_ptr : divisor[t] > 0

(* The core keeps the interrupt promise of module Interrupts: the list is   *)
(* its set, the return stack and PC are its frames, and the result of the   *)
(* last instruction remembers a return until the next instruction.          *)
Promise == INSTANCE Interrupts WITH
    Vectors <- NamedIrqs \ {"RESET"},
    pending <- ToSet(irq_pending),
    enabled <- sreg_i,
    frames  <- Append(stack, pc),
    resumed <- res = "RETI"

KeepsInterruptPromise == Promise!Spec

(* No pending interrupt waits forever behind others that keep coming:       *)
(* check_interrupts takes the head and irq_list_add appends at the end.     *)
NoStarvation ==
    \A q \in Irqs :
        q \in ToSet(irq_pending) ~> (q \notin ToSet(irq_pending) \/ phase = "exit")

(* Interrupts that are always pending do not stop the mainline: after each  *)
(* return one of its instructions runs, because avr_core_step leaves        *)
(* check_interrupts out after a RETI.                                       *)
MainlineRuns == []<>((phase = "step" /\ pc = "main") \/ phase = "exit")

----------------------------------------------------------------------------
(* What a comment of the source says and the code does not do *)

(* timers.c:451 "only one or the other can be installed at any given        *)
(* instant": one incrementor counts for a timer.                            *)
OneIncrementor == IsInjective(clk_cb)
=============================================================================
