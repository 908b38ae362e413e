------------------------------ MODULE Timers -------------------------------
(***************************************************************************)
(* The timers of timers.c as far as the interrupt machinery sees them: the *)
(* counters (timer0, and timer1 of 16 bits) that run from a clock          *)
(* callback, and the TIMSK/TIFR unit that turns overflow flags into        *)
(* pending interrupts from an asynchronous callback.                       *)
(*                                                                         *)
(* A callback is installed by appending a node to one of the core's lists  *)
(* and keeping a pointer to it in the device; it is uninstalled by setting *)
(* that pointer to NULL, and the node goes away when the callback next     *)
(* runs and finds the NULL.  So the node and the pointer are two pieces of *)
(* state: clk_cb/async_cb hold the nodes, clk_ptr/intr_ptr say whether the *)
(* device's pointer is set.                                                *)
(***************************************************************************)
EXTENDS DList

CONSTANTS
    Timers,        \* the counters present, a subset of {"timer0", "timer1"}
    TcntModulus,   \* [Timers -> Nat]: 2^8 and 2^16, smaller in the instances
    Divisors,      \* the prescaler values the clock select bits can choose
    CKPeriod,      \* CK is kept modulo this common multiple of the divisors
    FuncMask       \* the bits of TIMSK and TIFR the device implements

VARIABLES
    divisor,       \* [Timers -> Divisors \cup {0}], 0 when TCCR says CS_STOP
    tcnt,          \* [Timers -> Nat]: the counter registers
    clk_ptr,       \* the timers whose clk_cb pointer is not NULL
    timsk, tifr,   \* sets of bits, named by their interrupt flag
    intr_ptr,      \* TimerIntr_T.intr_cb # NULL
    clk_cb,        \* the core's clock callbacks, a sequence of timers
    async_cb,      \* the core's asynchronous callbacks
    irq_pending    \* the core's pending interrupts, oldest first

timer_vars == <<divisor, tcnt, clk_ptr, timsk, tifr, intr_ptr>>

(* The bits of TIFR; the enable bit of each in TIMSK has the same position. *)
FlagOrder == <<"TOV0", "ICF1", "OCF1B", "OCF1A", "TOV1">>
Flags     == {"TOV0", "ICF1", "OCF1B", "OCF1A", "TOV1"}

(* The vector timer_intr_cb raises for a flag. *)
IrqOfFlag == [f \in Flags |->
    CASE f = "TOV0"  -> "TIMER0_OVF"
      [] f = "ICF1"  -> "TIMER1_CAPT"
      [] f = "OCF1B" -> "TIMER1_COMPB"
      [] f = "OCF1A" -> "TIMER1_COMPA"
      [] f = "TOV1"  -> "TIMER1_OVF"]

OverflowFlag == [t \in {"timer0", "timer1"} |->
                   IF t = "timer0" THEN "TOV0" ELSE "TOV1"]

(* Output compare flags a tick of timer1 may set beside its overflow flag.  *)
(* timer->ocra and timer->ocrb are never assigned: they hold whatever       *)
(* malloc returned, so a tick compares with no register (NULL) or with      *)
(* some arbitrary 16 bits.                                                  *)
CompareOutcomes(t) ==
    IF t = "timer1" THEN SUBSET ({"OCF1A", "OCF1B"} \cap FuncMask) ELSE {{}}

TimersAssumption ==
    /\ Timers \subseteq {"timer0", "timer1"}
    /\ TcntModulus \in [Timers -> Nat \ {0, 1}]
    /\ Divisors \subseteq Nat \ {0}
    /\ CKPeriod \in Nat \ {0}
    /\ \A d \in Divisors : CKPeriod % d = 0
    /\ FuncMask \subseteq Flags

ASSUME TimersAssumed == TimersAssumption

TimersInit ==
    /\ divisor = [t \in Timers |-> 0]
    /\ tcnt = [t \in Timers |-> 0]
    /\ clk_ptr = {}
    /\ timsk = {}
    /\ tifr = {}
    /\ intr_ptr = FALSE

----------------------------------------------------------------------------
(* Register writes, by OUT or by the debugger. *)

(* As below, leaving the callback pointer alone. *)
TccrStop_KeepsCallback(t) ==
    /\ divisor' = [divisor EXCEPT ![t] = 0]
    /\ UNCHANGED <<clk_ptr, tcnt, timsk, tifr, intr_ptr,
                   clk_cb, async_cb, irq_pending>>

(* TCCR0 / TCCR1B with clock select bits CS_STOP. *)
TccrStop(t) ==
    /\ divisor' = [divisor EXCEPT ![t] = 0]
    /\ clk_ptr' = clk_ptr \ {t}
    /\ UNCHANGED <<tcnt, timsk, tifr, intr_ptr, clk_cb, async_cb, irq_pending>>

(* As below, without the test for an installed callback. *)
TccrSelect_NoNullTest(t, d) ==
    /\ divisor' = [divisor EXCEPT ![t] = d]
    /\ clk_ptr' = clk_ptr \cup {t}
    /\ clk_cb' = Append(clk_cb, t)
    /\ UNCHANGED <<tcnt, timsk, tifr, intr_ptr, async_cb, irq_pending>>

(* TCCR0 / TCCR1B with clock select bits that choose the prescaler d: a new *)
(* clock callback is added only if the pointer is NULL.                     *)
TccrSelect(t, d) ==
    /\ divisor' = [divisor EXCEPT ![t] = d]
    /\ clk_ptr' = clk_ptr \cup {t}
    /\ clk_cb' = IF t \in clk_ptr THEN clk_cb ELSE Append(clk_cb, t)
    /\ UNCHANGED <<tcnt, timsk, tifr, intr_ptr, async_cb, irq_pending>>

(* TCNT0 written. *)
TcntWrite(t, v) ==
    /\ tcnt' = [tcnt EXCEPT ![t] = v]
    /\ UNCHANGED <<divisor, clk_ptr, timsk, tifr, intr_ptr,
                   clk_cb, async_cb, irq_pending>>

(* TIMSK written with the enable bits es. *)
TimskWrite(es) ==
    /\ timsk' = es \cap FuncMask
    /\ intr_ptr' = (timsk' # {})
    /\ async_cb' = IF timsk' # {} /\ ~intr_ptr
                   THEN Append(async_cb, "timer_intr")
                   ELSE async_cb
    /\ UNCHANGED <<divisor, tcnt, clk_ptr, tifr, clk_cb, irq_pending>>

(* TIFR written: a one clears the flag. *)
TifrWrite(fs) ==
    /\ tifr' = tifr \ (fs \cap FuncMask)
    /\ UNCHANGED <<divisor, tcnt, clk_ptr, timsk, intr_ptr,
                   clk_cb, async_cb, irq_pending>>

(* timer0_reset, timer16_reset and timer_intr_reset.  The callback lists   *)
(* are the core's and are not touched.                                      *)
TimersReset ==
    /\ divisor' = [t \in Timers |-> 0]
    /\ tcnt' = [t \in Timers |-> 0]
    /\ clk_ptr' = {}
    /\ timsk' = {}
    /\ tifr' = {}
    /\ intr_ptr' = FALSE
    /\ UNCHANGED <<clk_cb, async_cb>>

----------------------------------------------------------------------------
(* Callbacks: each visits the node of its list at position node. *)

(* timer0_clk_incr_cb / timer16_clk_incr_cb of the timer at clk_cb[node],  *)
(* at clock ck.  It asks to be removed when the pointer is NULL.            *)
ClkIncrCb(node, ck) ==
    LET t == clk_cb[node] IN
    IF t \notin clk_ptr
    THEN /\ clk_cb' = IteratorVisit(clk_cb, node, TRUE)
         /\ UNCHANGED <<divisor, tcnt, clk_ptr, timsk, tifr, intr_ptr,
                        async_cb, irq_pending>>
    ELSE LET ticks == ck % divisor[t] = 0
             next  == IF ticks THEN (tcnt[t] + 1) % TcntModulus[t] ELSE tcnt[t]
         IN
         /\ tcnt' = [tcnt EXCEPT ![t] = next]
         /\ \E cmp \in IF ticks THEN CompareOutcomes(t) ELSE {{}} :
              tifr' = tifr \cup cmp
                       \cup IF ticks /\ next = 0 THEN {OverflowFlag[t]} ELSE {}
         /\ UNCHANGED <<divisor, clk_ptr, timsk, intr_ptr,
                        clk_cb, async_cb, irq_pending>>

(* The flag timer_intr_cb serves: the first of its if/else chain that is   *)
(* set, enabled and implemented.                                            *)
Serviceable == timsk \cap tifr \cap FuncMask
FlagServed  == FlagOrder[CHOOSE i \in DOMAIN FlagOrder :
                   /\ FlagOrder[i] \in Serviceable
                   /\ \A j \in DOMAIN FlagOrder :
                         FlagOrder[j] \in Serviceable => i <= j]

(* timer_intr_cb, for the node of async_cb at position node: at most one    *)
(* interrupt is raised per call, and its flag is cleared.  VectorAddr is    *)
(* what irq_cmp_addr compares.                                              *)
TimerIntrCb(node, VectorAddr) ==
    /\ async_cb' = IteratorVisit(async_cb, node, ~intr_ptr)
    /\ IF intr_ptr /\ Serviceable # {}
       THEN /\ irq_pending' = DListAdd(irq_pending, IrqOfFlag[FlagServed],
                                       VectorAddr)
            /\ tifr' = tifr \ {FlagServed}
       ELSE UNCHANGED <<irq_pending, tifr>>
    /\ UNCHANGED <<divisor, tcnt, clk_ptr, timsk, intr_ptr, clk_cb>>

----------------------------------------------------------------------------
(* The types of the timers' state and of the callback lists. *)
TimersTypeOK ==
    /\ divisor \in [Timers -> Divisors \cup {0}]
    /\ tcnt \in [Timers -> Nat]
    /\ \A t \in Timers : tcnt[t] < TcntModulus[t]
    /\ clk_ptr \subseteq Timers
    /\ timsk \subseteq FuncMask
    /\ tifr \subseteq Flags
    /\ intr_ptr \in BOOLEAN
    /\ clk_cb \in Seq(Timers)
    /\ async_cb \in Seq({"timer_intr"})
=============================================================================
