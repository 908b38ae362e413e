--------------------------- MODULE AvrCoreProofs ---------------------------
(***************************************************************************)
(* Proofs about AvrCore, for every set of timers, prescalers, vectors and  *)
(* debugger abilities: first the types and the safety of the lists and the *)
(* counters, then the sweeps of the callback lists, then the refinement of *)
(* module Interrupts.                                                      *)
(***************************************************************************)
EXTENDS AvrCore, DListProofs

(* The clock loop runs only while clocks are left. *)
ClocksLeft == phase = "clk" => inst_CKS > 0

TypeInv == TypeOK /\ ClocksLeft

----------------------------------------------------------------------------
(* The interrupt timer_intr_cb raises is one of the device's. *)
LEMMA ServedIsServiceable ==
    ASSUME Serviceable # {}, TimersTypeOK, TimersAssumption
    PROVE  FlagServed \in Serviceable
  <1> DEFINE S(i) == FlagOrder[i] \in Serviceable
             P(i) == S(i) /\ \A j \in DOMAIN FlagOrder : S(j) => i <= j
  <1>1. DOMAIN FlagOrder = 1..5
    BY DEF FlagOrder
  <1>2. \E i \in 1..5 : S(i)
    <2>1. PICK f \in Serviceable : TRUE
      OBVIOUS
    <2>2. f \in Flags
      BY <2>1 DEF Serviceable, TimersAssumption
    <2> QED BY <2>1, <2>2 DEF Flags, FlagOrder
  <1>3. \E i \in 1..5 : P(i)
    <2> HIDE DEF S
    <2>1. CASE S(1)
      BY <2>1, <1>1
    <2>2. CASE ~S(1) /\ S(2)
      BY <2>2, <1>1
    <2>3. CASE ~S(1) /\ ~S(2) /\ S(3)
      BY <2>3, <1>1
    <2>4. CASE ~S(1) /\ ~S(2) /\ ~S(3) /\ S(4)
      BY <2>4, <1>1
    <2>5. CASE ~S(1) /\ ~S(2) /\ ~S(3) /\ ~S(4) /\ S(5)
      BY <2>5, <1>1
    <2> QED BY <1>2, <2>1, <2>2, <2>3, <2>4, <2>5
  <1>4. P(CHOOSE i \in DOMAIN FlagOrder : P(i))
    BY <1>1, <1>3, Zenon
  <1> QED BY <1>4 DEF FlagServed

(* The interrupt at the head of the list has a name. *)
LEMMA ServedIrqIsNamed ==
    ASSUME Serviceable # {}, TimersTypeOK, TimersAssumption, CoreAssumption
    PROVE  IrqOfFlag[FlagServed] \in NamedIrqs
  <1>1. FlagServed \in FuncMask
    BY ServedIsServiceable DEF Serviceable
  <1> QED BY <1>1, Zenon DEF CoreAssumption

(* The timers' part of the type invariant, kept by everything that touches *)
(* the timers.                                                              *)
LEMMA WriteKeepsTimersType ==
    ASSUME TimersTypeOK, TimersAssumption, NEW zero \in BOOLEAN,
           WriteTimerRegister(zero)
    PROVE  TimersTypeOK'
  <1> USE DEF TimersTypeOK, TimersAssumption
  <1>1. CASE \E t \in Timers : WriteTccr(t, zero)
    <2>1. PICK t \in Timers : WriteTccr(t, zero)
      BY <1>1
    <2>2. CASE TccrStop(t)
      BY <2>2 DEF TccrStop
    <2>3. CASE \E d \in Divisors : TccrSelect(t, d)
      <3>1. PICK d \in Divisors : TccrSelect(t, d)
        BY <2>3
      <3>2. clk_cb' \in Seq(Timers)
        BY <3>1 DEF TccrSelect
      <3> QED BY <3>1, <3>2 DEF TccrSelect
    <2> QED BY <2>1, <2>2, <2>3 DEF WriteTccr
  <1>2. CASE WriteTimsk(zero)
    <2>1. PICK es : TimskWrite(es)
      BY <1>2 DEF WriteTimsk
    <2>2. async_cb' \in Seq({"timer_intr"})
      BY <2>1 DEF TimskWrite
    <2> QED BY <2>1, <2>2 DEF TimskWrite
  <1>3. CASE WriteTifr(zero)
    BY <1>3 DEF WriteTifr, TifrWrite
  <1>4. CASE WriteTcnt0(zero)
    BY <1>4 DEF WriteTcnt0, TcntWrite
  <1> QED BY <1>1, <1>2, <1>3, <1>4 DEF WriteTimerRegister

(* The clock callbacks of the timers keep their types. *)
LEMMA ClkCallbackKeepsTimersType ==
    ASSUME TimersTypeOK, TimersAssumption,
           node \in DOMAIN clk_cb, ClkIncrCb(node, CK)
    PROVE  TimersTypeOK' /\ irq_pending' = irq_pending
  <1> USE DEF TimersTypeOK, TimersAssumption
  <1> DEFINE t == clk_cb[node]
  <1>1. t \in Timers
    OBVIOUS
  <1>2. CASE t \notin clk_ptr
    <2>1. clk_cb' \in Seq(Timers)
      <3>1. clk_cb' = RemoveAt(clk_cb, node)
        BY <1>2 DEF ClkIncrCb, IteratorVisit
      <3> QED BY <3>1, RemoveAtProperties
    <2> QED BY <1>2, <2>1 DEF ClkIncrCb
  <1>3. CASE t \in clk_ptr
    <2> DEFINE next == IF CK % divisor[t] = 0
                       THEN (tcnt[t] + 1) % TcntModulus[t] ELSE tcnt[t]
    <2>1. next \in Nat /\ next < TcntModulus[t]
      <3>1. TcntModulus[t] \in Nat \ {0} /\ tcnt[t] \in Nat
        BY <1>1
      <3>2. (tcnt[t] + 1) % TcntModulus[t] \in 0..(TcntModulus[t] - 1)
        BY <3>1
      <3>3. tcnt[t] < TcntModulus[t]
        BY <1>1
      <3>4. \A n \in 0..(TcntModulus[t] - 1) : n \in Nat /\ n < TcntModulus[t]
        BY <3>1
      <3>5. CASE CK % divisor[t] = 0
        BY <3>2, <3>4, <3>5, Zenon
      <3>6. CASE ~(CK % divisor[t] = 0)
        BY <3>1, <3>3, <3>6, Zenon
      <3> QED BY <3>5, <3>6
    <2>2. tcnt' = [tcnt EXCEPT ![t] = next]
      BY <1>3 DEF ClkIncrCb
    <2>3. tcnt' \in [Timers -> Nat] /\ \A u \in Timers : tcnt'[u] < TcntModulus[u]
      BY <1>1, <2>1, <2>2
    <2>4. tifr' \subseteq Flags
      <3>1. OverflowFlag[t] \in Flags
        BY <1>1 DEF OverflowFlag, Flags
      <3>2. PICK cmp \in {{}} \cup CompareOutcomes(t) :
               tifr' = tifr \cup cmp \cup
                  IF CK % divisor[t] = 0 /\ next = 0 THEN {OverflowFlag[t]} ELSE {}
        BY <1>3, Zenon DEF ClkIncrCb
      <3>3. cmp \subseteq Flags
        BY <3>2 DEF CompareOutcomes
      <3> QED BY <3>1, <3>2, <3>3
    <2> QED BY <1>3, <2>3, <2>4 DEF ClkIncrCb
  <1> QED BY <1>2, <1>3

(* So does the interrupt callback. *)
LEMMA IntrCallbackKeepsType ==
    ASSUME TimersTypeOK, TimersAssumption, CoreAssumption,
           irq_pending \in Seq(Irqs), PendingUnique,
           node \in DOMAIN async_cb, TimerIntrCb(node, VectorAddr)
    PROVE  TimersTypeOK' /\ irq_pending' \in Seq(Irqs) /\ PendingUnique'
  <1>1. async_cb' \in Seq({"timer_intr"})
    <2>1. async_cb' \in {async_cb, RemoveAt(async_cb, node)}
      BY DEF TimerIntrCb, IteratorVisit
    <2>2. async_cb \in Seq({"timer_intr"})
      BY DEF TimersTypeOK
    <2> QED BY <2>1, <2>2, RemoveAtProperties
  <1>2. CASE intr_ptr /\ Serviceable # {}
    <2>1. IrqOfFlag[FlagServed] \in Irqs
      BY <1>2, ServedIrqIsNamed DEF CoreAssumption
    <2>2. irq_pending' = DListAdd(irq_pending, IrqOfFlag[FlagServed], VectorAddr)
      BY <1>2 DEF TimerIntrCb
    <2>3. irq_pending' \in Seq(Irqs) /\ DListUnique(irq_pending', VectorAddr)
      BY <2>1, <2>2, DListAddKeeps, Zenon DEF PendingUnique
    <2>4. tifr' \subseteq Flags
      BY <1>2 DEF TimerIntrCb, TimersTypeOK
    <2> QED BY <1>1, <2>3, <2>4 DEF TimerIntrCb, TimersTypeOK, PendingUnique
  <1>3. CASE ~(intr_ptr /\ Serviceable # {})
    <2>1. irq_pending' = irq_pending /\ tifr' = tifr
      BY <1>3 DEF TimerIntrCb
    <2> QED BY <1>1, <2>1 DEF TimerIntrCb, TimersTypeOK, PendingUnique
  <1> QED BY <1>2, <1>3

(* And a reset. *)
LEMMA ResetKeepsTimersType ==
    ASSUME TimersTypeOK, TimersAssumption, TimersReset
    PROVE  TimersTypeOK'
  <1>1. \A t \in Timers : 0 < TcntModulus[t]
    BY DEF TimersAssumption
  <1>2. divisor' = [t \in Timers |-> 0] /\ tcnt' = [t \in Timers |-> 0]
    BY DEF TimersReset
  <1>3. /\ divisor' \in [Timers -> Divisors \cup {0}]
        /\ tcnt' \in [Timers -> Nat]
        /\ \A t \in Timers : tcnt'[t] < TcntModulus[t]
    BY <1>1, <1>2
  <1>4. /\ clk_ptr' \subseteq Timers /\ timsk' \subseteq FuncMask
        /\ tifr' \subseteq Flags /\ intr_ptr' \in BOOLEAN
    BY DEF TimersReset
  <1>5. clk_cb' \in Seq(Timers) /\ async_cb' \in Seq({"timer_intr"})
    BY DEF TimersReset, TimersTypeOK
  <1> QED BY <1>3, <1>4, <1>5, Zenon DEF TimersTypeOK

----------------------------------------------------------------------------
(* Type correctness and the uniqueness of pending interrupts, together:     *)
(* irq_list_delete returns what is left of a list of distinct vectors.      *)
QueueInv == TypeInv /\ PendingUnique

(* What the types of the timers depend on. *)
LEMMA TimersSame ==
    ASSUME TimersTypeOK, UNCHANGED <<timer_vars, clk_cb, async_cb>>
    PROVE  TimersTypeOK'
  BY DEF TimersTypeOK, timer_vars

(* What the type of the pending list depends on. *)
LEMMA PendingSame ==
    ASSUME PendingUnique, UNCHANGED irq_pending
    PROVE  PendingUnique'
  BY DEF PendingUnique

(* The invariant holds at the start. *)
LEMMA QueueInit == ASSUME TimersAssumption, CoreAssumption, Init PROVE QueueInv
  <1>1. TimersTypeOK
    <2>1. \A t \in Timers : 0 < TcntModulus[t]
      BY DEF TimersAssumption
    <2>2. divisor = [t \in Timers |-> 0] /\ tcnt = [t \in Timers |-> 0]
      BY DEF Init, TimersInit
    <2>3. /\ divisor \in [Timers -> Divisors \cup {0}]
          /\ tcnt \in [Timers -> Nat]
          /\ \A t \in Timers : tcnt[t] < TcntModulus[t]
      BY <2>1, <2>2
    <2>4. /\ clk_ptr \subseteq Timers /\ timsk \subseteq FuncMask
          /\ tifr \subseteq Flags /\ intr_ptr \in BOOLEAN
      BY DEF Init, TimersInit
    <2>5. clk_cb \in Seq(Timers) /\ async_cb \in Seq({"timer_intr"})
      BY DEF Init
    <2> QED BY <2>3, <2>4, <2>5, Zenon DEF TimersTypeOK
  <1>2. stack \in Seq(Code) /\ irq_pending \in Seq(Irqs) /\ PendingUnique
    BY DEF Init, PendingUnique, DListUnique
  <1>3. CK \in 0..(CKPeriod - 1) /\ inst_CKS \in 0..5 /\ node \in Nat \ {0}
    BY DEF Init, TimersAssumption
  <1>4. /\ phase \in Phases /\ res \in {"other", "RETI", "BREAK"} /\ pc \in Code
        /\ sreg_i \in BOOLEAN /\ gpwr_clear \in BOOLEAN /\ ClocksLeft
    BY DEF Init, Phases, Code, ClocksLeft
  <1>5. TypeOK
    BY <1>1, <1>2, <1>3, <1>4, Zenon DEF TypeOK
  <1> QED BY <1>2, <1>4, <1>5 DEF QueueInv, TypeInv

(* The instructions. *)
LEMMA QueueExec ==
    ASSUME TimersAssumption, CoreAssumption, QueueInv, ExecNextInstruction
    PROVE  QueueInv'
  <1> USE DEF QueueInv, TypeInv
  <1>1. ASSUME NEW r \in {"other", "RETI", "BREAK"}, NEW c \in 0..5, Executes(r, c)
        PROVE  /\ phase' \in Phases /\ res' \in {"other", "RETI", "BREAK"}
               /\ inst_CKS' \in 0..5 /\ node' \in Nat \ {0}
               /\ CK' \in 0..(CKPeriod - 1) /\ ClocksLeft'
    BY <1>1 DEF Executes, TypeOK, ClocksLeft, Phases
  <1>2. CASE ExecOther
    <2>1. PICK c \in OtherCKS : Executes("other", c)
      BY <1>2 DEF ExecOther
    <2>2. c \in 0..5
      BY DEF CoreAssumption
    <2> QED BY <1>1, <1>2, <2>1, <2>2, TimersSame, PendingSame
            DEF ExecOther, TypeOK, lists
  <1>3. CASE ExecSei \/ ExecCli
    <2>1. Executes("other", 1) /\ 1 \in 0..5
      BY <1>3 DEF ExecSei, ExecCli
    <2>2. /\ UNCHANGED <<pc, stack, gpwr_clear, timer_vars, clk_cb, async_cb, irq_pending>>
          /\ sreg_i' \in BOOLEAN
      BY <1>3 DEF ExecSei, ExecCli, lists
    <2>3. TimersTypeOK' /\ PendingUnique'
      BY <2>2, TimersSame, PendingSame DEF TypeOK
    <2> QED BY <1>1, <2>1, <2>2, <2>3 DEF TypeOK
  <1>4. CASE ExecReti
    <2>1. Executes("RETI", PC_size + 2) /\ PC_size + 2 \in 0..5
      BY <1>4 DEF ExecReti, CoreAssumption
    <2>2. stack \in Seq(Code) /\ stack # <<>>
      BY <1>4 DEF ExecReti, TypeOK
    <2>3. Last(stack) \in Code /\ Front(stack) \in Seq(Code)
      BY <2>2 DEF Last, Front
    <2> QED BY <1>1, <1>4, <2>1, <2>3, TimersSame, PendingSame
            DEF ExecReti, TypeOK, lists
  <1>5. CASE ExecOut
    <2>1. TimersTypeOK'
      BY <1>5, WriteKeepsTimersType DEF ExecOut, TypeOK
    <2>2. irq_pending' = irq_pending
      BY <1>5 DEF ExecOut, WriteTimerRegister, WriteTccr, WriteTimsk, WriteTifr,
                  WriteTcnt0, TccrStop, TccrSelect, TimskWrite, TifrWrite, TcntWrite
    <2> QED BY <1>1, <1>5, <2>1, <2>2, PendingSame DEF ExecOut, TypeOK
  <1>6. CASE ExecBreak
    BY <1>1, <1>6, TimersSame, PendingSame DEF ExecBreak, TypeOK, lists
  <1>7. CASE ExecSleepWdr \/ ExecExternalClock
    BY <1>7, TimersSame, PendingSame
       DEF ExecSleepWdr, ExecExternalClock, Exits, TypeOK, lists, ClocksLeft, Phases
  <1> QED BY <1>2, <1>3, <1>4, <1>5, <1>6, <1>7 DEF ExecNextInstruction

(* The callbacks. *)
LEMMA QueueCallbacks ==
    ASSUME TimersAssumption, CoreAssumption, QueueInv,
           VisitClkNode \/ ClockDone \/ VisitAsyncNode \/ AsyncDone
    PROVE  QueueInv'
  <1> USE DEF QueueInv, TypeInv
  <1>1. CASE VisitClkNode
    <2>1. TimersTypeOK' /\ irq_pending' = irq_pending
      BY <1>1, ClkCallbackKeepsTimersType DEF VisitClkNode, TypeOK
    <2>2. node' \in Nat \ {0}
      BY <1>1 DEF VisitClkNode, IteratorNext, TypeOK
    <2> QED BY <1>1, <2>1, <2>2, PendingSame DEF VisitClkNode, TypeOK, ClocksLeft
  <1>2. CASE ClockDone
    <2>1. CK' \in 0..(CKPeriod - 1)
      <3>1. CKPeriod \in Nat \ {0} /\ CK \in Nat
        BY DEF TimersAssumption, TypeOK
      <3> QED BY <1>2, <3>1 DEF ClockDone
    <2>2. inst_CKS' \in 0..5 /\ (phase' = "clk" => inst_CKS' > 0)
      BY <1>2 DEF ClockDone, TypeOK, ClocksLeft
    <2> QED BY <1>2, <2>1, <2>2, TimersSame, PendingSame
            DEF ClockDone, TypeOK, ClocksLeft, Phases, lists
  <1>3. CASE VisitAsyncNode
    <2>1. TimersTypeOK' /\ irq_pending' \in Seq(Irqs) /\ PendingUnique'
      BY <1>3, IntrCallbackKeepsType DEF VisitAsyncNode, TypeOK
    <2>2. node' \in Nat \ {0}
      BY <1>3 DEF VisitAsyncNode, IteratorNext, TypeOK
    <2> QED BY <1>3, <2>1, <2>2 DEF VisitAsyncNode, TypeOK, ClocksLeft
  <1>4. CASE AsyncDone
    BY <1>4, TimersSame, PendingSame DEF AsyncDone, TypeOK, ClocksLeft, Phases, lists
  <1> QED BY <1>1, <1>2, <1>3, <1>4

(* A reset keeps types, and no interrupt is pending after it. *)
LEMMA QueueReset ==
    ASSUME TimersAssumption, CoreAssumption, QueueInv, CoreReset,
           UNCHANGED <<res, node, CK>>, phase' = "step"
    PROVE  QueueInv'
  <1> USE DEF QueueInv, TypeInv
  <1>1. TimersTypeOK'
    BY ResetKeepsTimersType DEF CoreReset, TypeOK
  <1>2. stack' = <<>> /\ irq_pending' = <<>> /\ inst_CKS' = 0 /\ pc' = "main"
    BY DEF CoreReset
  <1>3. stack' \in Seq(Code) /\ irq_pending' \in Seq(Irqs) /\ PendingUnique'
    BY <1>2 DEF PendingUnique, DListUnique
  <1>4. pc' \in Code /\ sreg_i' \in BOOLEAN /\ gpwr_clear' \in BOOLEAN /\ phase' \in Phases
    BY <1>2 DEF CoreReset, Code, Phases
  <1> QED BY <1>1, <1>2, <1>3, <1>4 DEF TypeOK, ClocksLeft

(* avr_error keeps it. *)
LEMMA QueueExits ==
    ASSUME QueueInv, Exits
    PROVE  QueueInv'
  BY TimersSame, PendingSame
     DEF QueueInv, TypeInv, Exits, TypeOK, ClocksLeft, Phases, lists

(* So does avr_core_check_interrupts. *)
LEMMA QueueCheck ==
    ASSUME TimersAssumption, CoreAssumption, QueueInv, CheckInterrupts
    PROVE  QueueInv'
  <1>1. CASE CheckNothing \/ CheckMasked
    <2>1. /\ UNCHANGED <<res, node, CK, inst_CKS, pc, stack, sreg_i, gpwr_clear,
                         timer_vars, clk_cb, async_cb, irq_pending>>
          /\ phase' = "step"
      BY <1>1 DEF CheckNothing, CheckMasked, Check, lists
    <2>2. TimersTypeOK' /\ PendingUnique'
      BY <2>1, TimersSame, PendingSame DEF QueueInv, TypeInv, TypeOK
    <2> QED BY <2>1, <2>2 DEF QueueInv, TypeInv, TypeOK, ClocksLeft, Phases
  <1>2. CASE CheckInvalid
    BY <1>2, QueueExits DEF CheckInvalid
  <1>3. CASE CheckReset
    BY <1>3, QueueReset DEF CheckReset, Check
  <1>4. CASE CheckVector
    <2>1. irq_pending # <<>> /\ irq_pending \in Seq(Irqs) /\ PendingUnique
      BY <1>4 DEF CheckVector, Examines, QueueInv, TypeInv, TypeOK
    <2>2. irq_pending[1] \in Irqs
      BY <2>1
    <2>3. irq_pending' = DListDelete(irq_pending, irq_pending[1], VectorAddr)
      BY <1>4 DEF CheckVector, PendingHead
    <2>4. irq_pending' \in Seq(Irqs) /\ PendingUnique'
      BY <2>1, <2>3, DListDeleteHead, Zenon DEF PendingUnique
    <2>5. /\ UNCHANGED <<res, node, CK, inst_CKS, gpwr_clear,
                         timer_vars, clk_cb, async_cb>>
          /\ phase' = "step" /\ pc' = irq_pending[1] /\ sreg_i' = FALSE
          /\ stack' = Append(stack, pc)
      BY <1>4 DEF CheckVector, Check, PendingHead
    <2>6. TimersTypeOK'
      BY <2>5, TimersSame DEF QueueInv, TypeInv, TypeOK
    <2>7. stack' \in Seq(Code) /\ pc' \in Code
      BY <2>2, <2>5 DEF Code, QueueInv, TypeInv, TypeOK
    <2> QED BY <2>4, <2>5, <2>6, <2>7
            DEF QueueInv, TypeInv, TypeOK, ClocksLeft, Phases
  <1> QED BY <1>1, <1>2, <1>3, <1>4 DEF CheckInterrupts

(* So does the debugger between steps. *)
LEMMA QueueDebugger ==
    ASSUME TimersAssumption, CoreAssumption, QueueInv, Debugger
    PROVE  QueueInv'
  <1>1. CASE DebuggerRaise
    <2>1. PICK q \in DebuggerIrqs : irq_pending' = DListAdd(irq_pending, q, VectorAddr)
      BY <1>1 DEF DebuggerRaise
    <2>2. q \in Irqs /\ irq_pending \in Seq(Irqs) /\ PendingUnique
      BY <2>1 DEF CoreAssumption, QueueInv, TypeInv, TypeOK
    <2>3. irq_pending' \in Seq(Irqs) /\ PendingUnique'
      BY <2>1, <2>2, DListAddKeeps, Zenon DEF PendingUnique
    <2>4. UNCHANGED <<core_vars, timer_vars, clk_cb, async_cb>>
      BY <1>1 DEF DebuggerRaise
    <2>5. TimersTypeOK'
      BY <2>4, TimersSame DEF QueueInv, TypeInv, TypeOK
    <2> QED BY <2>3, <2>4, <2>5 DEF QueueInv, TypeInv, TypeOK, ClocksLeft, core_vars
  <1>2. CASE DebuggerReset
    BY <1>2, QueueReset DEF DebuggerReset
  <1>3. CASE DebuggerWrite
    <2>1. UNCHANGED <<phase, res, inst_CKS, node, CK, pc, stack>>
      BY <1>3 DEF DebuggerWrite
    <2>2. sreg_i' \in BOOLEAN /\ gpwr_clear' \in BOOLEAN
      BY <1>3 DEF DebuggerWrite, QueueInv, TypeInv, TypeOK
    <2>3. WriteTimerRegister(FALSE) \/ UNCHANGED <<timer_vars, lists>>
      BY <1>3 DEF DebuggerWrite
    <2>4. TimersTypeOK' /\ irq_pending' = irq_pending
      <3>1. CASE WriteTimerRegister(FALSE)
        <4>1. TimersTypeOK'
          BY <3>1, WriteKeepsTimersType DEF QueueInv, TypeInv, TypeOK
        <4>2. irq_pending' = irq_pending
          BY <3>1 DEF WriteTimerRegister, WriteTccr, WriteTimsk, WriteTifr,
                  WriteTcnt0, TccrStop, TccrSelect, TimskWrite, TifrWrite, TcntWrite
        <4> QED BY <4>1, <4>2
      <3>2. CASE UNCHANGED <<timer_vars, lists>>
        BY <3>2, TimersSame DEF lists, QueueInv, TypeInv, TypeOK
      <3> QED BY <2>3, <3>1, <3>2
    <2>5. PendingUnique'
      BY <2>4, PendingSame DEF QueueInv
    <2> QED BY <2>1, <2>2, <2>4, <2>5 DEF QueueInv, TypeInv, TypeOK, ClocksLeft
  <1>4. CASE DebuggerExternalClock
    BY <1>4, QueueExits DEF DebuggerExternalClock
  <1> QED BY <1>1, <1>2, <1>3, <1>4 DEF Debugger

(* So does every step. *)
LEMMA QueueStep ==
    ASSUME TimersAssumption, CoreAssumption, QueueInv, [Next]_vars
    PROVE  QueueInv'
  <1>1. CASE UNCHANGED vars
    BY <1>1, TimersSame, PendingSame
       DEF vars, core_vars, lists, QueueInv, TypeInv, TypeOK, ClocksLeft
  <1>2. CASE ExecNextInstruction
    BY <1>2, QueueExec
  <1>3. CASE VisitClkNode \/ ClockDone \/ VisitAsyncNode \/ AsyncDone
    BY <1>3, QueueCallbacks
  <1>4. CASE CheckInterrupts
    BY <1>4, QueueCheck
  <1>5. CASE Debugger
    BY <1>5, QueueDebugger
  <1> QED BY <1>1, <1>2, <1>3, <1>4, <1>5 DEF Next, Step, Exited

(* The types and the uniqueness of pending vectors hold throughout. *)
THEOREM QueueCorrect == Spec => []QueueInv
  <1>1. TimersAssumption /\ CoreAssumption
    BY TimersAssumed, CoreAssumed
  <1>2. Init => QueueInv
    BY <1>1, QueueInit
  <1>3. QueueInv /\ [Next]_vars => QueueInv'
    BY <1>1, QueueStep
  <1> QED BY <1>2, <1>3, PTL DEF Spec

(* Every variable keeps its type, and no clock is run that the instruction *)
(* does not take.                                                           *)
THEOREM TypeCorrect == Spec => []TypeOK
  <1>1. QueueInv => TypeOK
    BY DEF QueueInv, TypeInv
  <1> QED BY <1>1, QueueCorrect, PTL

(* irq_list_add and irq_list_delete keep the pending vectors distinct, in   *)
(* any mix of callbacks, handlers, resets and raises by the debugger.       *)
THEOREM PendingAlwaysUnique == Spec => []PendingUnique
  <1>1. QueueInv => PendingUnique
    BY DEF QueueInv
  <1> QED BY <1>1, QueueCorrect, PTL

----------------------------------------------------------------------------
(* RunningHasDivisor *)
LEMMA WriteKeepsDivisor ==
    ASSUME TimersTypeOK, TimersAssumption, RunningHasDivisor,
           NEW zero \in BOOLEAN, WriteTimerRegister(zero)
    PROVE  RunningHasDivisor'
  <1> USE DEF RunningHasDivisor
  <1>0. divisor \in [Timers -> Divisors \cup {0}] /\ clk_ptr \subseteq Timers
    BY DEF TimersTypeOK
  <1>1. ASSUME NEW t \in Timers, TccrStop(t)
        PROVE  RunningHasDivisor'
    BY <1>0, <1>1 DEF TccrStop
  <1>2. ASSUME NEW t \in Timers, NEW d \in Divisors, TccrSelect(t, d)
        PROVE  RunningHasDivisor'
    <2>1. d > 0
      BY DEF TimersAssumption
    <2> QED BY <1>0, <1>2, <2>1 DEF TccrSelect
  <1>3. CASE WriteTimsk(zero) \/ WriteTifr(zero) \/ WriteTcnt0(zero)
    BY <1>3 DEF WriteTimsk, WriteTifr, WriteTcnt0, TimskWrite, TifrWrite, TcntWrite
  <1> QED BY <1>1, <1>2, <1>3 DEF WriteTimerRegister, WriteTccr

(* Every step keeps a divisor under a clock callback. *)
LEMMA DivisorStep ==
    ASSUME TimersAssumption, QueueInv, RunningHasDivisor, [Next]_vars
    PROVE  RunningHasDivisor'
  <1>1. CASE UNCHANGED <<divisor, clk_ptr>>
    BY <1>1 DEF RunningHasDivisor
  <1>2. CASE ExecOut
    BY <1>2, WriteKeepsDivisor DEF ExecOut, QueueInv, TypeInv, TypeOK
  <1>3. CASE DebuggerWrite
    <2>1. WriteTimerRegister(FALSE) \/ UNCHANGED <<divisor, clk_ptr>>
      BY <1>3 DEF DebuggerWrite, timer_vars
    <2> QED BY <1>1, <2>1, WriteKeepsDivisor DEF QueueInv, TypeInv, TypeOK
  <1>4. CASE CheckReset \/ DebuggerReset
    BY <1>4 DEF CheckReset, DebuggerReset, CoreReset, TimersReset, RunningHasDivisor
  <1>5. \/ UNCHANGED <<divisor, clk_ptr>> \/ ExecOut \/ DebuggerWrite
        \/ CheckReset \/ DebuggerReset
    BY DEF Next, Step, Debugger, Exited, ExecNextInstruction, CheckInterrupts,
           ExecOther, ExecSei, ExecCli, ExecReti, ExecBreak, ExecSleepWdr,
           ExecExternalClock, Exits, VisitClkNode, ClkIncrCb, ClockDone,
           VisitAsyncNode, TimerIntrCb, AsyncDone, CheckNothing, CheckMasked,
           CheckInvalid, CheckVector, DebuggerRaise, DebuggerExternalClock,
           vars, timer_vars
  <1> QED BY <1>1, <1>2, <1>3, <1>4, <1>5

(* No clock of a running timer meets a divisor it calls bad, also when the  *)
(* debugger writes registers.                                               *)
THEOREM RunningIsPrescaled == Spec => []RunningHasDivisor
  <1>1. TimersAssumption
    BY TimersAssumed
  <1>2. Init => RunningHasDivisor
    BY DEF Init, TimersInit, RunningHasDivisor
  <1>3. QueueInv /\ RunningHasDivisor /\ [Next]_vars => RunningHasDivisor'
    BY <1>1, DivisorStep
  <1> QED BY <1>2, <1>3, QueueCorrect, PTL DEF Spec

----------------------------------------------------------------------------
(***************************************************************************)
(* Why a device has one node in a callback list, though nothing in the     *)
(* lists enforces it: a proof of OneNodePerDevice and ListsSwept for a      *)
(* program, resets and raised interrupts, without register writes by the   *)
(* debugger (with them it is false, see OneIncrementor).                    *)
(***************************************************************************)

(* How far the clock loop has swept the clock callbacks: the nodes visited *)
(* in this clock are those of running timers, and so are all the nodes once *)
(* an instruction with clocks was executed after a reset.                   *)
ClkSweep ==
    /\ phase = "clk" =>
          \A i \in DOMAIN clk_cb : i < node => clk_cb[i] \in clk_ptr
    /\ phase \in {"async", "check", "step"} /\ ~gpwr_clear =>
          ToSet(clk_cb) \subseteq clk_ptr

(* The same of the asynchronous callbacks. *)
AsyncSweep ==
    /\ phase = "async" =>
          \A i \in DOMAIN async_cb : i < node => intr_ptr
    /\ phase \in {"check", "step"} /\ ~gpwr_clear =>
          (async_cb # <<>> => intr_ptr)

SweepInv == ClkSweep /\ AsyncSweep /\ OneNodePerDevice

----------------------------------------------------------------------------
(* What the nodes of the callback lists depend on. *)
LEMMA NodesSame ==
    ASSUME OneNodePerDevice, UNCHANGED <<clk_cb, async_cb, clk_ptr, intr_ptr>>
    PROVE  OneNodePerDevice'
  BY DEF OneNodePerDevice

(* At the start of a loop nothing is visited. *)
LEMMA StartsClk ==
    ASSUME clk_cb' \in Seq(Timers), phase' = "clk", node' = 1
    PROVE  ClkSweep' /\ AsyncSweep'
  <1>1. \A i \in DOMAIN clk_cb' : ~(i < 1)
    OBVIOUS
  <1> QED BY <1>1 DEF ClkSweep, AsyncSweep

(* The asynchronous walk starts when the clocks are done. *)
LEMMA StartsAsync ==
    ASSUME async_cb' \in Seq({"timer_intr"}), phase' = "async", node' = 1,
           ~gpwr_clear' => ToSet(clk_cb') \subseteq clk_ptr'
    PROVE  ClkSweep' /\ AsyncSweep'
  <1>1. \A i \in DOMAIN async_cb' : ~(i < 1)
    OBVIOUS
  <1> QED BY <1>1 DEF ClkSweep, AsyncSweep

(* A write can install a callback only where the lists were swept. *)
LEMMA WriteKeepsOneNode ==
    ASSUME TimersTypeOK, OneNodePerDevice, NEW zero \in BOOLEAN,
           ~zero => /\ ToSet(clk_cb) \subseteq clk_ptr
                    /\ async_cb # <<>> => intr_ptr,
           WriteTimerRegister(zero)
    PROVE  OneNodePerDevice'
  <1>1. ASSUME NEW t \in Timers, TccrStop(t)
        PROVE  OneNodePerDevice'
    BY <1>1 DEF TccrStop, OneNodePerDevice
  <1>2. ASSUME NEW t \in Timers, NEW d \in Divisors, ~zero, TccrSelect(t, d)
        PROVE  OneNodePerDevice'
    <2>1. clk_ptr' = clk_ptr \cup {t} /\ async_cb' = async_cb /\ intr_ptr' = intr_ptr
      BY <1>2 DEF TccrSelect
    <2>2. CASE t \in clk_ptr
      BY <1>2, <2>1, <2>2 DEF TccrSelect, OneNodePerDevice
    <2>3. CASE t \notin clk_ptr
      <3>1. clk_cb' = Append(clk_cb, t) /\ clk_cb \in Seq(Timers)
        BY <1>2, <2>3 DEF TccrSelect, TimersTypeOK
      <3>2. t \notin ToSet(clk_cb) /\ IsInjective(clk_cb)
        BY <1>2, <2>3 DEF OneNodePerDevice
      <3>3. IsInjective(clk_cb') /\ ToSet(clk_cb') = ToSet(clk_cb) \cup {t}
        BY <3>1, <3>2, AppendKeepsInjective, Zenon
      <3> QED BY <2>1, <3>3 DEF OneNodePerDevice
    <2> QED BY <2>2, <2>3
  <1>3. ASSUME WriteTimsk(zero)
        PROVE  OneNodePerDevice'
    <2>1. PICK es : /\ TimskWrite(es)
                    /\ zero => es = {}
      BY <1>3 DEF WriteTimsk
    <2>2. clk_cb' = clk_cb /\ clk_ptr' = clk_ptr /\ intr_ptr' = (timsk' # {})
      BY <2>1 DEF TimskWrite
    <2>3. CASE timsk' # {} /\ ~intr_ptr
      <3>1. async_cb = <<>>
        BY <2>1, <2>3 DEF TimskWrite
      <3>2. async_cb' = Append(async_cb, "timer_intr") /\ async_cb \in Seq({"timer_intr"})
        BY <2>1, <2>3 DEF TimskWrite, TimersTypeOK
      <3>3. "timer_intr" \notin ToSet(async_cb) /\ IsInjective(async_cb)
        BY <3>1 DEF ToSet, IsInjective
      <3>4. IsInjective(async_cb') /\ async_cb' # <<>>
        BY <3>2, <3>3, AppendKeepsInjective, Zenon
      <3> QED BY <2>2, <3>4 DEF OneNodePerDevice
    <2>4. CASE ~(timsk' # {} /\ ~intr_ptr)
      <3>1. async_cb' = async_cb
        BY <2>1, <2>4 DEF TimskWrite
      <3> QED BY <2>2, <2>4, <3>1 DEF OneNodePerDevice
    <2> QED BY <2>3, <2>4
  <1>4. ASSUME WriteTifr(zero) \/ WriteTcnt0(zero)
        PROVE  OneNodePerDevice'
    BY <1>4, NodesSame DEF WriteTifr, WriteTcnt0, TifrWrite, TcntWrite
  <1> QED BY <1>1, <1>2, <1>3, <1>4 DEF WriteTimerRegister, WriteTccr

(* An instruction keeps the callback lists in order. *)
LEMMA SweepExec ==
    ASSUME TimersAssumption, CoreAssumption, QueueInv, QueueInv', SweepInv,
           ExecNextInstruction
    PROVE  SweepInv'
  <1>1. clk_cb' \in Seq(Timers) /\ async_cb' \in Seq({"timer_intr"})
    BY DEF QueueInv, TypeInv, TypeOK, TimersTypeOK
  <1>2. ASSUME NEW r, NEW c \in 1..5, Executes(r, c), OneNodePerDevice'
        PROVE  SweepInv'
    <2>1. phase' = "clk" /\ node' = 1
      BY <1>2 DEF Executes
    <2> QED BY <1>1, <1>2, <2>1, StartsClk DEF SweepInv
  <1>3. CASE ExecOther \/ ExecSei \/ ExecCli \/ ExecReti
    <2>1. OneNodePerDevice'
      BY <1>3, NodesSame DEF SweepInv, ExecOther, ExecSei, ExecCli, ExecReti,
                             timer_vars, lists
    <2>2. \E c \in 1..5 : \E r \in {"other", "RETI"} : Executes(r, c)
      <3>1. CASE ExecOther
        <4>1. PICK c \in OtherCKS : Executes("other", c)
          BY <3>1 DEF ExecOther
        <4>2. c \in 1..5
          BY DEF CoreAssumption
        <4> QED BY <4>1, <4>2
      <3>2. CASE ExecSei \/ ExecCli
        <4>1. Executes("other", 1) /\ 1 \in 1..5
          BY <3>2 DEF ExecSei, ExecCli
        <4> QED BY <4>1
      <3>3. CASE ExecReti
        <4>1. Executes("RETI", PC_size + 2) /\ PC_size + 2 \in 1..5
          BY <3>3 DEF ExecReti, CoreAssumption
        <4> QED BY <4>1
      <3> QED BY <1>3, <3>1, <3>2, <3>3
    <2> QED BY <1>2, <2>1, <2>2
  <1>4. CASE ExecOut
    <2>1. phase = "step" /\ Executes("other", 1)
      BY <1>4 DEF ExecOut, Executes
    <2>2. ~gpwr_clear => /\ ToSet(clk_cb) \subseteq clk_ptr
                         /\ async_cb # <<>> => intr_ptr
      BY <2>1 DEF SweepInv, ClkSweep, AsyncSweep
    <2>3. OneNodePerDevice'
      BY <1>4, <2>2, WriteKeepsOneNode
         DEF ExecOut, SweepInv, QueueInv, TypeInv, TypeOK
    <2> QED BY <1>2, <2>1, <2>3
  <1>5. CASE ExecBreak
    <2>1. /\ phase = "step" /\ phase' = "async" /\ node' = 1
          /\ UNCHANGED <<gpwr_clear, clk_cb, async_cb, clk_ptr, intr_ptr>>
      BY <1>5 DEF ExecBreak, Executes, timer_vars, lists
    <2>2. ~gpwr_clear' => ToSet(clk_cb') \subseteq clk_ptr'
      BY <2>1 DEF SweepInv, ClkSweep
    <2> QED BY <1>1, <2>1, <2>2, NodesSame, StartsAsync DEF SweepInv
  <1>6. CASE ExecSleepWdr \/ ExecExternalClock
    BY <1>6, NodesSame DEF ExecSleepWdr, ExecExternalClock, Exits, timer_vars, lists,
                           SweepInv, ClkSweep, AsyncSweep
  <1> QED BY <1>3, <1>4, <1>5, <1>6 DEF ExecNextInstruction

(* So does the walk of the clock callbacks. *)
LEMMA SweepClk ==
    ASSUME QueueInv, QueueInv', SweepInv, VisitClkNode \/ ClockDone
    PROVE  SweepInv'
  <1>0. /\ clk_cb \in Seq(Timers) /\ DOMAIN clk_cb = 1..Len(clk_cb)
        /\ Len(clk_cb) \in Nat /\ node \in Nat \ {0}
        /\ clk_cb' \in Seq(Timers) /\ async_cb' \in Seq({"timer_intr"})
    BY DEF QueueInv, TypeInv, TypeOK, TimersTypeOK
  <1>1. CASE VisitClkNode /\ clk_cb[node] \notin clk_ptr
    <2>1. /\ phase = "clk" /\ phase' = "clk" /\ node \in DOMAIN clk_cb
          /\ node' = node /\ clk_cb' = RemoveAt(clk_cb, node)
          /\ UNCHANGED <<gpwr_clear, clk_ptr, async_cb, intr_ptr>>
      BY <1>1 DEF VisitClkNode, ClkIncrCb, IteratorVisit, IteratorNext
    <2>2. /\ IsInjective(clk_cb')
          /\ ToSet(clk_cb') = ToSet(clk_cb) \ {clk_cb[node]}
      BY <1>0, <2>1, RemoveAtRange, Zenon DEF SweepInv, OneNodePerDevice
    <2>3. /\ DOMAIN clk_cb' = 1..(Len(clk_cb) - 1)
          /\ \A j \in 1..(Len(clk_cb) - 1) :
                clk_cb'[j] = IF j < node THEN clk_cb[j] ELSE clk_cb[j + 1]
      BY <1>0, <2>1, RemoveAtProperties, Zenon
    <2>4. ASSUME NEW i \in DOMAIN clk_cb', i < node PROVE clk_cb'[i] \in clk_ptr
      <3>1. i \in DOMAIN clk_cb /\ clk_cb'[i] = clk_cb[i]
        BY <1>0, <2>3, <2>4
      <3> QED BY <2>1, <2>4, <3>1 DEF SweepInv, ClkSweep
    <2>5. ClkSweep' /\ AsyncSweep'
      BY <2>1, <2>4 DEF ClkSweep, AsyncSweep
    <2>6. OneNodePerDevice'
      BY <1>1, <2>1, <2>2 DEF SweepInv, OneNodePerDevice
    <2> QED BY <2>5, <2>6 DEF SweepInv
  <1>2. CASE VisitClkNode /\ clk_cb[node] \in clk_ptr
    <2>1. /\ phase = "clk" /\ phase' = "clk" /\ node' = node + 1
          /\ UNCHANGED <<gpwr_clear, clk_ptr, clk_cb, async_cb, intr_ptr>>
      BY <1>2 DEF VisitClkNode, ClkIncrCb, IteratorNext
    <2>2. ASSUME NEW i \in DOMAIN clk_cb, i < node + 1 PROVE clk_cb[i] \in clk_ptr
      <3>1. i < node \/ i = node
        BY <1>0, <2>2
      <3> QED BY <1>2, <2>1, <3>1 DEF SweepInv, ClkSweep
    <2>3. ClkSweep' /\ AsyncSweep'
      BY <2>1, <2>2 DEF ClkSweep, AsyncSweep
    <2> QED BY <2>1, <2>3, NodesSame DEF SweepInv
  <1>3. CASE ClockDone
    <2>1. /\ phase = "clk" /\ phase' \in {"clk", "async"} /\ node' = 1
          /\ node \notin DOMAIN clk_cb
          /\ UNCHANGED <<gpwr_clear, clk_ptr, clk_cb, async_cb, intr_ptr>>
      BY <1>3 DEF ClockDone, timer_vars, lists
    <2>2. ToSet(clk_cb) \subseteq clk_ptr
      <3>1. \A i \in DOMAIN clk_cb : i < node
        BY <1>0, <2>1
      <3> QED BY <2>1, <3>1 DEF SweepInv, ClkSweep, ToSet
    <2>3. ClkSweep' /\ AsyncSweep'
      BY <1>0, <2>1, <2>2, StartsClk, StartsAsync
    <2> QED BY <2>1, <2>3, NodesSame DEF SweepInv
  <1> QED BY <1>1, <1>2, <1>3

(* So does the walk of the asynchronous callbacks. *)
LEMMA SweepAsync ==
    ASSUME QueueInv, SweepInv, VisitAsyncNode \/ AsyncDone
    PROVE  SweepInv'
  <1>0. /\ async_cb \in Seq({"timer_intr"}) /\ DOMAIN async_cb = 1..Len(async_cb)
        /\ Len(async_cb) \in Nat /\ node \in Nat \ {0}
    BY DEF QueueInv, TypeInv, TypeOK, TimersTypeOK
  <1>1. CASE VisitAsyncNode /\ ~intr_ptr
    <2>1. /\ phase = "async" /\ phase' = "async" /\ node \in DOMAIN async_cb
          /\ node' = node /\ async_cb' = RemoveAt(async_cb, node)
          /\ UNCHANGED <<gpwr_clear, clk_ptr, clk_cb, intr_ptr>>
      BY <1>1 DEF VisitAsyncNode, TimerIntrCb, IteratorVisit, IteratorNext
    <2>2. IsInjective(async_cb')
      BY <1>0, <2>1, RemoveAtRange, Zenon DEF SweepInv, OneNodePerDevice
    <2>3. DOMAIN async_cb' = 1..(Len(async_cb) - 1)
      BY <1>0, <2>1, RemoveAtProperties, Zenon
    <2>4. \A i \in DOMAIN async_cb' : i \in DOMAIN async_cb
      BY <1>0, <2>3
    <2>5. ClkSweep' /\ AsyncSweep'
      BY <2>1, <2>4 DEF SweepInv, ClkSweep, AsyncSweep
    <2> QED BY <1>1, <2>1, <2>2, <2>5 DEF SweepInv, OneNodePerDevice
  <1>2. CASE VisitAsyncNode /\ intr_ptr
    <2>1. /\ phase = "async" /\ phase' = "async" /\ node' = node + 1
          /\ UNCHANGED <<gpwr_clear, clk_ptr, clk_cb, async_cb, intr_ptr>>
      BY <1>2 DEF VisitAsyncNode, TimerIntrCb, IteratorVisit, IteratorNext
    <2>2. ClkSweep' /\ AsyncSweep'
      BY <1>2, <2>1 DEF SweepInv, ClkSweep, AsyncSweep
    <2> QED BY <2>1, <2>2, NodesSame DEF SweepInv
  <1>3. CASE AsyncDone
    <2>1. /\ phase = "async" /\ phase' = "check" /\ node \notin DOMAIN async_cb
          /\ UNCHANGED <<gpwr_clear, clk_ptr, clk_cb, async_cb, intr_ptr>>
      BY <1>3 DEF AsyncDone, timer_vars, lists
    <2>2. async_cb # <<>> => intr_ptr
      <3>1. ASSUME async_cb # <<>> PROVE 1 \in DOMAIN async_cb /\ 1 < node
        BY <1>0, <2>1, <3>1
      <3> QED BY <2>1, <3>1 DEF SweepInv, AsyncSweep
    <2>3. ClkSweep' /\ AsyncSweep'
      BY <2>1, <2>2 DEF SweepInv, ClkSweep, AsyncSweep
    <2> QED BY <2>1, <2>3, NodesSame DEF SweepInv
  <1> QED BY <1>1, <1>2, <1>3

(* So does a reset. *)
LEMMA SweepReset ==
    ASSUME SweepInv, CoreReset, phase' = "step"
    PROVE  SweepInv'
  BY DEF SweepInv, ClkSweep, AsyncSweep, OneNodePerDevice, CoreReset, TimersReset

(* So does avr_core_check_interrupts. *)
LEMMA SweepCheck ==
    ASSUME SweepInv, CheckInterrupts
    PROVE  SweepInv'
  <1>1. CASE CheckNothing \/ CheckMasked \/ CheckVector
    <2>1. /\ phase = "check" /\ phase' = "step"
          /\ UNCHANGED <<gpwr_clear, clk_ptr, clk_cb, async_cb, intr_ptr>>
      BY <1>1 DEF CheckNothing, CheckMasked, CheckVector, Check, timer_vars, lists
    <2>2. ClkSweep' /\ AsyncSweep'
      BY <2>1 DEF SweepInv, ClkSweep, AsyncSweep
    <2> QED BY <2>1, <2>2, NodesSame DEF SweepInv
  <1>2. CASE CheckInvalid
    BY <1>2, NodesSame DEF CheckInvalid, Exits, timer_vars, lists,
                           SweepInv, ClkSweep, AsyncSweep
  <1>3. CASE CheckReset
    BY <1>3, SweepReset DEF CheckReset, Check
  <1> QED BY <1>1, <1>2, <1>3 DEF CheckInterrupts

(* So does every step. *)
LEMMA SweepStep ==
    ASSUME TimersAssumption, CoreAssumption, ~DebuggerWrites,
           QueueInv, QueueInv', SweepInv, [Next]_vars
    PROVE  SweepInv'
  <1>1. CASE UNCHANGED vars
    BY <1>1, NodesSame DEF vars, core_vars, timer_vars, lists,
                           SweepInv, ClkSweep, AsyncSweep
  <1>2. CASE ExecNextInstruction
    BY <1>2, SweepExec
  <1>3. CASE VisitClkNode \/ ClockDone
    BY <1>3, SweepClk
  <1>4. CASE VisitAsyncNode \/ AsyncDone
    BY <1>4, SweepAsync
  <1>5. CASE CheckInterrupts
    BY <1>5, SweepCheck
  <1>6. CASE DebuggerRaise
    BY <1>6, NodesSame DEF DebuggerRaise, core_vars, timer_vars,
                           SweepInv, ClkSweep, AsyncSweep
  <1>7. CASE DebuggerReset
    BY <1>7, SweepReset DEF DebuggerReset
  <1>8. CASE DebuggerWrite \/ DebuggerExternalClock
    BY <1>8 DEF DebuggerWrite, DebuggerExternalClock
  <1> QED BY <1>1, <1>2, <1>3, <1>4, <1>5, <1>6, <1>7, <1>8
          DEF Next, Step, Debugger, Exited

(* The callback lists are in order throughout. *)
THEOREM SweepCorrect == ~DebuggerWrites /\ Spec => []SweepInv
  <1> SUFFICES ASSUME ~DebuggerWrites PROVE Spec => []SweepInv
    OBVIOUS
  <1>1. TimersAssumption /\ CoreAssumption
    BY TimersAssumed, CoreAssumed
  <1>2. Init => SweepInv
    BY DEF Init, TimersInit, SweepInv, ClkSweep, AsyncSweep, OneNodePerDevice,
           IsInjective, ToSet
  <1>3. QueueInv /\ QueueInv' /\ SweepInv /\ [Next]_vars => SweepInv'
    BY <1>1, SweepStep
  <1> QED BY <1>2, <1>3, QueueCorrect, PTL DEF Spec

(* Every clock reaches a device once: no callback list has two nodes of one *)
(* device, and the pointer of a running device has its node.                *)
THEOREM OneNodeEach == ~DebuggerWrites /\ Spec => []OneNodePerDevice
  <1>1. SweepInv => OneNodePerDevice
    BY DEF SweepInv
  <1> QED BY <1>1, SweepCorrect, PTL

(* An instruction that can write anything but zero finds the lists swept of *)
(* the nodes a reset left behind.                                           *)
THEOREM SweptBeforeWrites == ~DebuggerWrites /\ Spec => []ListsSwept
  <1>1. SweepInv => ListsSwept
    BY DEF SweepInv, ClkSweep, AsyncSweep, OneNodePerDevice, ListsSwept
  <1> QED BY <1>1, SweepCorrect, PTL

----------------------------------------------------------------------------
(***************************************************************************)
(* The core implements the interrupt promise of module Interrupts, and the *)
(* return addresses lead back to the mainline.                             *)
(***************************************************************************)

(* Front and Last undo Append. *)
LEMMA AppendUndone ==
    ASSUME NEW S, NEW s \in Seq(S), NEW x \in S
    PROVE  /\ Front(Append(s, x)) = s
           /\ Len(Append(s, x)) = Len(s) + 1
           /\ Append(s, x)[Len(s) + 1] = x
           /\ \A i \in 1..Len(s) : Append(s, x)[i] = s[i]
           /\ s # <<>> => Append(Front(s), Last(s)) = s
  BY DEF Front, Last

(* RETI undoes what taking a vector did to the frames. *)
LEMMA FramesReti ==
    ASSUME QueueInv, ExecReti
    PROVE  /\ Append(stack', pc') = stack
           /\ Front(Append(stack, pc)) = stack
           /\ Len(Append(stack, pc)) > 1
  <1>1. stack \in Seq(Code) /\ pc \in Code /\ stack # <<>> /\ Len(stack) \in Nat /\ Len(stack) > 0
    BY DEF ExecReti, QueueInv, TypeInv, TypeOK
  <1>2. stack' = Front(stack) /\ pc' = Last(stack)
    BY DEF ExecReti
  <1> QED BY <1>1, <1>2, AppendUndone

----------------------------------------------------------------------------
(* ReturnChain *)
LEMMA ChainStep ==
    ASSUME CoreAssumption, QueueInv, ReturnChain, [Next]_vars
    PROVE  ReturnChain'
  <1> USE DEF ReturnChain
  <1>1. CASE UNCHANGED <<pc, stack>>
    BY <1>1
  <1>2. CASE ExecReti
    <2>1. stack \in Seq(Code) /\ pc \in Code /\ DOMAIN stack = 1..Len(stack)
          /\ Len(stack) \in Nat
      BY DEF QueueInv, TypeInv, TypeOK
    <2>2. Append(stack', pc') = stack
      BY <1>2, FramesReti
    <2>3. /\ DOMAIN stack \subseteq DOMAIN Append(stack, pc)
          /\ \A i \in DOMAIN stack : Append(stack, pc)[i] = stack[i]
      BY <2>1
    <2>4. \A i \in DOMAIN stack : stack[i] = "main" <=> i = 1
      BY <2>3
    <2> QED BY <2>2, <2>4
  <1>3. CASE CheckVector
    <2> DEFINE frames == Append(stack, pc)
    <2>1. /\ frames \in Seq(Code) /\ Len(frames) \in Nat /\ Len(frames) > 0
          /\ DOMAIN frames = 1..Len(frames)
      BY DEF QueueInv, TypeInv, TypeOK
    <2>2. PICK q \in NamedIrqs : stack' = frames /\ pc' = q
      BY <1>3 DEF CheckVector
    <2>3. q # "main" /\ q \in Code
      BY <2>2 DEF CoreAssumption, Code
    <2>4. \A i \in DOMAIN frames : frames[i] = "main" <=> i = 1
      OBVIOUS
    <2> HIDE DEF frames
    <2>5. /\ DOMAIN Append(frames, q) = 1..(Len(frames) + 1)
          /\ Append(frames, q)[Len(frames) + 1] = q
          /\ \A i \in 1..Len(frames) : Append(frames, q)[i] = frames[i]
      BY <2>1, <2>3
    <2>6. \A i \in 1..(Len(frames) + 1) : i \in 1..Len(frames) \/ i = Len(frames) + 1
      BY <2>1
    <2>7. \A i \in DOMAIN Append(frames, q) : Append(frames, q)[i] = "main" <=> i = 1
      BY <2>1, <2>3, <2>4, <2>5, <2>6
    <2> QED BY <2>2, <2>7
  <1>4. CASE CheckReset \/ DebuggerReset
    BY <1>4 DEF CheckReset, DebuggerReset, CoreReset
  <1>5. \/ UNCHANGED <<pc, stack>> \/ ExecReti
        \/ CheckVector \/ CheckReset \/ DebuggerReset
    BY DEF Next, Step, Debugger, Exited, ExecNextInstruction, CheckInterrupts,
           ExecOther, ExecSei, ExecCli, ExecOut, ExecBreak, ExecSleepWdr,
           ExecExternalClock, Exits, VisitClkNode, ClockDone, VisitAsyncNode, AsyncDone,
           CheckNothing, CheckMasked, CheckInvalid,
           DebuggerRaise, DebuggerWrite, DebuggerExternalClock, vars, core_vars
  <1> QED BY <1>1, <1>2, <1>3, <1>4, <1>5

(* Whatever nests, the code that runs can return to the mainline through    *)
(* every handler it interrupted.                                            *)
THEOREM ReturnsToMainline == Spec => []ReturnChain
  <1>1. CoreAssumption
    BY CoreAssumed
  <1>2. Init => ReturnChain
    BY DEF Init, ReturnChain
  <1>3. QueueInv /\ ReturnChain /\ [Next]_vars => ReturnChain'
    BY <1>1, ChainStep
  <1> QED BY <1>2, <1>3, QueueCorrect, PTL DEF Spec

----------------------------------------------------------------------------
(* KeepsInterruptPromise.  What a step changes is a promised action, or it  *)
(* changes nothing the promise is about.                                    *)
promised == <<irq_pending, sreg_i, stack, pc, res>>

(* A step that touches nothing of the promise is a stutter of it. *)
LEMMA PromiseStutter ==
    ASSUME UNCHANGED promised
    PROVE  UNCHANGED Promise!vars
  BY DEF promised, Promise!vars

(* An instruction is a step of the promise. *)
LEMMA PromiseExec ==
    ASSUME CoreAssumption, QueueInv, ExecNextInstruction
    PROVE  Promise!Next \/ UNCHANGED Promise!vars
  <1>1. ASSUME NEW r \in {"other", "BREAK"}, NEW c, Executes(r, c),
               UNCHANGED <<pc, stack, irq_pending>>, sreg_i' \in BOOLEAN
        PROVE  Promise!Execute
    <2>1. res' = r
      BY <1>1 DEF Executes
    <2> QED BY <1>1, <2>1 DEF Promise!Execute
  <1>2. CASE ExecOther \/ ExecBreak
    <2>1. /\ UNCHANGED <<pc, stack, irq_pending>> /\ sreg_i' \in BOOLEAN
          /\ \E c \in OtherCKS \cup {0}, r \in {"other", "BREAK"} : Executes(r, c)
      BY <1>2 DEF ExecOther, ExecBreak, lists, QueueInv, TypeInv, TypeOK
    <2> QED BY <1>1, <2>1 DEF Promise!Next
  <1>3. CASE ExecSei \/ ExecCli
    <2>1. /\ UNCHANGED <<pc, stack, irq_pending>> /\ sreg_i' \in BOOLEAN
          /\ Executes("other", 1)
      BY <1>3 DEF ExecSei, ExecCli, lists
    <2> QED BY <1>1, <2>1 DEF Promise!Next
  <1>4. CASE ExecOut
    <2>1. irq_pending' = irq_pending
      BY <1>4 DEF ExecOut, WriteTimerRegister, WriteTccr, WriteTimsk, WriteTifr,
                  WriteTcnt0, TccrStop, TccrSelect, TimskWrite, TifrWrite, TcntWrite
    <2>2. UNCHANGED <<pc, stack>> /\ sreg_i' \in BOOLEAN /\ Executes("other", 1)
      BY <1>4 DEF ExecOut, QueueInv, TypeInv, TypeOK
    <2> QED BY <1>1, <2>1, <2>2 DEF Promise!Next
  <1>5. CASE ExecReti
    <2>1. UNCHANGED irq_pending /\ sreg_i' = TRUE /\ res' = "RETI"
      BY <1>5 DEF ExecReti, Executes, lists
    <2>2. Promise!Return
      BY <1>5, <2>1, FramesReti DEF Promise!Return, Promise!Front, Front
    <2> QED BY <2>2 DEF Promise!Next
  <1>6. CASE ExecSleepWdr \/ ExecExternalClock
    BY <1>6, PromiseStutter DEF ExecSleepWdr, ExecExternalClock, Exits, lists, promised
  <1> QED BY <1>2, <1>3, <1>4, <1>5, <1>6 DEF ExecNextInstruction

(* So is an interrupt that is raised. *)
LEMMA PromiseRaise ==
    ASSUME QueueInv, NEW q \in Irqs,
           irq_pending' = DListAdd(irq_pending, q, VectorAddr),
           UNCHANGED <<sreg_i, stack, pc, res>>
    PROVE  Promise!Next \/ UNCHANGED Promise!vars
  <1>1. ToSet(irq_pending') \in {ToSet(irq_pending), ToSet(irq_pending) \cup {q}}
    <2>1. irq_pending \in Seq(Irqs) /\ DListUnique(irq_pending, VectorAddr)
      BY DEF QueueInv, TypeInv, TypeOK, PendingUnique
    <2> QED BY <2>1, DListAddKeeps, Zenon
  <1>2. CASE ToSet(irq_pending') = ToSet(irq_pending)
    BY <1>2 DEF Promise!vars
  <1>3. CASE ToSet(irq_pending') = ToSet(irq_pending) \cup {q}
    <2>1. Promise!Raise(q)
      BY <1>3 DEF Promise!Raise
    <2> QED BY <2>1 DEF Promise!Next
  <1> QED BY <1>1, <1>2, <1>3

(* So is a callback. *)
LEMMA PromiseCallbacks ==
    ASSUME TimersAssumption, CoreAssumption, QueueInv,
           VisitClkNode \/ ClockDone \/ VisitAsyncNode \/ AsyncDone
    PROVE  Promise!Next \/ UNCHANGED Promise!vars
  <1>1. CASE VisitClkNode
    <2>1. UNCHANGED irq_pending
      BY <1>1, ClkCallbackKeepsTimersType DEF VisitClkNode, QueueInv, TypeInv, TypeOK
    <2> QED BY <1>1, <2>1, PromiseStutter DEF VisitClkNode, promised
  <1>2. CASE ClockDone \/ AsyncDone
    BY <1>2, PromiseStutter DEF ClockDone, AsyncDone, lists, promised
  <1>3. CASE VisitAsyncNode
    <2>1. UNCHANGED <<sreg_i, stack, pc, res>>
      BY <1>3 DEF VisitAsyncNode
    <2>2. CASE intr_ptr /\ Serviceable # {}
      <3>1. irq_pending' = DListAdd(irq_pending, IrqOfFlag[FlagServed], VectorAddr)
        BY <1>3, <2>2 DEF VisitAsyncNode, TimerIntrCb
      <3>2. IrqOfFlag[FlagServed] \in Irqs
        BY <2>2, ServedIrqIsNamed DEF CoreAssumption, QueueInv, TypeInv, TypeOK
      <3> QED BY <2>1, <3>1, <3>2, PromiseRaise
    <2>3. CASE ~(intr_ptr /\ Serviceable # {})
      <3>1. UNCHANGED irq_pending
        BY <1>3, <2>3 DEF VisitAsyncNode, TimerIntrCb
      <3> QED BY <2>1, <3>1, PromiseStutter DEF promised
    <2> QED BY <2>2, <2>3
  <1> QED BY <1>1, <1>2, <1>3

(* So is a reset. *)
LEMMA PromiseReset ==
    ASSUME CoreReset, UNCHANGED res
    PROVE  Promise!Next
  <1>1. Append(stack', pc') = <<"main">> /\ ToSet(irq_pending') = {}
    BY DEF CoreReset, ToSet
  <1>2. sreg_i' = FALSE
    BY DEF CoreReset
  <1>3. Promise!Reset
    BY <1>1, <1>2 DEF Promise!Reset
  <1> QED BY <1>3 DEF Promise!Next

(* So is avr_core_check_interrupts. *)
LEMMA PromiseCheck ==
    ASSUME CoreAssumption, QueueInv, CheckInterrupts
    PROVE  Promise!Next \/ UNCHANGED Promise!vars
  <1>1. CASE CheckNothing \/ CheckMasked \/ CheckInvalid
    BY <1>1, PromiseStutter
       DEF CheckNothing, CheckMasked, CheckInvalid, Check, Exits, lists, promised
  <1>2. CASE CheckReset
    BY <1>2, PromiseReset DEF CheckReset, Check
  <1>3. CASE CheckVector
    <2> DEFINE q == irq_pending[1]
    <2>1. irq_pending # <<>> /\ irq_pending \in Seq(Irqs) /\ DListUnique(irq_pending, VectorAddr)
      BY <1>3 DEF CheckVector, Examines, QueueInv, TypeInv, TypeOK, PendingUnique
    <2>2. q \in ToSet(irq_pending)
      BY <2>1 DEF ToSet
    <2>3. q \in NamedIrqs \ {"RESET"}
      BY <1>3 DEF CheckVector, PendingHead, CoreAssumption
    <2>4. /\ sreg_i /\ sreg_i' = FALSE /\ res # "RETI" /\ res' = res
          /\ stack' = Append(stack, pc) /\ pc' = q
          /\ irq_pending' = DListDelete(irq_pending, q, VectorAddr)
      BY <1>3 DEF CheckVector, Examines, PendingHead, Check
    <2>5. ToSet(irq_pending') = ToSet(irq_pending) \ {q}
      BY <2>1, <2>4, DListDeleteHead, Zenon
    <2> HIDE DEF q
    <2>6. Promise!Vector(q)
      BY <2>2, <2>4, <2>5 DEF Promise!Vector
    <2> QED BY <2>3, <2>6 DEF Promise!Next
  <1> QED BY <1>1, <1>2, <1>3 DEF CheckInterrupts

(* So is what the debugger does. *)
LEMMA PromiseDebugger ==
    ASSUME CoreAssumption, QueueInv, Debugger
    PROVE  Promise!Next \/ UNCHANGED Promise!vars
  <1>1. CASE DebuggerRaise
    <2>1. PICK q \in DebuggerIrqs : irq_pending' = DListAdd(irq_pending, q, VectorAddr)
      BY <1>1 DEF DebuggerRaise
    <2>2. q \in Irqs /\ UNCHANGED <<sreg_i, stack, pc, res>>
      BY <1>1 DEF CoreAssumption, DebuggerRaise, core_vars
    <2> QED BY <2>1, <2>2, PromiseRaise
  <1>2. CASE DebuggerReset
    BY <1>2, PromiseReset DEF DebuggerReset
  <1>3. CASE DebuggerWrite
    <2>1. UNCHANGED <<pc, stack, res>> /\ sreg_i' \in BOOLEAN
      BY <1>3 DEF DebuggerWrite, QueueInv, TypeInv, TypeOK
    <2>2. UNCHANGED irq_pending
      BY <1>3 DEF DebuggerWrite, lists, WriteTimerRegister, WriteTccr, WriteTimsk,
              WriteTifr, WriteTcnt0, TccrStop, TccrSelect, TimskWrite, TifrWrite, TcntWrite
    <2>3. Promise!SetEnabled
      BY <2>1, <2>2 DEF Promise!SetEnabled
    <2> QED BY <2>3 DEF Promise!Next
  <1>4. CASE DebuggerExternalClock
    BY <1>4, PromiseStutter DEF DebuggerExternalClock, Exits, lists, promised
  <1> QED BY <1>1, <1>2, <1>3, <1>4 DEF Debugger

(* The core implements the interrupt promise: its list of pending vectors   *)
(* is a set, it takes a vector only when it may, and RETI resumes exactly   *)
(* what the vector interrupted.                                             *)
THEOREM CoreKeepsPromise == Spec => KeepsInterruptPromise
  <1>1. TimersAssumption /\ CoreAssumption
    BY TimersAssumed, CoreAssumed
  <1>2. Init => Promise!Init
    BY DEF Init, Promise!Init, ToSet
  <1>3. QueueInv /\ [Next]_vars => [Promise!Next]_Promise!vars
    <2>1. ASSUME QueueInv, Next PROVE Promise!Next \/ UNCHANGED Promise!vars
      <3>1. CASE Exited
        BY <3>1, PromiseStutter DEF Exited, vars, core_vars, lists, promised
      <3> QED BY <1>1, <2>1, <3>1, PromiseExec, PromiseCallbacks, PromiseCheck,
                 PromiseDebugger DEF Next, Step
    <2>2. UNCHANGED vars => UNCHANGED Promise!vars
      BY PromiseStutter DEF vars, core_vars, lists, promised
    <2> QED BY <2>1, <2>2
  <1> QED BY <1>2, <1>3, QueueCorrect, PTL DEF Spec, KeepsInterruptPromise, Promise!Spec
=============================================================================
