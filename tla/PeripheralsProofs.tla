------------------------- MODULE PeripheralsProofs -------------------------
(***************************************************************************)
(* Why the I/O devices count, interrupt and queue correctly: the counters  *)
(* for any divisors and lengths of transfers, the interrupts for any       *)
(* order of accesses, callbacks and resets, and the FIFO of any length.    *)
(***************************************************************************)
EXTENDS Peripherals, DListProofs

(* A selection of divisors has a least one, and all are positive. *)
LEMMA LeastDivisor ==
    ASSUME NEW S, AreDivisors(S)
    PROVE  Min(S) \in S /\ \A d \in S : d \in Nat /\ d > 0
  <1>1. \E d \in S : \A e \in S : d <= e
    BY DEF AreDivisors
  <1>2. Min(S) \in S
    BY <1>1, Zenon DEF Min
  <1> QED BY <1>2 DEF AreDivisors

(* The counters never pass zero.  *)
LEMMA CountsDown ==
    ASSUME NEW max \in {UINT8_MAX, UINT16_MAX}, NEW n \in 0..max, NEW ck, NEW d
    PROVE  /\ CountDown(n, max, ck, d) \in 0..max
           /\ n > 0 => CountDown(n, max, ck, d) \in {n, n - 1}
  <1>1. max \in {255, 65535}
    BY DEF UINT8_MAX, UINT16_MAX
  <1>2. n \in Nat /\ n <= max
    BY <1>1
  <1>3. (n + max) % (max + 1) = IF n = 0 THEN max ELSE n - 1
    <2>1. CASE max = 255
      BY <1>2, <2>1
    <2>2. CASE max = 65535
      BY <1>2, <2>2
    <2> QED BY <1>1, <2>1, <2>2
  <1>4. max \in Nat
    BY <1>1
  <1> HIDE DEF CountDown
  <1>5. CountDown(n, max, ck, d) = n \/ CountDown(n, max, ck, d) = (n + max) % (max + 1)
    BY DEF CountDown
  <1> QED BY <1>2, <1>3, <1>4, <1>5

(* What the two largest values are, for the provers. *)
LEMMA MaxNat == UINT8_MAX \in Nat /\ UINT16_MAX \in Nat /\ UINT8_MAX > 0 /\ UINT16_MAX > 1
  BY DEF UINT8_MAX, UINT16_MAX

----------------------------------------------------------------------------
(* The SPI: its record as a whole, and what each operation makes of it. *)

SpiRec(spcr, spr, f, seen, on, n, d, clk) ==
    [spcr |-> spcr, spr |-> spr, spsr |-> f, spsr_read |-> seen, intr_cb |-> on,
     tcnt |-> n, divisor |-> d, clk_cb |-> clk]

SpiFlags == SUBSET {"SPIF", "WCOL"}

SpiAfter(spcr, f, on, n, d, clk) ==
    /\ spi' \in SpiType
    /\ spi'.spcr = spcr /\ spi'.spsr = f /\ spi'.intr_cb = on
    /\ spi'.tcnt = n /\ spi'.divisor = d /\ spi'.clk_cb = clk

(* The types of the fields of the SPI. *)
LEMMA SpiFields ==
    spi \in SpiType => /\ spi.spcr \in SUBSET {"SPE", "SPIE"} /\ spi.spr \in SpiDivisors
                       /\ spi.spsr \in SpiFlags /\ spi.spsr_read \in SpiFlags
                       /\ spi.intr_cb \in BOOLEAN /\ spi.tcnt \in 0..UINT8_MAX
                       /\ spi.divisor \in SpiDivisors \cup {0} /\ spi.clk_cb \in BOOLEAN
  BY DEF SpiType, SpiFlags

(* spi_intr_reset and spi_reset clear all of it. *)
LEMMA SpiResets == spi' = SpiReset => SpiAfter({}, {}, FALSE, 0, 0, FALSE)
  <1> SUFFICES ASSUME spi' = SpiReset PROVE SpiAfter({}, {}, FALSE, 0, 0, FALSE)
    OBVIOUS
  <1>1. spi' = SpiRec({}, Min(SpiDivisors), {}, {}, FALSE, 0, 0, FALSE)
    BY DEF SpiReset, SpiInit, SpiRec
  <1>2. Min(SpiDivisors) \in SpiDivisors
    BY LeastDivisor, SpiAssumed
  <1> QED BY <1>1, <1>2, MaxNat DEF SpiRec, SpiAfter, SpiType, SpiFlags

(* The reads of SPSR and SPDR only take flags away. *)
LEMMA SpiReads ==
    ASSUME spi \in SpiType, SpiReadSpsr \/ SpiReadSpdr
    PROVE  \E f \in SUBSET spi.spsr :
              SpiAfter(spi.spcr, f, spi.intr_cb, spi.tcnt, spi.divisor, spi.clk_cb)
  <1>1. CASE SpiReadSpsr
    <2> DEFINE g == spi.spsr_read \cup spi.spsr
    <2>1. spi' = SpiRec(spi.spcr, spi.spr, spi.spsr, g, spi.intr_cb, spi.tcnt, spi.divisor,
                        spi.clk_cb)
      BY <1>1 DEF SpiReadSpsr, SpiRec, SpiType
    <2>2. g \in SpiFlags
      BY DEF SpiFlags, SpiType
    <2> HIDE DEF g
    <2> QED BY <2>1, <2>2, SpiFields DEF SpiRec, SpiAfter, SpiType, SpiFlags
  <1>2. CASE SpiReadSpdr
    <2>1. spi' = SpiRec(spi.spcr, spi.spr, Acknowledged, {}, spi.intr_cb, spi.tcnt, spi.divisor,
                        spi.clk_cb)
      BY <1>2 DEF SpiReadSpdr, SpiRec, SpiType
    <2>2. Acknowledged \in SUBSET spi.spsr /\ Acknowledged \in SpiFlags
      BY SpiFields DEF SpiFlags, Acknowledged
    <2> QED BY <2>1, <2>2, SpiFields DEF SpiRec, SpiAfter, SpiType, SpiFlags
  <1> QED BY <1>1, <1>2

(* A write of SPDR starts a transfer. *)
LEMMA SpiStarts ==
    ASSUME spi \in SpiType, SpiWriteSpdr
    PROVE  \E f \in SpiFlags :
              /\ "SPIF" \in f => "SPIF" \in spi.spsr
              /\ SpiAfter(spi.spcr, f, spi.intr_cb, SpiBits, spi.spr, TRUE)
  <1> DEFINE f == Acknowledged \cup IF spi.tcnt # 0 THEN {"WCOL"} ELSE {}
  <1>1. f \in SpiFlags /\ ("SPIF" \in f => "SPIF" \in spi.spsr)
    BY SpiFields DEF SpiFlags, Acknowledged
  <1>2. spi' = SpiRec(spi.spcr, spi.spr, f, {}, spi.intr_cb, SpiBits, spi.spr, TRUE)
    BY DEF SpiRec, SpiWriteSpdr, SpiType
  <1>3. SpiBits \in 0..UINT8_MAX
    BY SpiAssumed, MaxNat
  <1> HIDE DEF f
  <1>4. SpiAfter(spi.spcr, f, spi.intr_cb, SpiBits, spi.spr, TRUE)
    BY <1>1, <1>2, <1>3, SpiFields DEF SpiRec, SpiAfter, SpiType, SpiFlags
  <1> QED BY <1>1, <1>4

(* A write of SPCR sets the bits and the pointer to the interrupt callback. *)
LEMMA SpiControls ==
    ASSUME spi \in SpiType, NEW v \in SUBSET {"SPE", "SPIE"}, NEW d \in SpiDivisors,
           SpiWriteSpcr(v, d)
    PROVE  SpiAfter(v, spi.spsr, "SPE" \in v, spi.tcnt, spi.divisor, spi.clk_cb)
  <1> DEFINE on == "SPE" \in v
  <1>1. spi' = SpiRec(v, d, spi.spsr, spi.spsr_read, on, spi.tcnt, spi.divisor, spi.clk_cb)
    BY DEF SpiRec, SpiWriteSpcr, SpiType
  <1>2. on \in BOOLEAN
    OBVIOUS
  <1> HIDE DEF on
  <1>3. SpiAfter(v, spi.spsr, on, spi.tcnt, spi.divisor, spi.clk_cb)
    BY <1>1, <1>2, SpiFields DEF SpiRec, SpiAfter, SpiType, SpiFlags
  <1> QED BY <1>3 DEF on

(* spi_intr_cb clears the flags it raised an interrupt for. *)
LEMMA SpiInterrupts ==
    ASSUME spi \in SpiType, SpiIntrCb(node)
    PROVE  SpiAfter(spi.spcr, IF SpiRaises # {} THEN {} ELSE spi.spsr, spi.intr_cb,
                    spi.tcnt, spi.divisor, spi.clk_cb)
  <1> DEFINE f == IF SpiRaises # {} THEN {} ELSE spi.spsr
  <1>1. spi' = SpiRec(spi.spcr, spi.spr, f, spi.spsr_read, spi.intr_cb, spi.tcnt, spi.divisor,
                      spi.clk_cb)
    BY DEF SpiRec, SpiIntrCb, SpiType
  <1>2. f \in SpiFlags
    BY SpiFields DEF SpiFlags
  <1> HIDE DEF f
  <1>3. SpiAfter(spi.spcr, f, spi.intr_cb, spi.tcnt, spi.divisor, spi.clk_cb)
    BY <1>1, <1>2, SpiFields DEF SpiRec, SpiAfter, SpiType, SpiFlags
  <1> QED BY <1>3 DEF f

(* spi_clk_incr_cb counts and at the end sets SPIF. *)
LEMMA SpiCountsDown ==
    ASSUME spi \in SpiType, SpiClkIncrCb(node, CK), spi.clk_cb
    PROVE  IF SpiEnds(CK)
           THEN SpiAfter(spi.spcr, spi.spsr \cup {"SPIF"}, spi.intr_cb, 0, spi.divisor, FALSE)
           ELSE SpiAfter(spi.spcr, spi.spsr, spi.intr_cb, SpiTcnt(CK), spi.divisor, spi.clk_cb)
  <1>1. CASE SpiEnds(CK)
    <2>1. spi' = SpiRec(spi.spcr, spi.spr, spi.spsr \cup {"SPIF"}, spi.spsr_read, spi.intr_cb, 0,
                        spi.divisor, FALSE)
      BY <1>1 DEF SpiRec, SpiClkIncrCb, SpiType
    <2>2. spi.spsr \cup {"SPIF"} \in SpiFlags
      BY SpiFields DEF SpiFlags
    <2> QED BY <1>1, <2>1, <2>2, SpiFields, MaxNat DEF SpiRec, SpiAfter, SpiType, SpiFlags
  <1>2. CASE ~SpiEnds(CK)
    <2>1. spi' = SpiRec(spi.spcr, spi.spr, spi.spsr, spi.spsr_read, spi.intr_cb, SpiTcnt(CK),
                        spi.divisor, spi.clk_cb)
      BY <1>2 DEF SpiRec, SpiClkIncrCb, SpiType
    <2>2. SpiTcnt(CK) \in 0..UINT8_MAX
      BY SpiFields, CountsDown DEF SpiTcnt
    <2> QED BY <1>2, <2>1, <2>2, SpiFields DEF SpiRec, SpiAfter, SpiType, SpiFlags
  <1> QED BY <1>1, <1>2

----------------------------------------------------------------------------
(* The UART in the same way. *)

UartRec(ubrr, usr, ucr, shadow, on, n, d, clk) ==
    [ubrr |-> ubrr, usr |-> usr, ucr |-> ucr, shadow |-> shadow, intr_cb |-> on,
     tcnt |-> n, divisor |-> d, clk_cb |-> clk]

UartFlags == SUBSET {"UDRE", "TXC"}

UartAfter(usr, ucr, shadow, on, n, d, clk) ==
    /\ uart' \in UartType
    /\ uart'.usr = usr /\ uart'.ucr = ucr /\ uart'.shadow = shadow /\ uart'.intr_cb = on
    /\ uart'.tcnt = n /\ uart'.divisor = d /\ uart'.clk_cb = clk

(* The types of the fields of the UART. *)
LEMMA UartFields ==
    uart \in UartType => /\ uart.ubrr \in UartBauds /\ uart.usr \in UartFlags
                         /\ uart.ucr \in SUBSET UcrBits /\ uart.shadow \in BOOLEAN
                         /\ uart.intr_cb \in BOOLEAN /\ uart.tcnt \in 0..UINT16_MAX
                         /\ uart.divisor \in UartBauds \cup {0} /\ uart.clk_cb \in BOOLEAN
  BY DEF UartType, UartFlags

(* A frame has a length the counter holds. *)
LEMMA FrameFits == FrameClocks \in 1..UINT16_MAX
  BY UartAssumed, MaxNat DEF FrameClocks

(* uart_intr_reset and uart_reset clear all of it. *)
LEMMA UartResets == uart' = UartReset => UartAfter({}, {}, FALSE, FALSE, 0, 0, FALSE)
  <1> SUFFICES ASSUME uart' = UartReset PROVE UartAfter({}, {}, FALSE, FALSE, 0, 0, FALSE)
    OBVIOUS
  <1>1. uart' = UartRec(Min(UartBauds), {}, {}, FALSE, FALSE, 0, 0, FALSE)
    BY DEF UartReset, UartInit, UartRec
  <1>2. Min(UartBauds) \in UartBauds
    BY LeastDivisor, UartAssumed
  <1> QED BY <1>1, <1>2, MaxNat DEF UartRec, UartAfter, UartType, UartFlags

(* A write of UBRR is for the next frame. *)
LEMMA UartSelects ==
    ASSUME uart \in UartType, NEW b \in UartBauds, UartWriteUbrr(b)
    PROVE  UartAfter(uart.usr, uart.ucr, uart.shadow, uart.intr_cb, uart.tcnt, uart.divisor,
                     uart.clk_cb)
  <1>1. uart' = UartRec(b, uart.usr, uart.ucr, uart.shadow, uart.intr_cb, uart.tcnt,
                        uart.divisor, uart.clk_cb)
    BY DEF UartRec, UartWriteUbrr, UartType
  <1> QED BY <1>1, UartFields DEF UartRec, UartAfter, UartType, UartFlags

(* A write of UCR sets the bits and the pointer to the interrupt callback. *)
LEMMA UartControls ==
    ASSUME uart \in UartType, NEW v \in SUBSET UcrBits, UartWriteUcr(v)
    PROVE  UartAfter(uart.usr, v, uart.shadow, UartListens(v), uart.tcnt, uart.divisor,
                     uart.clk_cb)
  <1>1. uart' = UartRec(uart.ubrr, uart.usr, v, uart.shadow, UartListens(v), uart.tcnt,
                        uart.divisor, uart.clk_cb)
    BY DEF UartRec, UartWriteUcr, UartType
  <1>2. UartListens(v) \in BOOLEAN
    BY DEF UartListens
  <1> QED BY <1>1, <1>2, UartFields DEF UartRec, UartAfter, UartType, UartFlags

(* A write of UDR starts a frame, now or again. *)
LEMMA UartStarts ==
    ASSUME uart \in UartType, UartWriteUdr
    PROVE  IF "UDRE" \in uart.usr
           THEN UartAfter(uart.usr \ {"UDRE"}, uart.ucr, FALSE, uart.intr_cb, FrameClocks,
                          uart.ubrr, TRUE)
           ELSE UartAfter(uart.usr \cup {"UDRE"}, uart.ucr, TRUE, uart.intr_cb, FrameClocks,
                          uart.ubrr, TRUE)
  <1>1. CASE "UDRE" \in uart.usr
    <2>1. uart' = UartRec(uart.ubrr, uart.usr \ {"UDRE"}, uart.ucr, FALSE, uart.intr_cb,
                          FrameClocks, uart.ubrr, TRUE)
      BY <1>1 DEF UartRec, UartWriteUdr, UartType
    <2> QED BY <1>1, <2>1, FrameFits, UartFields DEF UartRec, UartAfter, UartType, UartFlags
  <1>2. CASE "UDRE" \notin uart.usr
    <2>1. uart' = UartRec(uart.ubrr, uart.usr \cup {"UDRE"}, uart.ucr, TRUE, uart.intr_cb,
                          FrameClocks, uart.ubrr, TRUE)
      BY <1>2 DEF UartRec, UartWriteUdr, UartType
    <2> QED BY <1>2, <2>1, FrameFits, UartFields DEF UartRec, UartAfter, UartType, UartFlags
  <1> QED BY <1>1, <1>2

(* uart_intr_cb clears what it raised an interrupt for. *)
LEMMA UartInterrupts ==
    ASSUME uart \in UartType, UartIntrCb(node), uart.intr_cb
    PROVE  UartAfter(IF Sent THEN uart.usr \ {"TXC"} ELSE uart.usr, uart.ucr,
                     uart.shadow /\ ~HasRoom, uart.intr_cb, uart.tcnt, uart.divisor,
                     uart.clk_cb)
  <1> DEFINE f == IF Sent THEN uart.usr \ {"TXC"} ELSE uart.usr
             s == uart.shadow /\ ~HasRoom
  <1>1. uart' = UartRec(uart.ubrr, f, uart.ucr, s, uart.intr_cb, uart.tcnt, uart.divisor,
                        uart.clk_cb)
    BY DEF UartRec, UartIntrCb, UartType
  <1>2. f \in UartFlags /\ s \in BOOLEAN
    BY UartFields DEF UartFlags
  <1> HIDE DEF f, s
  <1>3. UartAfter(f, uart.ucr, s, uart.intr_cb, uart.tcnt, uart.divisor, uart.clk_cb)
    BY <1>1, <1>2, UartFields DEF UartRec, UartAfter, UartType, UartFlags
  <1> QED BY <1>3 DEF f, s

(* uart_clk_incr_cb counts, and at the end of a frame goes on or sets TXC. *)
LEMMA UartCountsDown ==
    ASSUME uart \in UartType, UartClkIncrCb(node, CK), uart.clk_cb
    PROVE  IF UartEnds(CK)
           THEN UartAfter(uart.usr \cup {"TXC"}, uart.ucr, uart.shadow, uart.intr_cb, 0,
                          uart.divisor, FALSE)
           ELSE IF UartFrameEnds(CK)
           THEN UartAfter(uart.usr \cup {"UDRE"}, uart.ucr, TRUE, uart.intr_cb, FrameClocks,
                          uart.divisor, uart.clk_cb)
           ELSE UartAfter(uart.usr, uart.ucr, uart.shadow, uart.intr_cb, UartTcnt(CK),
                          uart.divisor, uart.clk_cb)
  <1>1. CASE UartEnds(CK)
    <2>1. uart' = UartRec(uart.ubrr, uart.usr \cup {"TXC"}, uart.ucr, uart.shadow,
                          uart.intr_cb, 0, uart.divisor, FALSE)
      BY <1>1 DEF UartRec, UartClkIncrCb, UartType
    <2> QED BY <1>1, <2>1, UartFields, MaxNat DEF UartRec, UartAfter, UartType, UartFlags
  <1>2. CASE ~UartEnds(CK) /\ UartFrameEnds(CK)
    <2>1. uart' = UartRec(uart.ubrr, uart.usr \cup {"UDRE"}, uart.ucr, TRUE, uart.intr_cb,
                          FrameClocks, uart.divisor, uart.clk_cb)
      BY <1>2 DEF UartRec, UartClkIncrCb, UartType
    <2> QED BY <1>2, <2>1, FrameFits, UartFields DEF UartRec, UartAfter, UartType, UartFlags
  <1>3. CASE ~UartEnds(CK) /\ ~UartFrameEnds(CK)
    <2>1. uart' = UartRec(uart.ubrr, uart.usr, uart.ucr, uart.shadow, uart.intr_cb,
                          UartTcnt(CK), uart.divisor, uart.clk_cb)
      BY <1>3 DEF UartRec, UartClkIncrCb, UartType
    <2>2. UartTcnt(CK) \in 0..UINT16_MAX
      BY UartFields, CountsDown DEF UartTcnt
    <2> QED BY <1>3, <2>1, <2>2, UartFields DEF UartRec, UartAfter, UartType, UartFlags
  <1> QED BY <1>1, <1>2, <1>3

----------------------------------------------------------------------------
(* And the A/D converter. *)

AdcRec(adcsr, adps, on, n, d, clk) ==
    [adcsr |-> adcsr, adps |-> adps, intr_cb |-> on, adc_count |-> n, divisor |-> d,
     clk_cb |-> clk]

AdcAfter(adcsr, on, n, d, clk) ==
    /\ adc' \in AdcType
    /\ adc'.adcsr = adcsr /\ adc'.intr_cb = on
    /\ adc'.adc_count = n /\ adc'.divisor = d /\ adc'.clk_cb = clk

(* The types of the fields of the converter. *)
LEMMA AdcFields ==
    adc \in AdcType => /\ adc.adcsr \in SUBSET AdcsrBits /\ adc.adps \in AdcDivisors
                       /\ adc.intr_cb \in BOOLEAN /\ adc.adc_count \in 0..UINT16_MAX
                       /\ adc.divisor \in AdcDivisors \cup {0} /\ adc.clk_cb \in BOOLEAN
  BY DEF AdcType

(* adc_intr_reset and adc_reset clear all of it. *)
LEMMA AdcResets == adc' = AdcReset => AdcAfter({}, FALSE, 0, 0, FALSE)
  <1> SUFFICES ASSUME adc' = AdcReset PROVE AdcAfter({}, FALSE, 0, 0, FALSE)
    OBVIOUS
  <1>1. adc' = AdcRec({}, Min(AdcDivisors), FALSE, 0, 0, FALSE)
    BY DEF AdcReset, AdcInit, AdcRec
  <1>2. Min(AdcDivisors) \in AdcDivisors
    BY LeastDivisor, AdcAssumed
  <1> QED BY <1>1, <1>2, MaxNat DEF AdcRec, AdcAfter, AdcType

(* A write of ADCSR starts a conversion, or takes the callback away. *)
LEMMA AdcControls ==
    ASSUME adc \in AdcType, NEW v \in SUBSET AdcsrBits, NEW s \in AdcDivisors,
           AdcWriteAdcsr(v, s)
    PROVE  IF AdcStarts(v)
           THEN AdcAfter(v \ {"ADIF"}, TRUE, AdcClocks, s, TRUE)
           ELSE AdcAfter(v \ {"ADIF"}, FALSE, adc.adc_count, adc.divisor, adc.clk_cb)
  <1>1. CASE AdcStarts(v)
    <2>1. adc' = AdcRec(v \ {"ADIF"}, s, TRUE, AdcClocks, s, TRUE)
      BY <1>1 DEF AdcRec, AdcWriteAdcsr, AdcType
    <2> QED BY <1>1, <2>1, AdcAssumed, AdcFields, MaxNat DEF AdcRec, AdcAfter, AdcType
  <1>2. CASE ~AdcStarts(v)
    <2>0. (adc.clk_cb \/ AdcStarts(v)) = adc.clk_cb /\ AdcStarts(v) = FALSE
      BY <1>2, AdcFields DEF AdcStarts
    <2>1. adc' = AdcRec(v \ {"ADIF"}, s, FALSE, adc.adc_count, adc.divisor, adc.clk_cb)
      BY <2>0 DEF AdcRec, AdcWriteAdcsr, AdcType
    <2> QED BY <1>2, <2>1, AdcFields DEF AdcRec, AdcAfter, AdcType
  <1> QED BY <1>1, <1>2

(* adc_intr_cb clears the flag it raised an interrupt for. *)
LEMMA AdcInterrupts ==
    ASSUME adc \in AdcType, AdcIntrCb(node)
    PROVE  AdcAfter(IF AdcRaises # {} THEN adc.adcsr \ {"ADIF"} ELSE adc.adcsr, adc.intr_cb,
                    adc.adc_count, adc.divisor, adc.clk_cb)
  <1> DEFINE f == IF AdcRaises # {} THEN adc.adcsr \ {"ADIF"} ELSE adc.adcsr
  <1>1. adc' = AdcRec(f, adc.adps, adc.intr_cb, adc.adc_count, adc.divisor, adc.clk_cb)
    BY DEF AdcRec, AdcIntrCb, AdcType
  <1>2. f \in SUBSET AdcsrBits
    BY AdcFields
  <1> HIDE DEF f
  <1>3. AdcAfter(f, adc.intr_cb, adc.adc_count, adc.divisor, adc.clk_cb)
    BY <1>1, <1>2, AdcFields DEF AdcRec, AdcAfter, AdcType
  <1> QED BY <1>3 DEF f

(* adc_clk_incr_cb counts, and at the end sets ADIF. *)
LEMMA AdcCountsDown ==
    ASSUME adc \in AdcType, AdcClkIncrCb(node, CK), adc.clk_cb
    PROVE  IF AdcConverts(CK)
           THEN AdcAfter((adc.adcsr \cup {"ADIF"}) \ {"ADSC"}, adc.intr_cb,
                         IF AdcEnds(CK) THEN 0 ELSE AdcClocks, adc.divisor, ~AdcEnds(CK))
           ELSE AdcAfter(adc.adcsr, adc.intr_cb, AdcCount(CK), adc.divisor, adc.clk_cb)
  <1>1. CASE AdcConverts(CK)
    <2> DEFINE f == (adc.adcsr \cup {"ADIF"}) \ {"ADSC"}
               n == IF AdcEnds(CK) THEN 0 ELSE AdcClocks
               c == ~AdcEnds(CK)
    <2>1. adc' = AdcRec(f, adc.adps, adc.intr_cb, n, adc.divisor, c)
      BY <1>1 DEF AdcRec, AdcClkIncrCb, AdcType
    <2>2. f \in SUBSET AdcsrBits /\ n \in 0..UINT16_MAX /\ c \in BOOLEAN
      BY AdcFields, AdcAssumed, MaxNat DEF AdcsrBits
    <2> HIDE DEF f, n, c
    <2>3. AdcAfter(f, adc.intr_cb, n, adc.divisor, c)
      BY <2>1, <2>2, AdcFields DEF AdcRec, AdcAfter, AdcType
    <2> QED BY <1>1, <2>3 DEF f, n, c
  <1>2. CASE ~AdcConverts(CK)
    <2>1. adc' = AdcRec(adc.adcsr, adc.adps, adc.intr_cb, AdcCount(CK), adc.divisor, adc.clk_cb)
      BY <1>2 DEF AdcRec, AdcClkIncrCb, AdcType
    <2>2. AdcCount(CK) \in 0..UINT16_MAX
      BY AdcFields, CountsDown DEF AdcCount
    <2> QED BY <1>2, <2>1, <2>2, AdcFields DEF AdcRec, AdcAfter, AdcType
  <1> QED BY <1>1, <1>2
----------------------------------------------------------------------------
(* The invariant *)

ClkDevices   == {"spi", "uart", "adc"}
AsyncDevices == {"spii", "uart_int", "adc_int"}

BusInv ==
    /\ clk_cb \in Seq(ClkDevices) /\ async_cb \in Seq(AsyncDevices)
    /\ node \in Nat \ {0}
    /\ owed \in [Irqs -> {0, 1}]

(* A device counts exactly when its clock callback is installed, which then *)
(* has a divisor and a node; the interrupt callback is installed when it is *)
(* enabled; and an interrupt is owed for every flag that is set.            *)
SpiInv ==
    /\ spi \in SpiType
    /\ spi.clk_cb <=> spi.tcnt > 0
    /\ spi.clk_cb => spi.divisor > 0 /\ "spi" \in ToSet(clk_cb)
    /\ "SPE" \in spi.spcr => spi.intr_cb
    /\ spi.intr_cb => "spii" \in ToSet(async_cb)
    /\ "SPIF" \in spi.spsr => owed["SPI_STC"] = 1

(* Of the bytes written one may be in the frame, and one more if UDRE is    *)
(* clear.                                                                   *)
UartInv ==
    /\ uart \in UartType
    /\ uart.clk_cb <=> uart.tcnt > 0
    /\ uart.clk_cb => uart.divisor > 0 /\ "uart" \in ToSet(clk_cb)
    /\ UartListens(uart.ucr) => uart.intr_cb
    /\ uart.intr_cb => "uart_int" \in ToSet(async_cb)
    /\ "TXC" \in uart.usr => owed["UART_TX"] = 1
    /\ "UDRE" \in uart.usr /\ uart.shadow => owed["UART_UDRE"] = 1
    /\ unsent \in 0..2
    /\ ~uart.clk_cb => unsent = 0
    /\ "UDRE" \in uart.usr => unsent <= 1

AdcInv ==
    /\ adc \in AdcType
    /\ adc.clk_cb <=> adc.adc_count > 0
    /\ adc.clk_cb => adc.divisor > 0 /\ "adc" \in ToSet(clk_cb)
    /\ adc.intr_cb => "adc_int" \in ToSet(async_cb)
    /\ "ADIF" \in adc.adcsr => owed["ADC"] = 1

(* The flags whose interrupt is enabled. *)
SpiFlagged  == "SPIF" \in spi.spsr /\ {"SPE", "SPIE"} \subseteq spi.spcr
UartFlagged == \/ "TXC" \in uart.usr /\ {"TXEN", "TXCIE"} \subseteq uart.ucr
               \/ "UDRE" \in uart.usr /\ uart.shadow /\ "UDRIE" \in uart.ucr
AdcWaits    == AdcFlagged /\ adc.intr_cb

(* The walk of the asynchronous callbacks has a node of the device to come. *)
Ahead(device) == \E i \in DOMAIN async_cb : i >= node /\ async_cb[i] = device

(* A flag that is enabled is served before the pending interrupts are       *)
(* examined.                                                                *)
ScheduleInv ==
    /\ phase = "async" => /\ SpiFlagged => Ahead("spii")
                          /\ UartFlagged => Ahead("uart_int")
                          /\ AdcWaits => Ahead("adc_int")
    /\ phase = "check" => ~SpiFlagged /\ ~UartFlagged /\ ~AdcWaits

DeviceInv == BusInv /\ SpiInv /\ UartInv /\ AdcInv /\ ScheduleInv

----------------------------------------------------------------------------
(* The lists *)

(* A callback that is installed has a node, and no other loses its own. *)
LEMMA Installed ==
    ASSUME NEW S, NEW s \in Seq(S), NEW x \in S, NEW add \in BOOLEAN, NEW t,
           t = IF add THEN Append(s, x) ELSE s
    PROVE  /\ t \in Seq(S)
           /\ ToSet(s) \subseteq ToSet(t)
           /\ add => x \in ToSet(t)
  BY AppendKeepsInjective

(* A visit takes away no node but the one visited. *)
LEMMA Visited ==
    ASSUME NEW S, NEW s \in Seq(S), NEW i \in DOMAIN s, NEW remove \in BOOLEAN, NEW t,
           t = IteratorVisit(s, i, remove)
    PROVE  /\ t \in Seq(S)
           /\ ToSet(s) \ {s[i]} \subseteq ToSet(t)
           /\ ~remove => t = s
  <1>1. CASE remove
    BY <1>1, RemoveAtProperties, RemoveAtRange DEF IteratorVisit
  <1>2. CASE ~remove
    BY <1>2 DEF IteratorVisit
  <1> QED BY <1>1, <1>2

(* The nodes after it are ahead of the cursor still. *)
LEMMA StillAhead ==
    ASSUME NEW S, NEW s \in Seq(S), NEW i \in DOMAIN s, NEW remove \in BOOLEAN, NEW t,
           t = IteratorVisit(s, i, remove),
           NEW j \in DOMAIN s, j >= i, s[j] # s[i]
    PROVE  \E k \in DOMAIN t : k >= IteratorNext(i, remove) /\ t[k] = s[j]
  <1>1. i \in Nat /\ j \in Nat /\ j > i /\ Len(s) \in Nat /\ DOMAIN s = 1..Len(s)
    OBVIOUS
  <1>2. CASE remove
    <2>1. t = RemoveAt(s, i) /\ IteratorNext(i, remove) = i
      BY <1>2 DEF IteratorVisit, IteratorNext
    <2>2. /\ DOMAIN t = 1..(Len(s) - 1)
          /\ \A k \in 1..(Len(s) - 1) : t[k] = IF k < i THEN s[k] ELSE s[k + 1]
      BY <2>1, RemoveAtProperties, Zenon
    <2>3. j - 1 \in 1..(Len(s) - 1) /\ j - 1 >= i /\ (j - 1) + 1 = j
      BY <1>1
    <2>4. t[j - 1] = s[j]
      BY <2>2, <2>3, <1>1
    <2> QED BY <2>1, <2>2, <2>3, <2>4
  <1>3. CASE ~remove
    BY <1>1, <1>3 DEF IteratorVisit, IteratorNext
  <1> QED BY <1>2, <1>3

----------------------------------------------------------------------------
(* The kinds of steps *)

Accessing  == phase = "step" /\ phase' \in {"step", "clk"} /\ node' \in {node, 1}
ClkVisit   == phase = "clk" /\ phase' = phase /\ node \in DOMAIN clk_cb
AsyncVisit == phase = "async" /\ phase' = phase /\ node \in DOMAIN async_cb

VisitSpii ==
    /\ AsyncVisit /\ async_cb[node] = "spii"
    /\ SpiIntrCb(node) /\ Settle(SpiRaises)
    /\ node' = IteratorNext(node, ~spi.intr_cb)
    /\ UNCHANGED <<uart, adc, unsent>>

VisitUartInt ==
    /\ AsyncVisit /\ async_cb[node] = "uart_int"
    /\ UartIntrCb(node) /\ Settle(UartRaises)
    /\ node' = IteratorNext(node, ~uart.intr_cb)
    /\ UNCHANGED <<spi, adc, unsent>>

VisitAdcInt ==
    /\ AsyncVisit /\ async_cb[node] = "adc_int"
    /\ AdcIntrCb(node) /\ Settle(AdcRaises)
    /\ node' = IteratorNext(node, ~adc.intr_cb)
    /\ UNCHANGED <<spi, uart, unsent>>

(* No device of the three is touched; the step loop may go on. *)
Elsewhere ==
    /\ UNCHANGED <<spi, uart, adc, clk_cb, async_cb, owed, unsent>>
    /\ node' \in {node, 1}
    /\ \/ phase' \notin {"async", "check"}
       \/ phase = "clk" /\ phase' = "async" /\ node' = 1
       \/ phase = "async" /\ node \notin DOMAIN async_cb /\ phase' = "check"
       \/ phase' = phase /\ node' = node

(* Every step is of one of these kinds. *)
LEMMA KindsOfSteps ==
    ASSUME [Next]_vars
    PROVE  \/ Accessing /\ (SpiAccess \/ UartAccess \/ AdcAccess)
           \/ ClkVisit /\ (VisitSpi \/ VisitUart \/ VisitAdc)
           \/ VisitSpii \/ VisitUartInt \/ VisitAdcInt
           \/ DebuggerReset
           \/ Elsewhere
  <1>1. ASSUME OseidAccess \/ EeAccess \/ UsbAccess
        PROVE  UNCHANGED <<spi, uart, adc, clk_cb, async_cb, owed, unsent>>
    <2>1. CASE OseidAccess
      <3>1. UNCHANGED lists /\ spi' = spi
        BY <2>1, Zenon DEF OseidAccess, OseidClear, OseidPush, OseidPop, OseidRandom
      <3> QED BY <2>1, <3>1 DEF OseidAccess, lists
    <2>2. CASE EeAccess
      <3>1. UNCHANGED lists
        BY <2>2, Zenon DEF EeAccess, EeWriteRegister, EeTriggerRead, EeTriggerWrite
      <3> QED BY <2>2, <3>1 DEF EeAccess, lists, ghosts
    <2>3. CASE UsbAccess
      <3>1. UNCHANGED lists
        BY <2>3, Zenon DEF UsbAccess, UsbReadFcsr, UsbFetch, UsbWriteFcar, UsbWriteFdr,
                           UsbWriteRegister
      <3> QED BY <2>3, <3>1 DEF UsbAccess, lists, ghosts
    <2> QED BY <1>1, <2>1, <2>2, <2>3
  <1>2. ASSUME Access, phase' \in {"step", "clk"}, node' \in {node, 1}
        PROVE  (Accessing /\ (SpiAccess \/ UartAccess \/ AdcAccess)) \/ Elsewhere
    BY <1>1, <1>2 DEF Access, Accessing, Elsewhere
  <1>3. CASE ExecAccess
    BY <1>2, <1>3 DEF ExecAccess, Executes, Access
  <1>4. CASE DebuggerAccess
    BY <1>2, <1>4 DEF DebuggerAccess, step_vars, Access
  <1>5. CASE ExecOther \/ ExecReadStdin \/ ExecBadAccess
    BY <1>5 DEF ExecOther, Executes, ExecReadStdin, ExecBadAccess, OseidClear, lists, devices,
                ghosts, Elsewhere
  <1>6. CASE VisitClkNode
    BY <1>6 DEF VisitClkNode, ClkVisit
  <1>7. CASE VisitAsyncNode
    BY <1>7 DEF VisitAsyncNode, AsyncVisit, VisitSpii, VisitUartInt, VisitAdcInt
  <1>8. CASE ClockDone \/ AsyncDone \/ CheckInterrupts
    BY <1>8 DEF ClockDone, AsyncDone, CheckInterrupts, lists, devices, ghosts, Elsewhere
  <1>9. CASE FallsQuiet \/ EndOfInput \/ Exited \/ UNCHANGED vars
    BY <1>9 DEF FallsQuiet, EndOfInput, Exited, vars, step_vars, lists, devices, ghosts, Elsewhere
  <1>10. CASE ReaderTypes
    <2>1. UNCHANGED lists
      BY <1>10, Zenon DEF ReaderTypes, OseidControlLine, OseidDataLine
    <2>2. UNCHANGED step_vars \/ (phase' = "clk" /\ node' = 1)
      BY <1>10, Zenon DEF ReaderTypes
    <2> QED BY <1>10, <2>1, <2>2 DEF ReaderTypes, step_vars, lists, Elsewhere
  <1>11. CASE DebuggerWriteEeprom
    BY <1>11 DEF DebuggerWriteEeprom, GdbEeWrite, step_vars, lists, ghosts, Elsewhere
  <1> QED BY <1>3, <1>4, <1>5, <1>6, <1>7, <1>8, <1>9, <1>10, <1>11 DEF Next, Step

----------------------------------------------------------------------------
(* What a step leaves alone stays in order. *)

(* The SPI, when its interrupt stays owed and it keeps its nodes. *)
LEMMA SpiUntouched ==
    ASSUME SpiInv, spi' = spi,
           "spi" \in ToSet(clk_cb) => "spi" \in ToSet(clk_cb)',
           "spii" \in ToSet(async_cb) => "spii" \in ToSet(async_cb)',
           owed["SPI_STC"] = 1 => owed'["SPI_STC"] = 1
    PROVE  SpiInv'
  BY DEF SpiInv

(* The UART likewise. *)
LEMMA UartUntouched ==
    ASSUME UartInv, UNCHANGED <<uart, unsent>>,
           "uart" \in ToSet(clk_cb) => "uart" \in ToSet(clk_cb)',
           "uart_int" \in ToSet(async_cb) => "uart_int" \in ToSet(async_cb)',
           owed["UART_TX"] = 1 => owed'["UART_TX"] = 1,
           owed["UART_UDRE"] = 1 => owed'["UART_UDRE"] = 1
    PROVE  UartInv'
  BY DEF UartInv

(* The converter likewise. *)
LEMMA AdcUntouched ==
    ASSUME AdcInv, adc' = adc,
           "adc" \in ToSet(clk_cb) => "adc" \in ToSet(clk_cb)',
           "adc_int" \in ToSet(async_cb) => "adc_int" \in ToSet(async_cb)',
           owed["ADC"] = 1 => owed'["ADC"] = 1
    PROVE  AdcInv'
  BY DEF AdcInv

(* No interrupt is served between two instructions. *)
LEMMA NotWalking == phase' \in {"step", "clk", "stdin", "exit"} => ScheduleInv'
  BY DEF ScheduleInv

(* An event owes an interrupt, which it is owed already or not. *)
LEMMA Owed ==
    ASSUME owed \in [Irqs -> {0, 1}], NEW irqs, owed' = Owe(irqs)
    PROVE  /\ owed' \in [Irqs -> {0, 1}]
           /\ \A q \in Irqs : owed'[q] = IF q \in irqs THEN 1 ELSE owed[q]
  <1>1. ASSUME NEW n \in {0, 1} PROVE Min({n + 1, 1}) = 1
    <2>1. CASE n = 0
      <3>1. {n + 1, 1} = {1}
        BY <2>1
      <3> QED BY <3>1 DEF Min
    <2>2. CASE n = 1
      <3>1. {n + 1, 1} = {1, 2}
        BY <2>2
      <3>2. \A x \in {1, 2} : (\A y \in {1, 2} : x <= y) <=> x = 1
        OBVIOUS
      <3> QED BY <3>1, <3>2 DEF Min
    <2> QED BY <2>1, <2>2
  <1>2. \A q \in Irqs : owed[q] \in {0, 1}
    OBVIOUS
  <1>3. \A q \in Irqs : Owe(irqs)[q] = IF q \in irqs THEN 1 ELSE owed[q]
    BY <1>1, <1>2 DEF Owe
  <1>4. Owe(irqs) \in [Irqs -> {0, 1}]
    BY <1>1, <1>2 DEF Owe
  <1> QED BY <1>3, <1>4

(* The names of the interrupts differ. *)
LEMMA IrqNames == {"SPI_STC", "UART_TX", "UART_UDRE", "ADC"} = Irqs
  BY DEF Irqs

----------------------------------------------------------------------------
(* The accesses *)

(* The registers of the SPI. *)
LEMMA SpiAccessed ==
    ASSUME DeviceInv, SpiAccess, Accessing
    PROVE  DeviceInv'
  <1> USE DEF DeviceInv, BusInv
  <1>1. UNCHANGED <<uart, adc, owed, unsent>>
    BY DEF SpiAccess, ghosts
  <1>2. BusInv' /\ ScheduleInv' /\ ToSet(clk_cb) \subseteq ToSet(clk_cb)'
        /\ ToSet(async_cb) \subseteq ToSet(async_cb)' /\ SpiInv'
    <2>1. ScheduleInv' /\ node' \in Nat \ {0}
      BY NotWalking DEF Accessing
    <2>2. spi \in SpiType
      BY DEF SpiInv
    <2>3. CASE SpiReadSpsr \/ SpiReadSpdr
      <3>1. UNCHANGED <<clk_cb, async_cb>>
        BY <2>3 DEF SpiReadSpsr, SpiReadSpdr, lists
      <3>2. PICK f \in SUBSET spi.spsr :
               SpiAfter(spi.spcr, f, spi.intr_cb, spi.tcnt, spi.divisor, spi.clk_cb)
        BY <2>2, <2>3, SpiReads
      <3>3. SpiInv'
        BY <1>1, <3>1, <3>2 DEF SpiInv, SpiAfter
      <3> QED BY <1>1, <2>1, <3>1, <3>3
    <2>4. ASSUME NEW v \in SUBSET {"SPE", "SPIE"}, NEW d \in SpiDivisors, SpiWriteSpcr(v, d)
          PROVE  /\ BusInv' /\ ScheduleInv' /\ ToSet(clk_cb) \subseteq ToSet(clk_cb)'
                 /\ ToSet(async_cb) \subseteq ToSet(async_cb)' /\ SpiInv'
      <3>1. SpiAfter(v, spi.spsr, "SPE" \in v, spi.tcnt, spi.divisor, spi.clk_cb)
        BY <2>2, <2>4, SpiControls
      <3>2. /\ async_cb' \in Seq(AsyncDevices) /\ ToSet(async_cb) \subseteq ToSet(async_cb)'
            /\ "SPE" \in v => "spii" \in ToSet(async_cb)'
        <4>1. async_cb' = IF "SPE" \in v THEN Append(async_cb, "spii") ELSE async_cb
          BY <2>4 DEF SpiWriteSpcr, AsyncCbAdd
        <4>2. "spii" \in AsyncDevices /\ ("SPE" \in v) \in BOOLEAN
          BY DEF AsyncDevices
        <4> QED BY <4>1, <4>2, Installed
      <3>3. clk_cb' = clk_cb
        BY <2>4 DEF SpiWriteSpcr
      <3>4. SpiInv'
        BY <1>1, <3>1, <3>2, <3>3 DEF SpiInv, SpiAfter
      <3> QED BY <1>1, <2>1, <3>2, <3>3, <3>4
    <2>5. CASE SpiWriteSpdr
      <3>1. PICK f \in SpiFlags :
               /\ "SPIF" \in f => "SPIF" \in spi.spsr
               /\ SpiAfter(spi.spcr, f, spi.intr_cb, SpiBits, spi.spr, TRUE)
        BY <2>2, <2>5, SpiStarts
      <3>2. clk_cb' \in Seq(ClkDevices) /\ ToSet(clk_cb) \subseteq ToSet(clk_cb)'
            /\ "spi" \in ToSet(clk_cb)'
        <4>1. clk_cb' = IF ~spi.clk_cb THEN Append(clk_cb, "spi") ELSE clk_cb
          BY <2>5 DEF SpiWriteSpdr, ClkCbAdd
        <4>2. "spi" \in ClkDevices /\ (~spi.clk_cb) \in BOOLEAN
          BY DEF ClkDevices
        <4> QED BY <4>1, <4>2, Installed DEF SpiInv
      <3>3. async_cb' = async_cb
        BY <2>5 DEF SpiWriteSpdr
      <3>4. SpiBits > 0 /\ spi.spr > 0 /\ SpiBits \in Nat
        BY <2>2, SpiAssumed, SpiFields, LeastDivisor, MaxNat
      <3>5. SpiInv'
        BY <1>1, <3>1, <3>2, <3>3, <3>4 DEF SpiInv, SpiAfter
      <3> QED BY <1>1, <2>1, <3>2, <3>3, <3>5
    <2> QED BY <2>3, <2>4, <2>5 DEF SpiAccess
  <1>3. UartInv' /\ AdcInv'
    BY <1>1, <1>2, UartUntouched, AdcUntouched
  <1> QED BY <1>2, <1>3

(* The registers of the UART: a byte is written when there is room. *)
LEMMA UartAccessed ==
    ASSUME DeviceInv, UartAccess, Accessing
    PROVE  DeviceInv'
  <1> USE DEF DeviceInv, BusInv
  <1>1. UNCHANGED <<spi, adc>>
    BY DEF UartAccess
  <1>2. ScheduleInv' /\ node' \in Nat \ {0}
    BY NotWalking DEF Accessing
  <1>3. uart \in UartType
    BY DEF UartInv
  <1> DEFINE Listed == /\ clk_cb' \in Seq(ClkDevices) /\ async_cb' \in Seq(AsyncDevices)
                       /\ ToSet(clk_cb) \subseteq ToSet(clk_cb)'
                       /\ ToSet(async_cb) \subseteq ToSet(async_cb)'
             Debts  == /\ owed' \in [Irqs -> {0, 1}]
                       /\ \A q \in Irqs : owed[q] = 1 => owed'[q] = 1
  <1>4. ASSUME Listed, Debts, UartInv' PROVE DeviceInv'
    <2>1. SpiInv'
      BY <1>1, <1>4, SpiUntouched, IrqNames
    <2>2. AdcInv'
      BY <1>1, <1>4, AdcUntouched, IrqNames
    <2> QED BY <1>2, <1>4, <2>1, <2>2
  <1>5. ASSUME UNCHANGED ghosts PROVE UNCHANGED unsent /\ UNCHANGED owed /\ Debts
    BY <1>5 DEF ghosts
  <1>6. ASSUME NEW b \in UartBauds, UartWriteUbrr(b), UNCHANGED ghosts PROVE DeviceInv'
    <2>1. UNCHANGED <<clk_cb, async_cb>>
      BY <1>6 DEF UartWriteUbrr, lists
    <2>2. UartAfter(uart.usr, uart.ucr, uart.shadow, uart.intr_cb, uart.tcnt, uart.divisor,
                    uart.clk_cb)
      BY <1>3, <1>6, UartSelects
    <2>3. UartInv'
      BY <1>5, <1>6, <2>1, <2>2 DEF UartInv, UartAfter
    <2> QED BY <1>4, <1>5, <1>6, <2>1, <2>3
  <1>7. ASSUME NEW v \in UcrInputs, UartWriteUcr(v), UNCHANGED ghosts PROVE DeviceInv'
    <2>1. UartAfter(uart.usr, v, uart.shadow, UartListens(v), uart.tcnt, uart.divisor, uart.clk_cb)
      BY <1>3, <1>7, PeripheralsAssumed, UartControls DEF PeripheralsAssumption
    <2>2. /\ async_cb' \in Seq(AsyncDevices) /\ ToSet(async_cb) \subseteq ToSet(async_cb)'
          /\ UartListens(v) => "uart_int" \in ToSet(async_cb)'
      <3>1. async_cb' = IF UartListens(v) /\ ~uart.intr_cb THEN Append(async_cb, "uart_int")
                        ELSE async_cb
        BY <1>7 DEF UartWriteUcr, AsyncCbAdd
      <3>2. "uart_int" \in AsyncDevices /\ (UartListens(v) /\ ~uart.intr_cb) \in BOOLEAN
        BY DEF AsyncDevices, UartListens
      <3> QED BY <3>1, <3>2, Installed DEF UartInv
    <2>3. clk_cb' = clk_cb
      BY <1>7 DEF UartWriteUcr
    <2>4. UartInv'
      BY <1>5, <1>7, <2>1, <2>2, <2>3 DEF UartInv, UartAfter
    <2> QED BY <1>4, <1>5, <1>7, <2>2, <2>3, <2>4
  <1>8. ASSUME UdrFree, UartWriteUdr, unsent' = unsent + 1,
               owed' = Owe(IF uart'.shadow THEN {"UART_UDRE"} ELSE {})
        PROVE  DeviceInv'
    <2>1. IF "UDRE" \in uart.usr
          THEN UartAfter(uart.usr \ {"UDRE"}, uart.ucr, FALSE, uart.intr_cb, FrameClocks,
                         uart.ubrr, TRUE)
          ELSE UartAfter(uart.usr \cup {"UDRE"}, uart.ucr, TRUE, uart.intr_cb, FrameClocks,
                         uart.ubrr, TRUE)
      BY <1>3, <1>8, UartStarts
    <2>2. clk_cb' \in Seq(ClkDevices) /\ ToSet(clk_cb) \subseteq ToSet(clk_cb)'
          /\ "uart" \in ToSet(clk_cb)'
      <3>1. clk_cb' = IF ~uart.clk_cb THEN Append(clk_cb, "uart") ELSE clk_cb
        BY <1>8 DEF UartWriteUdr, ClkCbAdd
      <3>2. "uart" \in ClkDevices /\ (~uart.clk_cb) \in BOOLEAN
        BY DEF ClkDevices
      <3> QED BY <3>1, <3>2, Installed DEF UartInv
    <2>3. async_cb' = async_cb
      BY <1>8 DEF UartWriteUdr
    <2>4. FrameClocks > 0 /\ uart.ubrr > 0 /\ FrameClocks \in Nat /\ uart.ubrr \in Nat
      BY <1>3, UartAssumed, UartFields, LeastDivisor, FrameFits, MaxNat
    <2>5. Debts /\ (uart'.shadow => owed'["UART_UDRE"] = 1)
      BY <1>8, Owed DEF Irqs
    <2>6. unsent' \in 0..2 /\ ("UDRE" \in uart'.usr => unsent' <= 1)
      <3>1. CASE "UDRE" \in uart.usr
        BY <1>8, <2>1, <3>1 DEF UartInv, UartAfter
      <3>2. CASE "UDRE" \notin uart.usr
        <4>1. unsent = 0
          BY <1>8, <3>2 DEF UdrFree, UartInv
        <4> QED BY <1>8, <4>1
      <3> QED BY <3>1, <3>2
    <2>7. /\ uart' \in UartType /\ uart'.clk_cb = TRUE /\ uart'.tcnt = FrameClocks
          /\ uart'.divisor = uart.ubrr /\ uart'.ucr = uart.ucr /\ uart'.intr_cb = uart.intr_cb
          /\ "TXC" \in uart'.usr => "TXC" \in uart.usr
      BY <2>1 DEF UartAfter
    <2>8. UartInv'
      BY <2>2, <2>3, <2>4, <2>5, <2>6, <2>7, IrqNames DEF UartInv
    <2> QED BY <1>4, <2>2, <2>3, <2>5, <2>8
  <1> QED BY <1>6, <1>7, <1>8 DEF UartAccess

(* ADCSR. *)
LEMMA AdcAccessed ==
    ASSUME DeviceInv, AdcAccess, Accessing
    PROVE  DeviceInv'
  <1> USE DEF DeviceInv, BusInv
  <1>1. UNCHANGED <<spi, uart, owed, unsent>>
    BY DEF AdcAccess, ghosts
  <1>2. ScheduleInv' /\ node' \in Nat \ {0}
    BY NotWalking DEF Accessing
  <1>3. adc \in AdcType
    BY DEF AdcInv
  <1>4. PICK v \in SUBSET AdcsrBits, d \in AdcDivisors : AdcWriteAdcsr(v, d)
    BY PeripheralsAssumed DEF AdcAccess, PeripheralsAssumption
  <1>5. IF AdcStarts(v)
        THEN AdcAfter(v \ {"ADIF"}, TRUE, AdcClocks, d, TRUE)
        ELSE AdcAfter(v \ {"ADIF"}, FALSE, adc.adc_count, adc.divisor, adc.clk_cb)
    BY <1>3, <1>4, AdcControls
  <1>6. /\ async_cb' \in Seq(AsyncDevices) /\ ToSet(async_cb) \subseteq ToSet(async_cb)'
        /\ AdcStarts(v) => "adc_int" \in ToSet(async_cb)'
    <2>1. async_cb' = IF AdcStarts(v) /\ ~adc.intr_cb THEN Append(async_cb, "adc_int")
                      ELSE async_cb
      BY <1>4 DEF AdcWriteAdcsr, AsyncCbAdd
    <2>2. "adc_int" \in AsyncDevices /\ (AdcStarts(v) /\ ~adc.intr_cb) \in BOOLEAN
      BY DEF AsyncDevices, AdcStarts
    <2> QED BY <2>1, <2>2, Installed DEF AdcInv
  <1>7. /\ clk_cb' \in Seq(ClkDevices) /\ ToSet(clk_cb) \subseteq ToSet(clk_cb)'
        /\ AdcStarts(v) => "adc" \in ToSet(clk_cb)'
    <2>1. clk_cb' = IF AdcStarts(v) /\ ~adc.clk_cb THEN Append(clk_cb, "adc") ELSE clk_cb
      BY <1>4 DEF AdcWriteAdcsr, ClkCbAdd
    <2>2. "adc" \in ClkDevices /\ (AdcStarts(v) /\ ~adc.clk_cb) \in BOOLEAN
      BY DEF ClkDevices, AdcStarts
    <2> QED BY <2>1, <2>2, Installed DEF AdcInv
  <1>8. d > 0 /\ AdcClocks > 0 /\ AdcClocks \in Nat
    BY AdcAssumed, LeastDivisor, MaxNat
  <1>9. AdcInv'
    <2>1. CASE AdcStarts(v)
      BY <1>5, <1>6, <1>7, <1>8, <2>1 DEF AdcInv, AdcAfter
    <2>2. CASE ~AdcStarts(v)
      BY <1>5, <1>6, <1>7, <2>2 DEF AdcInv, AdcAfter
    <2> QED BY <2>1, <2>2
  <1>10. SpiInv' /\ UartInv'
    BY <1>1, <1>6, <1>7, SpiUntouched, UartUntouched
  <1> QED BY <1>1, <1>2, <1>6, <1>7, <1>9, <1>10

----------------------------------------------------------------------------
(* The clock callbacks *)

(* What a visit does to the lists and the cursor. *)
LEMMA ClkNodes ==
    ASSUME BusInv, ClkVisit, NEW d, clk_cb[node] = d, NEW remove \in BOOLEAN,
           clk_cb' = IteratorVisit(clk_cb, node, remove),
           node' = IteratorNext(node, remove),
           async_cb' = async_cb
    PROVE  /\ clk_cb' \in Seq(ClkDevices) /\ async_cb' \in Seq(AsyncDevices)
           /\ node' \in Nat \ {0}
           /\ ToSet(clk_cb) \ {d} \subseteq ToSet(clk_cb)'
           /\ ~remove => clk_cb' = clk_cb
           /\ ScheduleInv'
  <1>1. clk_cb \in Seq(ClkDevices) /\ node \in DOMAIN clk_cb /\ async_cb \in Seq(AsyncDevices)
        /\ node \in Nat \ {0}
    BY DEF BusInv, ClkVisit
  <1>2. /\ clk_cb' \in Seq(ClkDevices)
        /\ ToSet(clk_cb) \ {d} \subseteq ToSet(clk_cb)'
        /\ ~remove => clk_cb' = clk_cb
    BY <1>1, Visited
  <1>3. node' \in Nat \ {0}
    BY <1>1 DEF IteratorNext
  <1>4. ScheduleInv'
    BY NotWalking DEF ClkVisit
  <1> QED BY <1>1, <1>2, <1>3, <1>4

(* spi_clk_incr_cb. *)
LEMMA SpiVisited ==
    ASSUME DeviceInv, ClkVisit, VisitSpi
    PROVE  DeviceInv'
  <1> USE DEF DeviceInv
  <1> DEFINE remove == ~spi.clk_cb \/ SpiEnds(CK)
             irqs   == IF SpiEnds(CK) THEN {"SPI_STC"} ELSE {}
  <1>1. /\ UNCHANGED <<uart, adc, unsent, async_cb>>
        /\ owed' = Owe(irqs) /\ remove \in BOOLEAN
        /\ clk_cb' = IteratorVisit(clk_cb, node, remove)
        /\ node' = IteratorNext(node, remove)
        /\ clk_cb[node] = "spi"
    BY DEF VisitSpi, SpiClkIncrCb, SpiEnds
  <1>2. owed' \in [Irqs -> {0, 1}] /\ \A q \in Irqs : owed'[q] = IF q \in irqs THEN 1 ELSE owed[q]
    BY <1>1, Owed DEF BusInv
  <1> HIDE DEF remove
  <1>3. /\ clk_cb' \in Seq(ClkDevices) /\ async_cb' \in Seq(AsyncDevices)
        /\ node' \in Nat \ {0} /\ ScheduleInv'
        /\ ToSet(clk_cb) \ {"spi"} \subseteq ToSet(clk_cb)'
        /\ ~remove => clk_cb' = clk_cb
    BY <1>1, ClkNodes
  <1>4. spi \in SpiType
    BY DEF SpiInv
  <1>5. SpiInv'
    <2>1. CASE ~spi.clk_cb
      <3>1. spi' = spi /\ ~SpiEnds(CK)
        BY <2>1 DEF VisitSpi, SpiClkIncrCb, SpiEnds
      <3> QED BY <1>1, <1>2, <2>1, <3>1, IrqNames DEF SpiInv
    <2>2. CASE spi.clk_cb /\ SpiEnds(CK)
      <3>1. SpiAfter(spi.spcr, spi.spsr \cup {"SPIF"}, spi.intr_cb, 0, spi.divisor, FALSE)
        BY <1>4, <2>2, SpiCountsDown DEF VisitSpi
      <3> QED BY <1>1, <1>2, <2>2, <3>1, IrqNames DEF SpiInv, SpiAfter
    <2>3. CASE spi.clk_cb /\ ~SpiEnds(CK)
      <3>1. SpiAfter(spi.spcr, spi.spsr, spi.intr_cb, SpiTcnt(CK), spi.divisor, spi.clk_cb)
        BY <1>4, <2>3, SpiCountsDown DEF VisitSpi
      <3>2. spi.tcnt \in 0..UINT8_MAX /\ UINT8_MAX \in Nat /\ spi.tcnt > 0
        BY <1>4, <2>3, SpiFields, MaxNat DEF SpiInv
      <3>3. SpiTcnt(CK) \in {spi.tcnt, spi.tcnt - 1}
        BY <3>2, CountsDown DEF SpiTcnt
      <3>4. SpiTcnt(CK) > 0
        BY <2>3, <3>2, <3>3 DEF SpiEnds
      <3>5. clk_cb' = clk_cb
        BY <1>3, <2>3 DEF remove
      <3> QED BY <1>1, <1>2, <2>3, <3>1, <3>4, <3>5, IrqNames DEF SpiInv, SpiAfter
    <2> QED BY <2>1, <2>2, <2>3
  <1>6. UartInv' /\ AdcInv'
    BY <1>1, <1>2, <1>3, UartUntouched, AdcUntouched, IrqNames
  <1> QED BY <1>2, <1>3, <1>5, <1>6 DEF BusInv

(* uart_clk_incr_cb. *)
LEMMA UartVisited ==
    ASSUME DeviceInv, ClkVisit, VisitUart
    PROVE  DeviceInv'
  <1> USE DEF DeviceInv
  <1> DEFINE remove == ~uart.clk_cb \/ UartEnds(CK)
             irqs   == IF UartEnds(CK) THEN {"UART_TX"}
                       ELSE IF UartFrameEnds(CK) THEN {"UART_UDRE"} ELSE {}
  <1>1. /\ UNCHANGED <<spi, adc, async_cb>>
        /\ unsent' = IF UartFrameEnds(CK) /\ unsent > 0 THEN unsent - 1 ELSE unsent
        /\ owed' = Owe(irqs) /\ remove \in BOOLEAN
        /\ clk_cb' = IteratorVisit(clk_cb, node, remove)
        /\ node' = IteratorNext(node, remove)
        /\ clk_cb[node] = "uart"
    BY DEF VisitUart, UartClkIncrCb, UartEnds
  <1>2. owed' \in [Irqs -> {0, 1}] /\ \A q \in Irqs : owed'[q] = IF q \in irqs THEN 1 ELSE owed[q]
    BY <1>1, Owed DEF BusInv
  <1> HIDE DEF remove
  <1>3. /\ clk_cb' \in Seq(ClkDevices) /\ async_cb' \in Seq(AsyncDevices)
        /\ node' \in Nat \ {0} /\ ScheduleInv'
        /\ ToSet(clk_cb) \ {"uart"} \subseteq ToSet(clk_cb)'
        /\ ~remove => clk_cb' = clk_cb
    BY <1>1, ClkNodes
  <1>4. uart \in UartType /\ unsent \in 0..2
    BY DEF UartInv
  <1>5. UartInv'
    <2>1. CASE ~uart.clk_cb
      <3>1. uart' = uart /\ ~UartEnds(CK) /\ ~UartFrameEnds(CK)
        BY <2>1 DEF VisitUart, UartClkIncrCb, UartEnds, UartFrameEnds
      <3>2. unsent' = unsent
        BY <1>1, <3>1
      <3> QED BY <1>1, <1>2, <2>1, <3>1, <3>2, IrqNames DEF UartInv
    <2>2. CASE uart.clk_cb /\ UartEnds(CK)
      <3>1. UartAfter(uart.usr \cup {"TXC"}, uart.ucr, uart.shadow, uart.intr_cb, 0,
                      uart.divisor, FALSE)
        BY <1>4, <2>2, UartCountsDown DEF VisitUart
      <3>2. UartFrameEnds(CK) /\ "UDRE" \in uart.usr
        BY <2>2 DEF UartEnds
      <3>3. unsent' = 0
        BY <1>1, <1>4, <3>2 DEF UartInv
      <3> QED BY <1>1, <1>2, <2>2, <3>1, <3>3, IrqNames DEF UartInv, UartAfter
    <2>3. CASE uart.clk_cb /\ ~UartEnds(CK) /\ UartFrameEnds(CK)
      <3>1. UartAfter(uart.usr \cup {"UDRE"}, uart.ucr, TRUE, uart.intr_cb, FrameClocks,
                      uart.divisor, uart.clk_cb)
        BY <1>4, <2>3, UartCountsDown DEF VisitUart
      <3>2. unsent' \in 0..1
        BY <1>1, <1>4, <2>3
      <3>3. FrameClocks > 0
        BY FrameFits, MaxNat
      <3>4. clk_cb' = clk_cb
        BY <1>3, <2>3 DEF remove
      <3> QED BY <1>1, <1>2, <2>3, <3>1, <3>2, <3>3, <3>4, IrqNames DEF UartInv, UartAfter
    <2>4. CASE uart.clk_cb /\ ~UartEnds(CK) /\ ~UartFrameEnds(CK)
      <3>1. UartAfter(uart.usr, uart.ucr, uart.shadow, uart.intr_cb, UartTcnt(CK),
                      uart.divisor, uart.clk_cb)
        BY <1>4, <2>4, UartCountsDown DEF VisitUart
      <3>2. uart.tcnt \in 0..UINT16_MAX /\ UINT16_MAX \in Nat /\ uart.tcnt > 0
        BY <1>4, <2>4, UartFields, MaxNat DEF UartInv
      <3>3. UartTcnt(CK) \in {uart.tcnt, uart.tcnt - 1}
        BY <3>2, CountsDown DEF UartTcnt
      <3>4. UartTcnt(CK) > 0
        BY <2>4, <3>2, <3>3 DEF UartFrameEnds
      <3>5. clk_cb' = clk_cb
        BY <1>3, <2>4 DEF remove
      <3>6. unsent' = unsent
        BY <1>1, <2>4
      <3> QED BY <1>1, <1>2, <2>4, <3>1, <3>4, <3>5, <3>6, IrqNames DEF UartInv, UartAfter
    <2> QED BY <2>1, <2>2, <2>3, <2>4
  <1>6. SpiInv' /\ AdcInv'
    BY <1>1, <1>2, <1>3, SpiUntouched, AdcUntouched, IrqNames
  <1> QED BY <1>2, <1>3, <1>5, <1>6 DEF BusInv

(* adc_clk_incr_cb. *)
LEMMA AdcVisited ==
    ASSUME DeviceInv, ClkVisit, VisitAdc
    PROVE  DeviceInv'
  <1> USE DEF DeviceInv
  <1> DEFINE remove == ~adc.clk_cb \/ AdcEnds(CK)
             irqs   == IF AdcConverts(CK) THEN {"ADC"} ELSE {}
  <1>1. /\ UNCHANGED <<spi, uart, unsent, async_cb>>
        /\ owed' = Owe(irqs) /\ remove \in BOOLEAN
        /\ clk_cb' = IteratorVisit(clk_cb, node, remove)
        /\ node' = IteratorNext(node, remove)
        /\ clk_cb[node] = "adc"
    BY DEF VisitAdc, AdcClkIncrCb, AdcEnds
  <1>2. owed' \in [Irqs -> {0, 1}] /\ \A q \in Irqs : owed'[q] = IF q \in irqs THEN 1 ELSE owed[q]
    BY <1>1, Owed DEF BusInv
  <1> HIDE DEF remove
  <1>3. /\ clk_cb' \in Seq(ClkDevices) /\ async_cb' \in Seq(AsyncDevices)
        /\ node' \in Nat \ {0} /\ ScheduleInv'
        /\ ToSet(clk_cb) \ {"adc"} \subseteq ToSet(clk_cb)'
        /\ ~remove => clk_cb' = clk_cb
    BY <1>1, ClkNodes
  <1>4. adc \in AdcType
    BY DEF AdcInv
  <1>5. AdcInv'
    <2>1. CASE ~adc.clk_cb
      <3>1. adc' = adc /\ ~AdcConverts(CK)
        BY <2>1 DEF VisitAdc, AdcClkIncrCb, AdcConverts
      <3> QED BY <1>1, <1>2, <2>1, <3>1, IrqNames DEF AdcInv
    <2>2. CASE adc.clk_cb /\ AdcConverts(CK)
      <3>1. AdcAfter((adc.adcsr \cup {"ADIF"}) \ {"ADSC"}, adc.intr_cb,
                     IF AdcEnds(CK) THEN 0 ELSE AdcClocks, adc.divisor, ~AdcEnds(CK))
        BY <1>4, <2>2, AdcCountsDown DEF VisitAdc
      <3>2. AdcClocks > 0 /\ owed'["ADC"] = 1
        BY <1>2, <2>2, AdcAssumed, MaxNat, IrqNames
      <3>3. CASE AdcEnds(CK)
        <4>1. /\ adc' \in AdcType /\ adc'.intr_cb = adc.intr_cb
              /\ adc'.adc_count = 0 /\ adc'.clk_cb = FALSE
          BY <3>1, <3>3 DEF AdcAfter
        <4>2. adc'.intr_cb => "adc_int" \in ToSet(async_cb)'
          BY <1>1, <4>1 DEF AdcInv
        <4> QED BY <3>2, <4>1, <4>2 DEF AdcInv
      <3>4. CASE ~AdcEnds(CK)
        <4>1. clk_cb' = clk_cb
          BY <1>3, <2>2, <3>4 DEF remove
        <4> QED BY <1>1, <2>2, <3>1, <3>2, <3>4, <4>1 DEF AdcInv, AdcAfter
      <3> QED BY <3>3, <3>4
    <2>3. CASE adc.clk_cb /\ ~AdcConverts(CK)
      <3>1. AdcAfter(adc.adcsr, adc.intr_cb, AdcCount(CK), adc.divisor, adc.clk_cb)
        BY <1>4, <2>3, AdcCountsDown DEF VisitAdc
      <3>2. adc.adc_count \in 0..UINT16_MAX /\ UINT16_MAX \in Nat /\ adc.adc_count > 0
        BY <1>4, <2>3, AdcFields, MaxNat DEF AdcInv
      <3>3. AdcCount(CK) \in {adc.adc_count, adc.adc_count - 1}
        BY <3>2, CountsDown DEF AdcCount
      <3>4. AdcCount(CK) > 0
        BY <2>3, <3>2, <3>3 DEF AdcConverts
      <3>5. clk_cb' = clk_cb
        BY <1>3, <2>3 DEF remove, AdcEnds
      <3> QED BY <1>1, <1>2, <2>3, <3>1, <3>4, <3>5, IrqNames DEF AdcInv, AdcAfter
    <2> QED BY <2>1, <2>2, <2>3
  <1>6. SpiInv' /\ UartInv'
    BY <1>1, <1>2, <1>3, SpiUntouched, UartUntouched, IrqNames
  <1> QED BY <1>2, <1>3, <1>5, <1>6 DEF BusInv
----------------------------------------------------------------------------
(* The asynchronous callbacks *)

(* What a visit does to the lists and the cursor. *)
LEMMA AsyncNodes ==
    ASSUME BusInv, AsyncVisit, NEW d, async_cb[node] = d, NEW remove \in BOOLEAN,
           async_cb' = IteratorVisit(async_cb, node, remove),
           node' = IteratorNext(node, remove),
           clk_cb' = clk_cb
    PROVE  /\ clk_cb' \in Seq(ClkDevices) /\ async_cb' \in Seq(AsyncDevices)
           /\ node' \in Nat \ {0}
           /\ ToSet(async_cb) \ {d} \subseteq ToSet(async_cb)'
           /\ ~remove => async_cb' = async_cb
           /\ \A e : e # d /\ Ahead(e) => Ahead(e)'
  <1>1. clk_cb \in Seq(ClkDevices) /\ node \in DOMAIN async_cb /\ async_cb \in Seq(AsyncDevices)
        /\ node \in Nat \ {0}
    BY DEF BusInv, AsyncVisit
  <1>2. /\ async_cb' \in Seq(AsyncDevices)
        /\ ToSet(async_cb) \ {d} \subseteq ToSet(async_cb)'
        /\ ~remove => async_cb' = async_cb
    BY <1>1, Visited
  <1>3. node' \in Nat \ {0}
    BY <1>1 DEF IteratorNext
  <1>4. ASSUME NEW e, e # d, Ahead(e) PROVE Ahead(e)'
    <2>1. PICK j \in DOMAIN async_cb : j >= node /\ async_cb[j] = e
      BY <1>4 DEF Ahead
    <2>2. \E k \in DOMAIN async_cb' : k >= IteratorNext(node, remove) /\ async_cb'[k] = e
      BY <1>1, <1>4, <2>1, StillAhead
    <2> QED BY <2>2 DEF Ahead
  <1> QED BY <1>1, <1>2, <1>3, <1>4

(* An interrupt that was owed and is raised is owed no more. *)
LEMMA Settled ==
    ASSUME owed \in [Irqs -> {0, 1}], NEW irqs, Settle(irqs),
           \A q \in irqs \cap Irqs : owed[q] = 1
    PROVE  /\ owed' \in [Irqs -> {0, 1}]
           /\ \A q \in Irqs : owed'[q] = IF q \in irqs THEN 0 ELSE owed[q]
  <1>1. \A q \in Irqs : owed'[q] = IF q \in irqs THEN 0 ELSE owed[q]
    <2> TAKE q \in Irqs
    <2>1. owed'[q] = owed[q] - IF q \in irqs THEN 1 ELSE 0
      BY DEF Settle
    <2>2. owed[q] \in {0, 1}
      OBVIOUS
    <2> QED BY <2>1, <2>2
  <1>2. owed' = [q \in Irqs |-> owed[q] - IF q \in irqs THEN 1 ELSE 0]
    BY DEF Settle
  <1>3. \A q \in Irqs : owed'[q] \in {0, 1}
    BY <1>1
  <1> QED BY <1>1, <1>2, <1>3

(* spi_intr_cb serves what it finds. *)
LEMMA SpiiVisited ==
    ASSUME DeviceInv, VisitSpii
    PROVE  DeviceInv'
  <1> USE DEF DeviceInv
  <1> DEFINE remove == ~spi.intr_cb
  <1>1. /\ UNCHANGED <<uart, adc, unsent, clk_cb>> /\ remove \in BOOLEAN
        /\ Settle(SpiRaises) /\ AsyncVisit
        /\ async_cb' = IteratorVisit(async_cb, node, remove)
        /\ node' = IteratorNext(node, remove)
        /\ async_cb[node] = "spii"
    BY DEF VisitSpii, SpiIntrCb
  <1>2. spi \in SpiType /\ owed \in [Irqs -> {0, 1}]
    BY DEF SpiInv, BusInv
  <1>4. SpiRaises = IF SpiFlagged THEN {"SPI_STC"} ELSE {}
    BY DEF SpiRaises, SpiFlagged, SpiInv
  <1>5. /\ owed' \in [Irqs -> {0, 1}]
        /\ \A q \in Irqs : owed'[q] = IF q \in SpiRaises THEN 0 ELSE owed[q]
    <2>1. \A q \in SpiRaises \cap Irqs : owed[q] = 1
      BY <1>4 DEF SpiFlagged, SpiInv
    <2> QED BY <1>1, <1>2, <2>1, Settled
  <1> HIDE DEF remove
  <1>6. /\ clk_cb' \in Seq(ClkDevices) /\ async_cb' \in Seq(AsyncDevices)
        /\ node' \in Nat \ {0}
        /\ ToSet(async_cb) \ {"spii"} \subseteq ToSet(async_cb)'
        /\ ~remove => async_cb' = async_cb
        /\ \A e : e # "spii" /\ Ahead(e) => Ahead(e)'
    BY <1>1, AsyncNodes
  <1>7. SpiAfter(spi.spcr, IF SpiFlagged THEN {} ELSE spi.spsr, spi.intr_cb, spi.tcnt,
                 spi.divisor, spi.clk_cb)
    <2>1. SpiAfter(spi.spcr, IF SpiRaises # {} THEN {} ELSE spi.spsr, spi.intr_cb,
                   spi.tcnt, spi.divisor, spi.clk_cb)
      BY <1>2, SpiInterrupts DEF VisitSpii
    <2>2. SpiRaises # {} <=> SpiFlagged
      BY <1>4
    <2> QED BY <2>1, <2>2
  <1>8. ~SpiFlagged'
    BY <1>7 DEF SpiFlagged, SpiAfter
  <1>9. SpiInv'
    <2>1. spi.intr_cb => async_cb' = async_cb
      BY <1>6 DEF remove
    <2>2. CASE SpiFlagged
      BY <1>1, <1>7, <2>1, <2>2 DEF SpiInv, SpiAfter
    <2>3. CASE ~SpiFlagged
      <3>1. owed'["SPI_STC"] = owed["SPI_STC"]
        BY <1>4, <1>5, <2>3, IrqNames
      <3> QED BY <1>1, <1>7, <2>1, <2>3, <3>1 DEF SpiInv, SpiAfter
    <2> QED BY <2>2, <2>3
  <1>10. UartInv' /\ AdcInv'
    <2>1. \A q \in {"UART_TX", "UART_UDRE", "ADC"} : owed'[q] = owed[q]
      BY <1>4, <1>5, IrqNames
    <2>2. "uart_int" \in ToSet(async_cb) => "uart_int" \in ToSet(async_cb)'
      BY <1>6
    <2>3. "adc_int" \in ToSet(async_cb) => "adc_int" \in ToSet(async_cb)'
      BY <1>6
    <2> QED BY <1>1, <2>1, <2>2, <2>3, UartUntouched, AdcUntouched
  <1>11. ScheduleInv'
    BY <1>1, <1>6, <1>8 DEF ScheduleInv, AsyncVisit, UartFlagged, AdcWaits, AdcFlagged
  <1> QED BY <1>5, <1>6, <1>9, <1>10, <1>11 DEF BusInv

(* uart_intr_cb serves what it finds. *)
LEMMA UartIntVisited ==
    ASSUME DeviceInv, VisitUartInt
    PROVE  DeviceInv'
  <1> USE DEF DeviceInv
  <1> DEFINE remove == ~uart.intr_cb
             sent   == uart.intr_cb /\ Sent
             room   == uart.intr_cb /\ HasRoom
  <1>1. /\ UNCHANGED <<spi, adc, unsent, clk_cb>> /\ remove \in BOOLEAN
        /\ Settle(UartRaises) /\ AsyncVisit
        /\ async_cb' = IteratorVisit(async_cb, node, remove)
        /\ node' = IteratorNext(node, remove)
        /\ async_cb[node] = "uart_int"
    BY DEF VisitUartInt, UartIntrCb
  <1>2. uart \in UartType /\ owed \in [Irqs -> {0, 1}]
    BY DEF UartInv, BusInv
  <1>3. UartRaises = (IF sent THEN {"UART_TX"} ELSE {}) \cup (IF room THEN {"UART_UDRE"} ELSE {})
    <2>1. CASE ~uart.intr_cb
      <3>1. UartRaises = {} /\ ~sent /\ ~room
        BY <2>1 DEF UartRaises
      <3> HIDE DEF sent, room
      <3> QED BY <3>1
    <2>2. CASE uart.intr_cb
      BY <2>2 DEF UartRaises
    <2> QED BY <2>1, <2>2
  <1>4. /\ owed' \in [Irqs -> {0, 1}]
        /\ \A q \in Irqs : owed'[q] = IF q \in UartRaises THEN 0 ELSE owed[q]
    <2>1. \A q \in UartRaises \cap Irqs : owed[q] = 1
      BY <1>3 DEF UartInv, Sent, HasRoom
    <2> QED BY <1>1, <1>2, <2>1, Settled
  <1>5. /\ owed'["UART_TX"] = IF sent THEN 0 ELSE owed["UART_TX"]
        /\ owed'["UART_UDRE"] = IF room THEN 0 ELSE owed["UART_UDRE"]
        /\ owed'["SPI_STC"] = owed["SPI_STC"] /\ owed'["ADC"] = owed["ADC"]
    BY <1>3, <1>4, IrqNames
  <1>6. UartAfter(IF sent THEN uart.usr \ {"TXC"} ELSE uart.usr, uart.ucr,
                  uart.shadow /\ ~room, uart.intr_cb, uart.tcnt, uart.divisor, uart.clk_cb)
    <2>1. CASE uart.intr_cb
      <3>1. UartAfter(IF Sent THEN uart.usr \ {"TXC"} ELSE uart.usr, uart.ucr,
                      uart.shadow /\ ~HasRoom, uart.intr_cb, uart.tcnt, uart.divisor,
                      uart.clk_cb)
        BY <1>2, <2>1, UartInterrupts DEF VisitUartInt
      <3>2. sent = Sent /\ room = HasRoom
        BY <2>1 DEF Sent, HasRoom
      <3> QED BY <3>1, <3>2
    <2>2. CASE ~uart.intr_cb
      <3>1. uart' = uart
        BY <2>2 DEF VisitUartInt, UartIntrCb
      <3>2. (IF sent THEN uart.usr \ {"TXC"} ELSE uart.usr) = uart.usr
        BY <2>2
      <3>3. (uart.shadow /\ ~room) = uart.shadow
        BY <1>2, <2>2, UartFields
      <3> QED BY <1>2, <3>1, <3>2, <3>3 DEF UartAfter
    <2> QED BY <2>1, <2>2
  <1>7. sent = (uart.intr_cb /\ "TXCIE" \in uart.ucr /\ "TXC" \in uart.usr)
        /\ room = (uart.intr_cb /\ "UDRIE" \in uart.ucr /\ "UDRE" \in uart.usr /\ uart.shadow)
    BY DEF Sent, HasRoom
  <1>8. remove = ~uart.intr_cb
    OBVIOUS
  <1> HIDE DEF remove, sent, room
  <1>9. /\ clk_cb' \in Seq(ClkDevices) /\ async_cb' \in Seq(AsyncDevices)
        /\ node' \in Nat \ {0}
        /\ ToSet(async_cb) \ {"uart_int"} \subseteq ToSet(async_cb)'
        /\ ~remove => async_cb' = async_cb
        /\ \A e : e # "uart_int" /\ Ahead(e) => Ahead(e)'
    BY <1>1, AsyncNodes
  <1>10. /\ uart' \in UartType
         /\ uart'.ucr = uart.ucr /\ uart'.intr_cb = uart.intr_cb /\ uart'.tcnt = uart.tcnt
         /\ uart'.divisor = uart.divisor /\ uart'.clk_cb = uart.clk_cb
         /\ "UDRE" \in uart'.usr <=> "UDRE" \in uart.usr
         /\ "TXC" \in uart'.usr <=> "TXC" \in uart.usr /\ ~sent
         /\ uart'.shadow <=> uart.shadow /\ ~room
    BY <1>6 DEF UartAfter
  <1>11. ~UartFlagged'
    BY <1>7, <1>10 DEF UartFlagged, UartInv, UartListens
  <1>12. UartInv'
    <2>1. uart.intr_cb => async_cb' = async_cb
      BY <1>8, <1>9
    <2>2. "TXC" \in uart'.usr => owed'["UART_TX"] = 1
      BY <1>5, <1>10 DEF UartInv
    <2>3. "UDRE" \in uart'.usr /\ uart'.shadow => owed'["UART_UDRE"] = 1
      BY <1>5, <1>10 DEF UartInv
    <2> QED BY <1>1, <1>10, <2>1, <2>2, <2>3 DEF UartInv
  <1>13. SpiInv' /\ AdcInv'
    <2>1. "spii" \in ToSet(async_cb) => "spii" \in ToSet(async_cb)'
      BY <1>9
    <2>2. "adc_int" \in ToSet(async_cb) => "adc_int" \in ToSet(async_cb)'
      BY <1>9
    <2> QED BY <1>1, <1>5, <2>1, <2>2, SpiUntouched, AdcUntouched
  <1>14. ScheduleInv'
    BY <1>1, <1>9, <1>11 DEF ScheduleInv, AsyncVisit, SpiFlagged, AdcWaits, AdcFlagged
  <1> QED BY <1>4, <1>9, <1>12, <1>13, <1>14 DEF BusInv

(* adc_intr_cb serves what it finds. *)
LEMMA AdcIntVisited ==
    ASSUME DeviceInv, VisitAdcInt
    PROVE  DeviceInv'
  <1> USE DEF DeviceInv
  <1> DEFINE remove == ~adc.intr_cb
  <1>1. /\ UNCHANGED <<spi, uart, unsent, clk_cb>> /\ remove \in BOOLEAN
        /\ Settle(AdcRaises) /\ AsyncVisit
        /\ async_cb' = IteratorVisit(async_cb, node, remove)
        /\ node' = IteratorNext(node, remove)
        /\ async_cb[node] = "adc_int"
    BY DEF VisitAdcInt, AdcIntrCb
  <1>2. adc \in AdcType /\ owed \in [Irqs -> {0, 1}]
    BY DEF AdcInv, BusInv
  <1>4. AdcRaises = IF AdcWaits THEN {"ADC"} ELSE {}
    BY DEF AdcRaises, AdcWaits
  <1>5. /\ owed' \in [Irqs -> {0, 1}]
        /\ \A q \in Irqs : owed'[q] = IF q \in AdcRaises THEN 0 ELSE owed[q]
    <2>1. \A q \in AdcRaises \cap Irqs : owed[q] = 1
      BY <1>4 DEF AdcWaits, AdcFlagged, AdcInv
    <2> QED BY <1>1, <1>2, <2>1, Settled
  <1> HIDE DEF remove
  <1>6. /\ clk_cb' \in Seq(ClkDevices) /\ async_cb' \in Seq(AsyncDevices)
        /\ node' \in Nat \ {0}
        /\ ToSet(async_cb) \ {"adc_int"} \subseteq ToSet(async_cb)'
        /\ ~remove => async_cb' = async_cb
        /\ \A e : e # "adc_int" /\ Ahead(e) => Ahead(e)'
    BY <1>1, AsyncNodes
  <1>7. AdcAfter(IF AdcWaits THEN adc.adcsr \ {"ADIF"} ELSE adc.adcsr, adc.intr_cb,
                 adc.adc_count, adc.divisor, adc.clk_cb)
    <2>1. AdcAfter(IF AdcRaises # {} THEN adc.adcsr \ {"ADIF"} ELSE adc.adcsr, adc.intr_cb,
                   adc.adc_count, adc.divisor, adc.clk_cb)
      BY <1>2, AdcInterrupts DEF VisitAdcInt
    <2>2. AdcRaises # {} <=> AdcWaits
      BY <1>4
    <2> QED BY <2>1, <2>2
  <1>8. ~AdcWaits'
    BY <1>7 DEF AdcWaits, AdcFlagged, AdcAfter
  <1>9. AdcInv'
    <2>1. adc.intr_cb => async_cb' = async_cb
      BY <1>6 DEF remove
    <2>2. CASE AdcWaits
      BY <1>1, <1>7, <2>1, <2>2 DEF AdcInv, AdcAfter
    <2>3. CASE ~AdcWaits
      <3>1. owed'["ADC"] = owed["ADC"]
        BY <1>4, <1>5, <2>3, IrqNames
      <3> QED BY <1>1, <1>7, <2>1, <2>3, <3>1 DEF AdcInv, AdcAfter
    <2> QED BY <2>2, <2>3
  <1>10. SpiInv' /\ UartInv'
    <2>1. \A q \in {"UART_TX", "UART_UDRE", "SPI_STC"} : owed'[q] = owed[q]
      BY <1>4, <1>5, IrqNames
    <2>2. "uart_int" \in ToSet(async_cb) => "uart_int" \in ToSet(async_cb)'
      BY <1>6
    <2>3. "spii" \in ToSet(async_cb) => "spii" \in ToSet(async_cb)'
      BY <1>6
    <2> QED BY <1>1, <2>1, <2>2, <2>3, SpiUntouched, UartUntouched
  <1>11. ScheduleInv'
    BY <1>1, <1>6, <1>8 DEF ScheduleInv, AsyncVisit, SpiFlagged, UartFlagged
  <1> QED BY <1>5, <1>6, <1>9, <1>10, <1>11 DEF BusInv

----------------------------------------------------------------------------
(* A reset, and steps of no device *)

(* avr_core_reset leaves nodes behind but nothing that counts, is flagged   *)
(* or is owed.                                                              *)
LEMMA AllReset ==
    ASSUME DeviceInv, DebuggerReset
    PROVE  DeviceInv'
  <1> USE DEF DeviceInv
  <1>1. /\ spi' = SpiReset /\ uart' = UartReset /\ adc' = AdcReset
        /\ owed' = [q \in Irqs |-> 0] /\ unsent' = 0
        /\ UNCHANGED <<clk_cb, async_cb, node>> /\ phase' = "step"
    BY DEF DebuggerReset, step_vars
  <1>2. BusInv'
    BY <1>1 DEF BusInv
  <1>3. SpiInv'
    BY <1>1, SpiResets DEF SpiInv, SpiAfter
  <1>4. UartInv'
    BY <1>1, UartResets DEF UartInv, UartAfter, UartListens
  <1>5. AdcInv'
    BY <1>1, AdcResets DEF AdcInv, AdcAfter
  <1>6. ScheduleInv'
    BY <1>1, NotWalking
  <1> QED BY <1>2, <1>3, <1>4, <1>5, <1>6

(* The walk of the asynchronous callbacks begins at the first node, so that *)
(* every device whose callback is installed is ahead, and ends past the     *)
(* last.                                                                    *)
LEMMA NoneTouched ==
    ASSUME DeviceInv, Elsewhere
    PROVE  DeviceInv'
  <1> USE DEF DeviceInv
  <1>1. UNCHANGED <<spi, uart, adc, clk_cb, async_cb, owed, unsent>>
    BY DEF Elsewhere
  <1>2. node' \in Nat \ {0} /\ async_cb \in Seq(AsyncDevices)
    BY DEF Elsewhere, BusInv
  <1>3. BusInv' /\ SpiInv' /\ UartInv' /\ AdcInv'
    BY <1>1, <1>2 DEF BusInv, SpiInv, UartInv, AdcInv
  <1>4. /\ SpiFlagged' = SpiFlagged /\ UartFlagged' = UartFlagged /\ AdcWaits' = AdcWaits
    BY <1>1 DEF SpiFlagged, UartFlagged, AdcWaits, AdcFlagged
  <1>5. ScheduleInv'
    <2>1. CASE phase' \notin {"async", "check"}
      BY <2>1 DEF ScheduleInv
    <2>2. CASE phase' = "async" /\ node' = 1
      <3>1. ASSUME NEW e, e \in ToSet(async_cb) PROVE Ahead(e)'
        <4>1. PICK i \in DOMAIN async_cb : async_cb[i] = e
          BY <3>1 DEF ToSet
        <4>2. i >= 1
          BY <1>2
        <4> QED BY <1>1, <2>2, <4>1, <4>2 DEF Ahead
      <3>2. SpiFlagged => "spii" \in ToSet(async_cb)
        BY DEF SpiFlagged, SpiInv
      <3>3. UartFlagged => "uart_int" \in ToSet(async_cb)
        BY DEF UartFlagged, UartInv, UartListens
      <3>4. AdcWaits => "adc_int" \in ToSet(async_cb)
        BY DEF AdcWaits, AdcInv
      <3> QED BY <1>4, <2>2, <3>1, <3>2, <3>3, <3>4 DEF ScheduleInv
    <2>3. CASE phase = "async" /\ node \notin DOMAIN async_cb /\ phase' = "check"
      <3>1. \A e : ~Ahead(e)
        <4>1. node \in Nat \ {0} /\ DOMAIN async_cb = 1..Len(async_cb)
              /\ Len(async_cb) \in Nat
          BY <1>2 DEF BusInv
        <4>2. node > Len(async_cb)
          BY <2>3, <4>1
        <4> QED BY <4>1, <4>2 DEF Ahead
      <3>2. ~SpiFlagged /\ ~UartFlagged /\ ~AdcWaits
        BY <2>3, <3>1 DEF ScheduleInv
      <3> QED BY <1>4, <2>3, <3>2 DEF ScheduleInv
    <2>4. CASE phase' = phase /\ node' = node
      <3>1. \A e : Ahead(e)' = Ahead(e)
        BY <1>1, <2>4 DEF Ahead
      <3> QED BY <1>4, <2>4, <3>1 DEF ScheduleInv
    <2> QED BY <2>1, <2>2, <2>3, <2>4 DEF Elsewhere
  <1> QED BY <1>3, <1>5

----------------------------------------------------------------------------
(* The invariant, and what follows from it *)

(* The invariant holds at the start. *)
LEMMA InitDevices == Init => DeviceInv
  <1> SUFFICES ASSUME Init PROVE DeviceInv
    OBVIOUS
  <1>1. /\ spi = SpiInit /\ uart = UartInit /\ adc = AdcInit /\ phase = "step" /\ node = 1
        /\ clk_cb = <<>> /\ async_cb = <<>>
        /\ owed = [q \in Irqs |-> 0] /\ unsent = 0
    BY DEF Init
  <1>2. BusInv
    BY <1>1 DEF BusInv
  <1>3. SpiInv
    <2>1. spi = SpiRec({}, Min(SpiDivisors), {}, {}, FALSE, 0, 0, FALSE)
      BY <1>1 DEF SpiInit, SpiRec
    <2>2. Min(SpiDivisors) \in SpiDivisors
      BY LeastDivisor, SpiAssumed
    <2> QED BY <2>1, <2>2, MaxNat DEF SpiRec, SpiType, SpiInv
  <1>4. UartInv
    <2>1. uart = UartRec(Min(UartBauds), {}, {}, FALSE, FALSE, 0, 0, FALSE)
      BY <1>1 DEF UartInit, UartRec
    <2>2. Min(UartBauds) \in UartBauds
      BY LeastDivisor, UartAssumed
    <2> QED BY <1>1, <2>1, <2>2, MaxNat DEF UartRec, UartType, UartInv, UartListens
  <1>5. AdcInv
    <2>1. adc = AdcRec({}, Min(AdcDivisors), FALSE, 0, 0, FALSE)
      BY <1>1 DEF AdcInit, AdcRec
    <2>2. Min(AdcDivisors) \in AdcDivisors
      BY LeastDivisor, AdcAssumed
    <2> QED BY <2>1, <2>2, MaxNat DEF AdcRec, AdcType, AdcInv
  <1>6. ScheduleInv
    BY <1>1 DEF ScheduleInv
  <1> QED BY <1>2, <1>3, <1>4, <1>5, <1>6 DEF DeviceInv

(* Every step keeps it. *)
LEMMA DevicesStep ==
    ASSUME DeviceInv, [Next]_vars
    PROVE  DeviceInv'
  <1>1. CASE Accessing /\ (SpiAccess \/ UartAccess \/ AdcAccess)
    BY <1>1, SpiAccessed, UartAccessed, AdcAccessed
  <1>2. CASE ClkVisit /\ (VisitSpi \/ VisitUart \/ VisitAdc)
    BY <1>2, SpiVisited, UartVisited, AdcVisited
  <1>3. CASE VisitSpii \/ VisitUartInt \/ VisitAdcInt
    BY <1>3, SpiiVisited, UartIntVisited, AdcIntVisited
  <1>4. CASE DebuggerReset
    BY <1>4, AllReset
  <1>5. CASE Elsewhere
    BY <1>5, NoneTouched
  <1> QED BY <1>1, <1>2, <1>3, <1>4, <1>5, KindsOfSteps

(* The devices, their callbacks and the walks of the step loop agree, for   *)
(* any number of nodes and in whatever order avr_core_io_write is called.   *)
THEOREM DevicesInvariant == Spec => []DeviceInv
  BY InitDevices, DevicesStep, PTL DEF Spec

(* spi_clk_incr_cb, uart_clk_incr_cb and adc_clk_incr_cb are installed      *)
(* exactly while they count, with a divisor and a node.                     *)
THEOREM DevicesCount == Spec => []CountersRun
  <1>1. DeviceInv => CountersRun
    BY DEF DeviceInv, SpiInv, UartInv, AdcInv, CountersRun
  <1> QED BY <1>1, DevicesInvariant, PTL

(* spi_intr_cb, uart_intr_cb and adc_intr_cb raise no interrupt without an  *)
(* event of its own.                                                        *)
THEOREM DevicesEarn == Spec => []InterruptsEarned
  <1>1. DeviceInv => InterruptsEarned
    BY DEF DeviceInv, BusInv, InterruptsEarned
  <1> QED BY <1>1, DevicesInvariant, PTL

(* No enabled flag is left when avr_core_check_interrupts looks.            *)
THEOREM DevicesServe == Spec => []FlagsServed
  <1>1. DeviceInv => FlagsServed
    BY DEF DeviceInv, ScheduleInv, SpiFlagged, UartFlagged, AdcWaits, FlagsServed
  <1> QED BY <1>1, DevicesInvariant, PTL

(* uart_clk_incr_cb sets TXC after the last byte that was written.          *)
THEOREM UartSendsAll == Spec => []SentBeforeComplete
  <1>1. DeviceInv => SentBeforeComplete
    BY DEF DeviceInv, UartInv, SentBeforeComplete
  <1> QED BY <1>1, DevicesInvariant, PTL

----------------------------------------------------------------------------
(* The FIFO *)

(* What is known to be in it is in its first cells, and the count is that.  *)
FifoInv ==
    /\ oseid \in OseidType
    /\ \A q \in queue :
          /\ q \in Seq(Bytes) /\ Len(q) <= FIFO_LEN /\ oseid.flen = Len(q)
          /\ \A i \in 1..Len(q) : q[i] = oseid.fifo[i]
    /\ phase = "stdin" => queue = {}

FifoCells == 1..FIFO_LEN
OseidAfter(f, n, p) == oseid' = [fifo |-> f, flen |-> n, protocol |-> p]

(* The types of its fields. *)
LEMMA OseidFields ==
    oseid \in OseidType =>
       /\ oseid.fifo \in [FifoCells -> Bytes] /\ oseid.flen \in 0..(FlenModulus - 1)
       /\ oseid.protocol \in {"T0", "T1", "other"}
  BY DEF OseidType, FifoCells

(* What is left of the FIFO when its first byte is taken. *)
LEMMA OseidTakes ==
    ASSUME oseid \in OseidType, OseidPop
    PROVE  OseidAfter([i \in FifoCells |-> oseid.fifo[IF i < FIFO_LEN THEN i + 1 ELSE i]],
                      (oseid.flen + FlenModulus - 1) % FlenModulus, oseid.protocol)
  BY DEF OseidPop, OseidAfter, OseidType, FifoCells

(* One byte less is counted, if there was one; the count wraps if not. *)
LEMMA OneLess ==
    ASSUME NEW n \in 0..(FlenModulus - 1)
    PROVE  /\ (n + FlenModulus - 1) % FlenModulus \in 0..(FlenModulus - 1)
           /\ n > 0 => (n + FlenModulus - 1) % FlenModulus = n - 1
  <1>1. FlenModulus \in Nat \ {0} /\ n \in Nat
    BY OsEIDAssumed DEF OsEIDAssumed
  <1>2. ASSUME NEW M \in Nat \ {0}, NEW k \in Nat
        PROVE  (k + M - 1) % M \in 0..(M - 1)
    BY <1>2
  <1>3. ASSUME NEW M \in Nat \ {0}, NEW k \in 1..(M - 1)
        PROVE  (k + M - 1) % M = k - 1
    BY <1>3
  <1>4. n > 0 => n \in 1..(FlenModulus - 1)
    BY <1>1
  <1> QED BY <1>1, <1>2, <1>3, <1>4

(* The sizes of the FIFO, for the provers. *)
LEMMA FifoSizes ==
    /\ FIFO_LEN \in Nat /\ FlenModulus \in Nat /\ FIFO_LEN < FlenModulus
    /\ FIFO_RESET \in 1..FIFO_LEN /\ 0 \in Bytes
  BY OsEIDAssumed DEF OsEIDAssumed

(* A FIFO of such a kind is one. *)
LEMMA OseidTyped ==
    ASSUME NEW f \in [FifoCells -> Bytes], NEW n \in 0..(FlenModulus - 1),
           NEW p \in {"T0", "T1", "other"}, OseidAfter(f, n, p)
    PROVE  /\ oseid' \in OseidType /\ oseid'.fifo = f /\ oseid'.flen = n
  BY DEF OseidAfter, OseidType, FifoCells

(* The accesses of the program and the debugger. *)
LEMMA OseidAccessed ==
    ASSUME FifoInv, OseidAccess, phase' # "stdin"
    PROVE  FifoInv'
  <1>1. /\ oseid \in OseidType
        /\ oseid.fifo \in [FifoCells -> Bytes] /\ oseid.flen \in 0..(FlenModulus - 1)
        /\ oseid.protocol \in {"T0", "T1", "other"}
    BY OseidFields DEF FifoInv
  <1>2. CASE OseidClear /\ queue' = {<<>>}
    <2>1. OseidAfter(oseid.fifo, 0, oseid.protocol)
      BY <1>1, <1>2 DEF OseidClear, OseidAfter, OseidType
    <2>2. oseid' \in OseidType /\ oseid'.flen = 0
      BY <1>1, <2>1, FifoSizes, OseidTyped
    <2> QED BY <1>2, <2>2, FifoSizes DEF FifoInv
  <1>3. ASSUME NEW q \in queue, NEW b \in Bytes, Len(q) < FIFO_LEN, OseidPush(b),
               queue' = {Append(q, b)}
        PROVE  FifoInv'
    <2>1. /\ q \in Seq(Bytes) /\ Len(q) \in Nat /\ oseid.flen = Len(q)
          /\ \A i \in 1..Len(q) : q[i] = oseid.fifo[i]
      BY DEF FifoInv
    <2> DEFINE f == [oseid.fifo EXCEPT ![Len(q) + 1] = b]
    <2>2. OseidAfter(f, Len(q) + 1, oseid.protocol)
      <3>1. oseid' = [oseid EXCEPT !.fifo = [@ EXCEPT ![oseid.flen + 1] = b], !.flen = @ + 1]
        BY <1>3, <2>1, FifoSizes DEF OseidPush
      <3> QED BY <1>1, <2>1, <3>1 DEF OseidAfter, OseidType
    <2>3. f \in [FifoCells -> Bytes] /\ Len(q) + 1 \in 0..(FlenModulus - 1)
      <3>1. Len(q) + 1 \in 0..(FlenModulus - 1)
        BY <1>3, <2>1, FifoSizes
      <3> QED BY <1>1, <1>3, <2>1, <3>1, FifoSizes DEF FifoCells
    <2>4. \A i \in 1..(Len(q) + 1) : Append(q, b)[i] = f[i]
      BY <1>1, <1>3, <2>1, FifoSizes DEF FifoCells
    <2>5. Append(q, b) \in Seq(Bytes) /\ Len(Append(q, b)) = Len(q) + 1
      BY <2>1
    <2> HIDE DEF f
    <2>6. oseid' \in OseidType /\ oseid'.fifo = f /\ oseid'.flen = Len(q) + 1
      BY <1>1, <2>2, <2>3, OseidTyped
    <2> QED BY <1>3, <2>1, <2>4, <2>5, <2>6, FifoSizes DEF FifoInv
  <1>4. ASSUME NEW q \in queue, q # <<>>, OseidPop, queue' = {Tail(q)}
        PROVE  FifoInv'
    <2>1. /\ q \in Seq(Bytes) /\ Len(q) \in Nat /\ oseid.flen = Len(q) /\ Len(q) <= FIFO_LEN
          /\ \A i \in 1..Len(q) : q[i] = oseid.fifo[i]
      BY DEF FifoInv
    <2>2. Len(q) > 0
      BY <1>4, <2>1
    <2> DEFINE f == [i \in FifoCells |-> oseid.fifo[IF i < FIFO_LEN THEN i + 1 ELSE i]]
    <2>3. OseidAfter(f, Len(q) - 1, oseid.protocol)
      BY <1>1, <1>4, <2>1, <2>2, OseidTakes, OneLess
    <2>4. f \in [FifoCells -> Bytes]
      BY <1>1, FifoSizes DEF FifoCells
    <2>5. Len(q) - 1 \in 0..(FlenModulus - 1)
      BY <1>1, <2>1, <2>2, FifoSizes
    <2>6. Tail(q) \in Seq(Bytes) /\ Len(Tail(q)) = Len(q) - 1
      BY <2>1, <2>2
    <2>7. \A i \in 1..(Len(q) - 1) : Tail(q)[i] = f[i]
      BY <2>1, <2>2, FifoSizes DEF FifoCells
    <2> HIDE DEF f
    <2>8. oseid' \in OseidType /\ oseid'.fifo = f /\ oseid'.flen = Len(q) - 1
      BY <1>1, <2>3, <2>4, <2>5, OseidTyped
    <2> QED BY <1>4, <2>1, <2>2, <2>6, <2>7, <2>8, FifoSizes DEF FifoInv
  <1>5. CASE OseidRandom /\ queue' = {}
    <2>1. PICK b \in Bytes : oseid' = [oseid EXCEPT !.fifo = [@ EXCEPT ![1] = b], !.flen = 0]
      BY <1>5, Zenon DEF OseidRandom
    <2> DEFINE f == [oseid.fifo EXCEPT ![1] = b]
    <2>2. OseidAfter(f, 0, oseid.protocol)
      BY <1>1, <2>1 DEF OseidAfter, OseidType
    <2>3. f \in [FifoCells -> Bytes]
      BY <1>1
    <2>5. 0 \in 0..(FlenModulus - 1)
      BY FifoSizes
    <2> HIDE DEF f
    <2>4. oseid' \in OseidType
      BY <1>1, <2>2, <2>3, <2>5, OseidTyped
    <2> QED BY <1>5, <2>4 DEF FifoInv
  <1>6. CASE queue = {} /\ OseidPop /\ UNCHANGED queue
    <2> DEFINE f == [i \in FifoCells |-> oseid.fifo[IF i < FIFO_LEN THEN i + 1 ELSE i]]
               n == (oseid.flen + FlenModulus - 1) % FlenModulus
    <2>1. OseidAfter(f, n, oseid.protocol)
      BY <1>1, <1>6, OseidTakes
    <2>2. f \in [FifoCells -> Bytes]
      BY <1>1, FifoSizes DEF FifoCells
    <2>3. n \in 0..(FlenModulus - 1)
      BY <1>1, OneLess
    <2> HIDE DEF f, n
    <2>4. oseid' \in OseidType
      BY <1>1, <2>1, <2>2, <2>3, OseidTyped
    <2> QED BY <1>6, <2>4 DEF FifoInv
  <1> QED BY <1>2, <1>3, <1>4, <1>5, <1>6 DEF OseidAccess

(* The lesser of two numbers. *)
LEMMA Lesser ==
    ASSUME NEW a \in Nat, NEW b \in Nat
    PROVE  Min({a, b}) = IF a <= b THEN a ELSE b
  <1> DEFINE m == IF a <= b THEN a ELSE b
  <1>1. \A x \in {a, b} : (\A y \in {a, b} : x <= y) <=> x = m
    OBVIOUS
  <1>2. m \in {a, b}
    OBVIOUS
  <1> HIDE DEF m
  <1>3. Min({a, b}) = m
    BY <1>1, <1>2 DEF Min
  <1> QED BY <1>3 DEF m

(* The lines a reader types. *)
LEMMA LineRead ==
    ASSUME FifoInv, ReaderTypes
    PROVE  FifoInv'
  <1>1. /\ oseid \in OseidType
        /\ oseid.fifo \in [FifoCells -> Bytes] /\ oseid.flen \in 0..(FlenModulus - 1)
        /\ oseid.protocol \in {"T0", "T1", "other"}
    BY OseidFields DEF FifoInv
  <1>2. ASSUME NEW p \in {"T0", "T1", oseid.protocol}, OseidControlLine(p), UNCHANGED queue
        PROVE  FifoInv'
    <2>1. OseidAfter(oseid.fifo, 0, p)
      BY <1>1, <1>2 DEF OseidControlLine, OseidAfter, OseidType
    <2>2. oseid' \in OseidType
      BY <1>1, <2>1, FifoSizes, OseidTyped
    <2>3. queue' = {}
      BY <1>2 DEF FifoInv, ReaderTypes
    <2> QED BY <2>2, <2>3 DEF FifoInv
  <1>3. ASSUME NEW line \in Lines, OseidDataLine(line), phase' = "clk",
               queue' = {SubSeq(line, 1, Min({Len(line), FIFO_LEN}))}
        PROVE  FifoInv'
    <2> DEFINE n == Min({Len(line), FIFO_LEN})
               f == [i \in FifoCells |-> IF i <= n THEN line[i] ELSE oseid.fifo[i]]
               q == SubSeq(line, 1, n)
    <2>1. line \in Seq(Bytes) /\ Len(line) \in Nat
      BY PeripheralsAssumed DEF PeripheralsAssumption
    <2>2. n \in Nat /\ n <= Len(line) /\ n <= FIFO_LEN
      BY <2>1, Lesser, FifoSizes
    <2>3. OseidAfter(f, n, oseid.protocol)
      BY <1>1, <1>3 DEF OseidDataLine, OseidAfter, OseidType, FifoCells
    <2>0. queue' = {q}
      BY <1>3
    <2> HIDE DEF n
    <2>4. f \in [FifoCells -> Bytes] /\ n \in 0..(FlenModulus - 1)
      BY <1>1, <2>1, <2>2, FifoSizes DEF FifoCells
    <2>5. q \in Seq(Bytes) /\ Len(q) = n /\ \A i \in 1..n : q[i] = line[i]
      BY <2>1, <2>2
    <2>6. \A i \in 1..n : f[i] = line[i]
      BY <2>2, FifoSizes DEF FifoCells
    <2> HIDE DEF f, q
    <2>7. oseid' \in OseidType /\ oseid'.fifo = f /\ oseid'.flen = n
      BY <1>1, <2>3, <2>4, OseidTyped
    <2> QED BY <1>3, <2>0, <2>2, <2>5, <2>6, <2>7 DEF FifoInv
  <1> QED BY <1>2, <1>3, Zenon DEF ReaderTypes

(* oseid_reset clears cells, and what was in them is not known any more. *)
LEMMA OseidCleared ==
    ASSUME FifoInv, oseid' = OseidReset, queue' = {}
    PROVE  FifoInv'
  <1> DEFINE f == [i \in FifoCells |-> IF i <= FIFO_RESET THEN 0 ELSE oseid.fifo[i]]
  <1>1. /\ oseid \in OseidType
        /\ oseid.fifo \in [FifoCells -> Bytes] /\ oseid.flen \in 0..(FlenModulus - 1)
        /\ oseid.protocol \in {"T0", "T1", "other"}
    BY OseidFields DEF FifoInv
  <1>2. OseidAfter(f, oseid.flen, oseid.protocol)
    BY <1>1 DEF OseidReset, OseidAfter, OseidType, FifoCells
  <1>3. f \in [FifoCells -> Bytes]
    BY <1>1, FifoSizes
  <1> HIDE DEF f
  <1>4. oseid' \in OseidType
    BY <1>1, <1>2, <1>3, OseidTyped
  <1> QED BY <1>4 DEF FifoInv

(* The FIFO starts with any count of bytes of any value. *)
LEMMA OseidStarts == OseidInits # {} /\ OseidInits \subseteq OseidType
  <1>1. OseidInits \subseteq OseidType
    BY DEF OseidInits, OseidType
  <1> DEFINE f == [i \in 1..FIFO_LEN |-> 0]
             o == [fifo |-> f, flen |-> 0, protocol |-> "T0"]
  <1>2. f \in {g \in [1..FIFO_LEN -> Bytes] : \A i \in 1..FIFO_RESET : g[i] = 0}
    BY FifoSizes
  <1>3. 0 \in 0..(FlenModulus - 1)
    BY FifoSizes
  <1> HIDE DEF f
  <1>4. o \in OseidInits
    BY <1>2, <1>3 DEF OseidInits
  <1> QED BY <1>1, <1>4

(* Nothing is known of the FIFO at the start. *)
LEMMA InitFifo == Init => FifoInv
  <1> SUFFICES ASSUME Init PROVE FifoInv
    OBVIOUS
  <1>1. oseid \in OseidInits /\ queue = {} /\ phase = "step"
    BY OseidStarts, Zenon DEF Init
  <1> QED BY <1>1, OseidStarts DEF FifoInv

(* Only the accesses, the reader and a reset reach the FIFO. *)
LEMMA FifoStep ==
    ASSUME FifoInv, [Next]_vars
    PROVE  FifoInv'
  <1>1. ASSUME oseid' = oseid, queue' = queue \/ queue' = {},
               phase' # "stdin" \/ phase' = phase
        PROVE  FifoInv'
    BY <1>1 DEF FifoInv
  <1>2. ASSUME Access, phase' # "stdin" PROVE FifoInv'
    <2>1. CASE OseidAccess
      BY <1>2, <2>1, OseidAccessed
    <2>2. CASE EeAccess
      <3>1. oseid' = oseid
        BY <2>2, Zenon DEF EeAccess, EeWriteRegister, EeTriggerRead, EeTriggerWrite
      <3> QED BY <1>1, <1>2, <2>2, <3>1 DEF EeAccess, ghosts
    <2>3. CASE SpiAccess \/ AdcAccess \/ UsbAccess
      BY <1>1, <1>2, <2>3 DEF SpiAccess, AdcAccess, UsbAccess, ghosts
    <2>4. CASE UartAccess
      <3>1. oseid' = oseid /\ queue' = queue
        BY <2>4, Zenon DEF UartAccess, ghosts
      <3> QED BY <1>1, <1>2, <3>1
    <2> QED BY <1>2, <2>1, <2>2, <2>3, <2>4 DEF Access
  <1>3. CASE ExecAccess
    BY <1>2, <1>3 DEF ExecAccess, Executes
  <1>4. CASE DebuggerAccess
    BY <1>2, <1>4 DEF DebuggerAccess, step_vars, Access
  <1>5. CASE ExecReadStdin
    <2>1. /\ oseid.fifo \in [FifoCells -> Bytes] /\ oseid.protocol \in {"T0", "T1", "other"}
      BY OseidFields DEF FifoInv
    <2>2. OseidAfter(oseid.fifo, 0, oseid.protocol)
      BY <1>5 DEF ExecReadStdin, OseidClear, OseidAfter, OseidType, FifoInv
    <2>3. oseid' \in OseidType /\ queue' = {}
      BY <1>5, <2>1, <2>2, FifoSizes, OseidTyped DEF ExecReadStdin
    <2> QED BY <2>3 DEF FifoInv
  <1>6. CASE ReaderTypes
    BY <1>6, LineRead
  <1>7. CASE DebuggerReset
    BY <1>7, OseidCleared DEF DebuggerReset
  <1>8. CASE ExecOther \/ ExecBadAccess \/ ClockDone \/ AsyncDone \/ CheckInterrupts \/ FallsQuiet
             \/ EndOfInput \/ Exited \/ UNCHANGED vars
    BY <1>1, <1>8 DEF ExecOther, Executes, ExecBadAccess, ClockDone, AsyncDone, CheckInterrupts,
                      FallsQuiet, EndOfInput, Exited, vars, devices, ghosts, step_vars
  <1>9. CASE VisitClkNode \/ VisitAsyncNode
    BY <1>1, <1>9 DEF VisitClkNode, VisitAsyncNode
  <1>10. CASE DebuggerWriteEeprom
    BY <1>1, <1>10 DEF DebuggerWriteEeprom, GdbEeWrite, ghosts, step_vars
  <1> QED BY <1>3, <1>4, <1>5, <1>6, <1>7, <1>8, <1>9, <1>10 DEF Next, Step

(* The FIFO of OsEID.c holds what was put in, in order, for every length of *)
(* it and every sequence of accesses that neither pops it empty nor         *)
(* overfills it.                                                            *)
THEOREM FifoKeepsOrder == Spec => []FifoIsQueue
  <1>1. FifoInv => FifoIsQueue
    <2> SUFFICES ASSUME FifoInv, NEW q \in queue
                 PROVE  oseid.flen = Len(q) /\ q = SubSeq(oseid.fifo, 1, oseid.flen)
      BY DEF FifoIsQueue
    <2>1. /\ q \in Seq(Bytes) /\ Len(q) \in Nat /\ Len(q) <= FIFO_LEN /\ oseid.flen = Len(q)
          /\ \A i \in 1..Len(q) : q[i] = oseid.fifo[i]
      BY DEF FifoInv
    <2>2. oseid.fifo \in Seq(Bytes) /\ Len(oseid.fifo) = FIFO_LEN
      BY OseidFields, FifoSizes DEF FifoInv, FifoCells
    <2> DEFINE p == SubSeq(oseid.fifo, 1, Len(q))
    <2>3. p \in Seq(Bytes) /\ Len(p) = Len(q) /\ \A i \in 1..Len(q) : p[i] = oseid.fifo[i]
      BY <2>1, <2>2
    <2> HIDE DEF p
    <2>4. q = p
      BY <2>1, <2>3
    <2> QED BY <2>1, <2>4 DEF p
  <1> QED BY <1>1, InitFifo, FifoStep, PTL DEF Spec

----------------------------------------------------------------------------
(* The step loop, the EEPROM and the USB registers *)

LoopInv ==
    /\ session \in Sessions /\ chip = session.chip
    /\ phase \in Phases /\ quiet \in BOOLEAN
    /\ inst_CKS \in 0..2 /\ (phase = "clk" => inst_CKS > 0)
    /\ CK \in 0..(CKPeriod - 1)

(* The chip stays the same. *)
LEMMA SameChip ==
    ASSUME [Next]_vars
    PROVE  session' = session /\ chip' = chip /\ quiet' \in {quiet, TRUE}
  <1>1. CASE ExecAccess \/ DebuggerAccess
    BY <1>1 DEF ExecAccess, DebuggerAccess, Access
  <1>2. CASE ExecOther \/ ExecReadStdin \/ ExecBadAccess \/ VisitClkNode \/ VisitAsyncNode
    BY <1>2 DEF ExecOther, ExecReadStdin, ExecBadAccess, VisitClkNode, VisitAsyncNode
  <1>3. CASE ClockDone \/ AsyncDone \/ CheckInterrupts \/ DebuggerWriteEeprom \/ DebuggerReset
    BY <1>3 DEF ClockDone, AsyncDone, CheckInterrupts, DebuggerWriteEeprom, DebuggerReset
  <1>4. CASE FallsQuiet \/ EndOfInput \/ Exited \/ UNCHANGED vars
    BY <1>4 DEF FallsQuiet, EndOfInput, Exited, vars
  <1>5. CASE ReaderTypes
    BY <1>5, Zenon DEF ReaderTypes
  <1> QED BY <1>1, <1>2, <1>3, <1>4, <1>5 DEF Next, Step

(* avr_core_step runs a clock for each of the instruction, and no more. *)
LEMMA LoopStep ==
    ASSUME LoopInv, [Next]_vars
    PROVE  LoopInv'
  <1>1. session' \in Sessions /\ chip' = session'.chip /\ quiet' \in BOOLEAN
    BY SameChip DEF LoopInv
  <1>2. ASSUME phase' \in Phases, phase' # "clk", inst_CKS' = inst_CKS, CK' = CK
        PROVE  LoopInv'
    BY <1>1, <1>2 DEF LoopInv
  <1>3. ASSUME NEW c \in {1, 2}, phase' = "clk", inst_CKS' = c, CK' = CK
        PROVE  LoopInv'
    BY <1>1, <1>3 DEF LoopInv, Phases
  <1>4. ASSUME UNCHANGED <<phase, inst_CKS, CK>> PROVE LoopInv'
    BY <1>1, <1>4 DEF LoopInv
  <1>5. CASE ExecAccess \/ ExecOther
    BY <1>3, <1>5 DEF ExecAccess, ExecOther, Executes
  <1>6. CASE ExecReadStdin \/ ExecBadAccess \/ AsyncDone \/ CheckInterrupts
    BY <1>2, <1>6 DEF ExecReadStdin, ExecBadAccess, AsyncDone, CheckInterrupts, Phases
  <1>7. CASE VisitClkNode \/ VisitAsyncNode \/ FallsQuiet \/ EndOfInput \/ Exited
             \/ DebuggerAccess \/ DebuggerWriteEeprom \/ DebuggerReset \/ UNCHANGED vars
    BY <1>4, <1>7 DEF VisitClkNode, VisitAsyncNode, FallsQuiet, EndOfInput, Exited, DebuggerAccess,
                      DebuggerWriteEeprom, DebuggerReset, vars, step_vars
  <1>8. CASE ReaderTypes
    <2>1. UNCHANGED step_vars \/ (phase' = "clk" /\ inst_CKS' = 2 /\ CK' = CK)
      BY <1>8, Zenon DEF ReaderTypes
    <2> QED BY <1>3, <1>4, <2>1 DEF step_vars
  <1>9. CASE ClockDone
    <2>1. /\ inst_CKS \in 1..2 /\ CK \in 0..(CKPeriod - 1) /\ CKPeriod \in Nat \ {0}
      BY <1>9, BusAssumed DEF ClockDone, LoopInv
    <2>2. /\ inst_CKS' = inst_CKS - 1 /\ CK' = (CK + 1) % CKPeriod
          /\ phase' = IF inst_CKS' > 0 THEN "clk" ELSE "async"
      BY <1>9 DEF ClockDone
    <2>3. \A m \in Nat \ {0}, k \in Nat : (k + 1) % m \in 0..(m - 1)
      OBVIOUS
    <2>4. CK' \in 0..(CKPeriod - 1)
      BY <2>1, <2>2, <2>3
    <2>5. inst_CKS' \in 0..2 /\ phase' \in Phases /\ (phase' = "clk" => inst_CKS' > 0)
      BY <2>1, <2>2 DEF Phases
    <2> QED BY <1>1, <2>4, <2>5 DEF LoopInv
  <1> QED BY <1>5, <1>6, <1>7, <1>8, <1>9 DEF Next, Step

(* The EEPROM is written a byte at a time, by either side. *)
LEMMA EeStep ==
    ASSUME ee \in EeType, [Next]_vars
    PROVE  ee' \in EeType
  <1>1. ee' = ee \/ EeWriteRegister \/ EeTriggerRead \/ EeTriggerWrite \/ GdbEeWrite
    <2>1. ASSUME Access
          PROVE  ee' = ee \/ EeWriteRegister \/ EeTriggerRead \/ EeTriggerWrite
      <3>1. CASE OseidAccess
        BY <3>1, Zenon DEF OseidAccess, OseidClear, OseidPush, OseidPop, OseidRandom
      <3>2. CASE EeAccess
        BY <3>2 DEF EeAccess
      <3>3. CASE SpiAccess \/ UartAccess \/ AdcAccess \/ UsbAccess
        BY <3>3 DEF SpiAccess, UartAccess, AdcAccess, UsbAccess
      <3> QED BY <2>1, <3>1, <3>2, <3>3 DEF Access
    <2>2. CASE ExecAccess \/ DebuggerAccess
      BY <2>1, <2>2 DEF ExecAccess, DebuggerAccess
    <2>3. CASE ExecReadStdin
      BY <2>3 DEF ExecReadStdin, OseidClear
    <2>4. CASE ReaderTypes
      BY <2>4, Zenon DEF ReaderTypes, OseidControlLine, OseidDataLine
    <2>5. CASE ExecOther \/ ExecBadAccess \/ VisitClkNode \/ ClockDone \/ VisitAsyncNode
               \/ AsyncDone \/ CheckInterrupts \/ FallsQuiet \/ EndOfInput \/ Exited
               \/ DebuggerWriteEeprom \/ DebuggerReset \/ UNCHANGED vars
      BY <2>5 DEF ExecOther, ExecBadAccess, VisitClkNode, ClockDone, VisitAsyncNode, AsyncDone,
                  CheckInterrupts, FallsQuiet, EndOfInput, Exited, DebuggerWriteEeprom,
                  DebuggerReset, vars, devices
    <2> QED BY <2>2, <2>3, <2>4, <2>5 DEF Next, Step
  <1>2. /\ ee.mem \in [EeAddrs -> Bytes] /\ ee.EEDR \in Bytes /\ ee.EEARH \in EeHigh
        /\ ee.EEARL \in EeLow /\ EeAddr \in EeAddrs
    BY DEF EeType, EeAddr, EeAddrs
  <1> DEFINE Is(m, d, h, l) == ee' = [mem |-> m, EEDR |-> d, EEARH |-> h, EEARL |-> l]
  <1>3. ASSUME NEW m \in [EeAddrs -> Bytes], NEW d \in Bytes, NEW h \in EeHigh,
               NEW l \in EeLow, Is(m, d, h, l)
        PROVE  ee' \in EeType
    BY <1>3 DEF EeType
  <1>4. CASE EeWriteRegister
    <2>1. CASE \E b \in Bytes : ee' = [ee EXCEPT !.EEDR = b]
      <3>1. PICK b \in Bytes : Is(ee.mem, b, ee.EEARH, ee.EEARL)
        BY <2>1 DEF EeType
      <3> QED BY <1>2, <1>3, <3>1
    <2>2. CASE \E h \in EeHigh : ee' = [ee EXCEPT !.EEARH = h]
      <3>1. PICK h \in EeHigh : Is(ee.mem, ee.EEDR, h, ee.EEARL)
        BY <2>2 DEF EeType
      <3> QED BY <1>2, <1>3, <3>1
    <2>3. CASE \E l \in EeLow : ee' = [ee EXCEPT !.EEARL = l]
      <3>1. PICK l \in EeLow : Is(ee.mem, ee.EEDR, ee.EEARH, l)
        BY <2>3 DEF EeType
      <3> QED BY <1>2, <1>3, <3>1
    <2> QED BY <1>4, <2>1, <2>2, <2>3 DEF EeWriteRegister
  <1>5. CASE EeTriggerRead
    <2>1. Is(ee.mem, ee.mem[EeAddr], ee.EEARH, ee.EEARL)
      BY <1>5 DEF EeTriggerRead, EeType
    <2> QED BY <1>2, <1>3, <2>1
  <1>6. ASSUME NEW a \in EeAddrs, NEW b \in Bytes, ee' = [ee EXCEPT !.mem[a] = b]
        PROVE  ee' \in EeType
    <2>1. Is([ee.mem EXCEPT ![a] = b], ee.EEDR, ee.EEARH, ee.EEARL)
      BY <1>6 DEF EeType
    <2>2. [ee.mem EXCEPT ![a] = b] \in [EeAddrs -> Bytes]
      BY <1>2
    <2> QED BY <1>2, <1>3, <2>1, <2>2
  <1>7. CASE EeTriggerWrite \/ GdbEeWrite
    BY <1>2, <1>6, <1>7 DEF EeTriggerWrite, GdbEeWrite
  <1> QED BY <1>1, <1>4, <1>5, <1>7
(* The USB registers keep their kinds: a count wraps, a flag read is one    *)
(* that was typed.                                                          *)
UsbRec(f, n, r) == [fcsr |-> f, byte_cnt |-> n, reg |-> r]
UsbCounts       == 0..(CountModulus - 1)

(* The types of the fields of the USB registers. *)
LEMMA UsbFields ==
    usb \in UsbType => /\ usb.fcsr \in [Endpoints -> SUBSET UsbFlags]
                       /\ usb.byte_cnt \in [Endpoints -> UsbCounts]
                       /\ usb.reg \in [AllRegisters -> BOOLEAN]
                       /\ usb = UsbRec(usb.fcsr, usb.byte_cnt, usb.reg)
  BY DEF UsbType, UsbRec, UsbCounts

(* Registers of such kinds are those of usb.c. *)
LEMMA UsbTyped ==
    ASSUME NEW f \in [Endpoints -> SUBSET UsbFlags], NEW n \in [Endpoints -> UsbCounts],
           NEW r \in [AllRegisters -> BOOLEAN]
    PROVE  UsbRec(f, n, r) \in UsbType
  BY DEF UsbType, UsbRec, UsbCounts

(* The read and write functions of usb.c. *)
LEMMA UsbAccessed ==
    ASSUME usb \in UsbType, UsbAccess
    PROVE  usb' \in UsbType
  <1>1. /\ usb.fcsr \in [Endpoints -> SUBSET UsbFlags]
        /\ usb.byte_cnt \in [Endpoints -> UsbCounts]
        /\ usb.reg \in [AllRegisters -> BOOLEAN]
    BY UsbFields
  <1>2. CountModulus \in Nat \ {0} /\ SetupBytes \in UsbCounts /\ 0 \in UsbCounts
    BY UsbAssumed DEF UsbCounts
  <1>3. CASE UsbReadFcsr
    <2>1. PICK e \in Endpoints, v \in SUBSET UsbFlags :
             usb' = [usb EXCEPT
                !.fcsr[e] = v,
                !.byte_cnt[e] = IF "RX_SETUP" \in v /\ e \in SetupEndpoints THEN SetupBytes
                                ELSE @]
      BY <1>3 DEF UsbReadFcsr
    <2> DEFINE n == IF "RX_SETUP" \in v /\ e \in SetupEndpoints THEN SetupBytes
                    ELSE usb.byte_cnt[e]
    <2>2. n \in UsbCounts
      BY <1>1, <1>2
    <2>3. usb' = UsbRec([usb.fcsr EXCEPT ![e] = v], [usb.byte_cnt EXCEPT ![e] = n], usb.reg)
      BY <2>1 DEF UsbType, UsbRec
    <2> HIDE DEF n
    <2>4. [usb.fcsr EXCEPT ![e] = v] \in [Endpoints -> SUBSET UsbFlags]
      BY <1>1
    <2>5. [usb.byte_cnt EXCEPT ![e] = n] \in [Endpoints -> UsbCounts]
      BY <1>1, <2>2
    <2> QED BY <1>1, <2>3, <2>4, <2>5, UsbTyped
  <1>4. ASSUME NEW r \in AllRegisters, NEW v \in BOOLEAN, usb' = [usb EXCEPT !.reg[r] = v]
        PROVE  usb' \in UsbType
    <2>1. usb' = UsbRec(usb.fcsr, usb.byte_cnt, [usb.reg EXCEPT ![r] = v])
      BY <1>4 DEF UsbType, UsbRec
    <2>2. [usb.reg EXCEPT ![r] = v] \in [AllRegisters -> BOOLEAN]
      BY <1>1
    <2> QED BY <1>1, <2>1, <2>2, UsbTyped
  <1>5. CASE UsbFetch
    <2>1. PICK r \in FetchedRegisters, v \in BOOLEAN : usb' = [usb EXCEPT !.reg[r] = v]
      BY <1>5 DEF UsbFetch
    <2> QED BY <1>4, <2>1 DEF AllRegisters
  <1>6. CASE UsbWriteRegister
    <2>1. PICK r \in UsbRegisters \cup KeptRegisters, v \in BOOLEAN :
             usb' = [usb EXCEPT !.reg[r] = v]
      BY <1>6 DEF UsbWriteRegister
    <2> QED BY <1>4, <2>1 DEF AllRegisters
  <1>7. ASSUME NEW e \in Endpoints, NEW v \in SUBSET UsbFlags, UsbWriteFcar(e, v)
        PROVE  usb' \in UsbType
    <2> DEFINE f == [usb.fcsr EXCEPT ![e] = usb.fcsr[e] \ v]
               n == [usb.byte_cnt EXCEPT ![e] = 0]
    <2>1. usb' = UsbRec(f, n, usb.reg)
      BY <1>7 DEF UsbWriteFcar, UsbType, UsbRec
    <2>2. f \in [Endpoints -> SUBSET UsbFlags]
      BY <1>1
    <2>3. n \in [Endpoints -> UsbCounts]
      BY <1>1, <1>2
    <2> HIDE DEF f, n
    <2> QED BY <1>1, <2>1, <2>2, <2>3, UsbTyped
  <1>8. ASSUME NEW e \in Endpoints, UsbWriteFdr(e)
        PROVE  usb' \in UsbType
    <2> DEFINE k == (usb.byte_cnt[e] + 1) % CountModulus
               n == [usb.byte_cnt EXCEPT ![e] = k]
    <2>1. usb' = UsbRec(usb.fcsr, n, usb.reg)
      BY <1>8 DEF UsbWriteFdr, UsbType, UsbRec
    <2>2. \A m \in Nat \ {0}, j \in Nat : (j + 1) % m \in 0..(m - 1)
      OBVIOUS
    <2>3. usb.byte_cnt[e] \in UsbCounts
      BY <1>1
    <2>4. usb.byte_cnt[e] \in Nat
      BY <1>2, <2>3 DEF UsbCounts
    <2>5. k \in UsbCounts
      BY <1>2, <2>2, <2>4 DEF UsbCounts
    <2> HIDE DEF k
    <2>6. n \in [Endpoints -> UsbCounts]
      BY <1>1, <2>5
    <2> HIDE DEF n
    <2> QED BY <1>1, <2>1, <2>6, UsbTyped
  <1> QED BY <1>3, <1>5, <1>6, <1>7, <1>8 DEF UsbAccess

(* Nothing else but a reset reaches them. *)
LEMMA UsbStep ==
    ASSUME usb \in UsbType, [Next]_vars
    PROVE  usb' \in UsbType
  <1>1. ASSUME Access PROVE usb' \in UsbType
    <2>1. CASE SpiAccess \/ AdcAccess \/ OseidAccess \/ EeAccess
      BY <2>1 DEF SpiAccess, AdcAccess, OseidAccess, EeAccess
    <2>2. CASE UartAccess
      BY <2>2, Zenon DEF UartAccess
    <2> QED BY <1>1, <2>1, <2>2, UsbAccessed DEF Access
  <1>2. CASE ExecAccess \/ DebuggerAccess
    BY <1>1, <1>2 DEF ExecAccess, DebuggerAccess
  <1>3. CASE ReaderTypes
    <2>1. usb' = usb
      BY <1>3, Zenon DEF ReaderTypes
    <2> QED BY <2>1
  <1>4. CASE ExecOther \/ ExecReadStdin \/ ExecBadAccess \/ VisitClkNode \/ ClockDone
             \/ VisitAsyncNode \/ AsyncDone \/ CheckInterrupts \/ FallsQuiet \/ EndOfInput \/ Exited
             \/ DebuggerWriteEeprom \/ UNCHANGED vars
    BY <1>4 DEF ExecOther, ExecReadStdin, ExecBadAccess, VisitClkNode, ClockDone, VisitAsyncNode,
                AsyncDone, CheckInterrupts, FallsQuiet, EndOfInput, Exited, DebuggerWriteEeprom,
                vars, devices
  <1>5. CASE DebuggerReset
    <2> DEFINE g == [r \in AllRegisters |-> usb.reg[r] /\ r \in KeptRegisters]
    <2>1. usb' = UsbReset
      BY <1>5 DEF DebuggerReset
    <2>2. usb' = UsbRec(usb.fcsr, usb.byte_cnt, g)
      BY <2>1, UsbFields DEF UsbReset, UsbType, UsbRec
    <2>3. g \in [AllRegisters -> BOOLEAN]
      BY UsbFields
    <2> HIDE DEF g
    <2> QED BY <2>2, <2>3, UsbFields, UsbTyped
  <1> QED BY <1>2, <1>3, <1>4, <1>5 DEF Next, Step

----------------------------------------------------------------------------
(* The pending interrupts *)

(* The interrupts that devices in use can raise. *)
IrqsOf(uses) ==
    {q \in Irqs : \/ q = "SPI_STC" /\ "spi" \in uses
                  \/ q \in {"UART_TX", "UART_UDRE"} /\ "uart" \in uses
                  \/ q = "ADC" /\ "adc" \in uses}

(* Only devices in use have an interrupt callback, and no vector is pending *)
(* twice.                                                                   *)
PendingInv ==
    /\ irq_pending \in Seq(IrqsOf(session.uses))
    /\ DListUnique(irq_pending, devices_supported[chip].vtab)
    /\ spi.intr_cb => Uses("spi")
    /\ uart.intr_cb => Uses("uart")
    /\ adc.intr_cb => Uses("adc")

(* avr_core_irq_raise adds what it is given, once. *)
LEMMA RaiseKeeps ==
    ASSUME NEW S, NEW s \in Seq(S), DListUnique(s, devices_supported[chip].vtab),
           NEW irqs, NEW q, q \in irqs => q \in S
    PROVE  /\ IrqRaise(s, irqs, q) \in Seq(S)
           /\ DListUnique(IrqRaise(s, irqs, q), devices_supported[chip].vtab)
  <1> DEFINE vtab == devices_supported[chip].vtab
  <1>1. CASE q \in irqs
    <2>1. DListAdd(s, q, vtab) \in Seq(S) /\ DListUnique(DListAdd(s, q, vtab), vtab)
      <3> HIDE DEF vtab
      <3> QED BY <1>1, DListAddKeeps DEF vtab
    <2> QED BY <1>1, <2>1 DEF IrqRaise
  <1>2. CASE q \notin irqs
    BY <1>2 DEF IrqRaise
  <1> QED BY <1>1, <1>2

(* Who may change the list: avr_core_irq_raise of the three callbacks,      *)
(* avr_core_check_interrupts and avr_core_reset.                            *)
LEMMA PendingChanges ==
    ASSUME [Next]_vars
    PROVE  \/ irq_pending' \in {irq_pending, <<>>}
           \/ /\ irq_pending # <<>>
              /\ irq_pending' = DListDelete(irq_pending, irq_pending[1],
                                            devices_supported[chip].vtab)
           \/ VisitSpii \/ VisitUartInt \/ VisitAdcInt
  <1>1. ASSUME Access PROVE irq_pending' = irq_pending
    <2>1. CASE SpiAccess
      <3>1. irq_pending' = irq_pending
        BY <2>1, Zenon DEF SpiAccess, SpiReadSpsr, SpiWriteSpcr, SpiReadSpdr, SpiWriteSpdr, lists
      <3> QED BY <3>1
    <2>2. CASE UartAccess
      <3>1. irq_pending' = irq_pending
        BY <2>2, Zenon DEF UartAccess, UartWriteUbrr, UartWriteUcr, UartWriteUdr, lists
      <3> QED BY <3>1
    <2>3. CASE AdcAccess
      <3>1. irq_pending' = irq_pending
        BY <2>3, Zenon DEF AdcAccess, AdcWriteAdcsr
      <3> QED BY <3>1
    <2>4. CASE OseidAccess
      <3>1. irq_pending' = irq_pending
        BY <2>4, Zenon DEF OseidAccess, OseidClear, OseidPush, OseidPop, OseidRandom, lists
      <3> QED BY <3>1
    <2>5. CASE EeAccess
      <3>1. irq_pending' = irq_pending
        BY <2>5, Zenon DEF EeAccess, EeWriteRegister, EeTriggerRead, EeTriggerWrite, lists
      <3> QED BY <3>1
    <2>6. CASE UsbAccess
      <3>1. irq_pending' = irq_pending
        BY <2>6, Zenon DEF UsbAccess, UsbReadFcsr, UsbFetch, UsbWriteFcar, UsbWriteFdr,
                           UsbWriteRegister, lists
      <3> QED BY <3>1
    <2> QED BY <1>1, <2>1, <2>2, <2>3, <2>4, <2>5, <2>6 DEF Access
  <1>2. CASE ExecAccess \/ DebuggerAccess
    BY <1>1, <1>2 DEF ExecAccess, DebuggerAccess
  <1>3. CASE ExecReadStdin \/ DebuggerWriteEeprom
    BY <1>3 DEF ExecReadStdin, OseidClear, DebuggerWriteEeprom, GdbEeWrite, lists
  <1>4. CASE ReaderTypes
    <2>1. UNCHANGED lists
      BY <1>4, Zenon DEF ReaderTypes, OseidControlLine, OseidDataLine
    <2> QED BY <2>1 DEF lists
  <1>5. CASE VisitClkNode
    <2>1. irq_pending' = irq_pending
      BY <1>5 DEF VisitClkNode, VisitSpi, VisitUart, VisitAdc, SpiClkIncrCb, UartClkIncrCb,
                  AdcClkIncrCb
    <2> QED BY <2>1
  <1>6. CASE VisitAsyncNode
    BY <1>6 DEF VisitAsyncNode, AsyncVisit, VisitSpii, VisitUartInt, VisitAdcInt
  <1>7. CASE CheckInterrupts
    <2>1. CASE irq_pending = <<>>
      BY <1>7, <2>1 DEF CheckInterrupts
    <2>2. CASE irq_pending # <<>>
      BY <1>7, <2>2 DEF CheckInterrupts
    <2> QED BY <2>1, <2>2
  <1>8. CASE ExecOther \/ ExecBadAccess \/ ClockDone \/ AsyncDone \/ FallsQuiet \/ EndOfInput
             \/ Exited \/ DebuggerReset \/ UNCHANGED vars
    BY <1>8 DEF ExecOther, ExecBadAccess, ClockDone, AsyncDone, FallsQuiet, EndOfInput, Exited,
                DebuggerReset, vars, lists
  <1> QED BY <1>2, <1>3, <1>4, <1>5, <1>6, <1>7, <1>8 DEF Next, Step

(* The pointers to interrupt callbacks are set by writes of SPCR, UCR and   *)
(* ADCSR alone.                                                             *)
LEMMA CallbacksOwned ==
    ASSUME DeviceInv, PendingInv, [Next]_vars
    PROVE  /\ spi'.intr_cb => Uses("spi")
           /\ uart'.intr_cb => Uses("uart")
           /\ adc'.intr_cb => Uses("adc")
  <1>1. spi \in SpiType /\ uart \in UartType /\ adc \in AdcType
    BY DEF DeviceInv, SpiInv, UartInv, AdcInv
  <1>2. /\ spi.intr_cb => Uses("spi")
        /\ uart.intr_cb => Uses("uart")
        /\ adc.intr_cb => Uses("adc")
    BY DEF PendingInv
  <1>3. CASE SpiAccess
    BY <1>2, <1>3 DEF SpiAccess
  <1>4. CASE UartAccess
    <2>1. Uses("uart") /\ UNCHANGED <<spi, adc>>
      BY <1>4, Zenon DEF UartAccess
    <2> QED BY <1>2, <2>1
  <1>5. CASE AdcAccess
    BY <1>2, <1>5 DEF AdcAccess
  <1>6. CASE VisitSpi
    <2>1. CASE spi.clk_cb
      BY <1>1, <1>2, <1>6, <2>1, SpiCountsDown DEF VisitSpi, SpiAfter
    <2>2. CASE ~spi.clk_cb
      BY <1>2, <1>6, <2>2 DEF VisitSpi, SpiClkIncrCb
    <2> QED BY <2>1, <2>2
  <1>7. CASE VisitUart
    <2>1. CASE uart.clk_cb
      BY <1>1, <1>2, <1>7, <2>1, UartCountsDown DEF VisitUart, UartAfter
    <2>2. CASE ~uart.clk_cb
      BY <1>2, <1>7, <2>2 DEF VisitUart, UartClkIncrCb
    <2> QED BY <2>1, <2>2
  <1>8. CASE VisitAdc
    <2>1. CASE adc.clk_cb
      BY <1>1, <1>2, <1>8, <2>1, AdcCountsDown DEF VisitAdc, AdcAfter
    <2>2. CASE ~adc.clk_cb
      BY <1>2, <1>8, <2>2 DEF VisitAdc, AdcClkIncrCb
    <2> QED BY <2>1, <2>2
  <1>9. CASE VisitSpii
    BY <1>1, <1>2, <1>9, SpiInterrupts DEF VisitSpii, SpiAfter
  <1>10. CASE VisitUartInt
    <2>1. CASE uart.intr_cb
      BY <1>1, <1>2, <1>10, <2>1 DEF VisitUartInt
    <2>2. CASE ~uart.intr_cb
      BY <1>2, <1>10, <2>2 DEF VisitUartInt, UartIntrCb
    <2> QED BY <2>1, <2>2
  <1>11. CASE VisitAdcInt
    BY <1>1, <1>2, <1>11, AdcInterrupts DEF VisitAdcInt, AdcAfter
  <1>12. CASE DebuggerReset
    BY <1>12, SpiResets, UartResets, AdcResets DEF DebuggerReset, SpiAfter, UartAfter, AdcAfter
  <1>13. CASE Elsewhere
    BY <1>2, <1>13 DEF Elsewhere
  <1> QED BY <1>3, <1>4, <1>5, <1>6, <1>7, <1>8, <1>9, <1>10, <1>11, <1>12, <1>13, KindsOfSteps

(* The pending interrupts stay those of devices in use, each once. *)
LEMMA PendingStep ==
    ASSUME DeviceInv, PendingInv, [Next]_vars
    PROVE  PendingInv'
  <1> DEFINE S == IrqsOf(session.uses)
             vtab == devices_supported[chip].vtab
             Good(s) == s \in Seq(S) /\ DListUnique(s, vtab)
  <1>1. session' = session /\ chip' = chip
    BY SameChip
  <1>2. Good(irq_pending)
    BY DEF PendingInv
  <1>3. Good(irq_pending')
    <2>1. CASE irq_pending' = irq_pending
      BY <1>2, <2>1
    <2>2. CASE irq_pending' = <<>>
      <3> HIDE DEF S, vtab
      <3> QED BY <2>2 DEF DListUnique
    <2>3. CASE irq_pending # <<>> /\ irq_pending' = DListDelete(irq_pending, irq_pending[1], vtab)
      <3> HIDE DEF S, vtab
      <3> QED BY <1>2, <2>3, DListDeleteHead
    <2>4. CASE VisitSpii
      <3>1. irq_pending' = IrqRaise(irq_pending, SpiRaises, "SPI_STC")
        BY <2>4 DEF VisitSpii, SpiIntrCb
      <3>2. "SPI_STC" \in SpiRaises => "SPI_STC" \in S
        BY IrqNames DEF SpiRaises, PendingInv, IrqsOf, Uses
      <3> HIDE DEF S
      <3> QED BY <1>2, <3>1, <3>2, RaiseKeeps
    <2>5. CASE VisitUartInt
      <3> DEFINE s == IrqRaise(irq_pending, UartRaises, "UART_TX")
      <3>1. irq_pending' = IrqRaise(s, UartRaises, "UART_UDRE")
        BY <2>5 DEF VisitUartInt, UartIntrCb
      <3>2. \A q \in {"UART_TX", "UART_UDRE"} : q \in UartRaises => q \in S
        BY IrqNames DEF UartRaises, PendingInv, IrqsOf, Uses
      <3> HIDE DEF S
      <3>3. Good(s)
        BY <1>2, <3>2, RaiseKeeps
      <3> HIDE DEF s
      <3> QED BY <3>1, <3>2, <3>3, RaiseKeeps
    <2>6. CASE VisitAdcInt
      <3>1. irq_pending' = IrqRaise(irq_pending, AdcRaises, "ADC")
        BY <2>6 DEF VisitAdcInt, AdcIntrCb
      <3>2. "ADC" \in AdcRaises => "ADC" \in S
        BY IrqNames DEF AdcRaises, PendingInv, IrqsOf, Uses
      <3> HIDE DEF S
      <3> QED BY <1>2, <3>1, <3>2, RaiseKeeps
    <2> QED BY <2>1, <2>2, <2>3, <2>4, <2>5, <2>6, PendingChanges
  <1>4. /\ irq_pending' \in Seq(IrqsOf(session.uses))
        /\ DListUnique(irq_pending', devices_supported[chip].vtab)
    BY <1>3
  <1> QED BY <1>1, <1>4, CallbacksOwned DEF PendingInv, Uses

----------------------------------------------------------------------------
(* The types, and the tables *)

PeripheralsInv ==
    /\ DeviceInv /\ FifoInv /\ LoopInv /\ PendingInv
    /\ ee \in EeType /\ usb \in UsbType

(* What the constructors leave. *)
LEMMA InitPeripherals == Init => PeripheralsInv
  <1> SUFFICES ASSUME Init PROVE PeripheralsInv
    OBVIOUS
  <1>1. LoopInv
    <2>1. /\ session \in Sessions /\ chip = session.chip
          /\ phase = "step" /\ inst_CKS = 0 /\ CK = 0 /\ quiet = FALSE
      BY DEF Init
    <2>2. 0 \in 0..(CKPeriod - 1)
      BY BusAssumed
    <2>3. quiet \in BOOLEAN
      BY <2>1
    <2>4. phase \in Phases /\ inst_CKS \in 0..2 /\ phase # "clk"
      BY <2>1 DEF Phases
    <2>5. CK \in 0..(CKPeriod - 1)
      BY <2>1, <2>2
    <2> QED BY <2>1, <2>3, <2>4, <2>5 DEF LoopInv
  <1>2. PendingInv
    <2>1. irq_pending = <<>> /\ spi = SpiInit /\ uart = UartInit /\ adc = AdcInit
      BY DEF Init
    <2>2. ~spi.intr_cb /\ ~uart.intr_cb /\ ~adc.intr_cb
      BY <2>1 DEF SpiInit, UartInit, AdcInit
    <2> QED BY <2>1, <2>2 DEF PendingInv, DListUnique
  <1>3. ee \in EeType
    <2> DEFINE e == [mem |-> [a \in EeAddrs |-> 0], EEDR |-> 0, EEARH |-> 0, EEARL |-> 0]
    <2>1. 0 \in Bytes /\ 0 \in EeHigh /\ 0 \in EeLow
      BY OsEIDAssumed DEF OsEIDAssumed
    <2>2. e \in EeInits
      BY <2>1 DEF EeInits, EeType
    <2>3. ee \in EeInits
      BY <2>2, Zenon DEF Init
    <2> QED BY <2>3 DEF EeInits
  <1>4. usb \in UsbType
    <2> DEFINE u == [fcsr |-> [e \in Endpoints |-> {}], byte_cnt |-> [e \in Endpoints |-> 0],
                     reg |-> [r \in AllRegisters |-> FALSE]]
    <2>1. u \in UsbType
      BY UsbAssumed DEF UsbType
    <2>2. u \in UsbInits
      BY <2>1 DEF UsbInits
    <2>3. usb \in UsbInits
      BY <2>2, Zenon DEF Init
    <2> QED BY <2>3 DEF UsbInits
  <1> QED BY <1>1, <1>2, <1>3, <1>4, InitDevices, InitFifo DEF PeripheralsInv

(* All of it together. *)
LEMMA PeripheralsAlways == Spec => []PeripheralsInv
  <1>1. ASSUME PeripheralsInv, [Next]_vars PROVE PeripheralsInv'
    BY <1>1, DevicesStep, FifoStep, LoopStep, PendingStep, EeStep, UsbStep DEF PeripheralsInv
  <1> QED BY <1>1, InitPeripherals, PTL DEF Spec

(* The step loop of avrcore.c and its devices keep their types, with any    *)
(* number of callback nodes: no count leaves its register, inst_CKS is not  *)
(* counted below zero, and the count of the FIFO keeps to 16 bits.          *)
THEOREM PeripheralsTyped == Spec => []TypeOK
  <1>1. PeripheralsInv => TypeOK
    <2> SUFFICES ASSUME PeripheralsInv PROVE TypeOK
      OBVIOUS
    <2>1. chip \in DOMAIN devices_supported
      BY PeripheralsAssumed DEF PeripheralsInv, LoopInv, PeripheralsAssumption
    <2>2. irq_pending \in Seq(Irqs)
      <3>1. IrqsOf(session.uses) \subseteq Irqs
        BY DEF IrqsOf
      <3>2. irq_pending \in Seq(IrqsOf(session.uses))
        BY DEF PeripheralsInv, PendingInv
      <3> QED BY <3>1, <3>2
    <2>3. /\ session \in Sessions /\ phase \in Phases /\ inst_CKS \in 0..2
          /\ CK \in 0..(CKPeriod - 1) /\ quiet \in BOOLEAN
      BY DEF PeripheralsInv, LoopInv
    <2>4. /\ node \in Nat \ {0} /\ clk_cb \in Seq({"spi", "uart", "adc"})
          /\ async_cb \in Seq({"spii", "uart_int", "adc_int"})
      BY DEF PeripheralsInv, DeviceInv, BusInv, ClkDevices, AsyncDevices
    <2>5. spi \in SpiType /\ uart \in UartType /\ adc \in AdcType /\ oseid \in OseidType
          /\ ee \in EeType /\ usb \in UsbType
      BY DEF PeripheralsInv, DeviceInv, SpiInv, UartInv, AdcInv, FifoInv
    <2> QED BY <2>1, <2>2, <2>3, <2>4, <2>5 DEF TypeOK
  <1> QED BY <1>1, PeripheralsAlways, PTL

(* What a look at the tables alone tells. *)
TablesChecked ==
    \A s \in Sessions : TableBuilds(s.chip) /\ RelatedFound(s.chip) /\ VectorsServe(s.chip)

(* If the tables of defn/ and intvects.c agree on the chips simulated, no   *)
(* step makes an interrupt pending that its chip has no vector for.         *)
THEOREM PendingHaveVectors == TablesChecked /\ Spec => []TablesAgree
  <1>1. TablesChecked /\ PeripheralsInv => TablesAgree
    <2> SUFFICES ASSUME TablesChecked, PeripheralsInv PROVE TablesAgree
      OBVIOUS
    <2>1. session \in Sessions /\ chip = session.chip
          /\ irq_pending \in Seq(IrqsOf(session.uses))
      BY DEF PeripheralsInv, LoopInv, PendingInv
    <2>2. TableBuilds(chip) /\ RelatedFound(chip) /\ VectorsServe(chip)
      BY <2>1 DEF TablesChecked
    <2>3. ASSUME NEW q \in IrqsOf(session.uses)
          PROVE  q \in DOMAIN devices_supported[chip].vtab
      <3>1. InterruptUnits(session.uses) \subseteq Classes(chip)
        BY <2>1, PeripheralsAssumed DEF PeripheralsAssumption
      <3>2. PICK class \in InterruptUnits(session.uses) : q \in VectorsRaised(chip, class)
        <4>1. CASE q = "SPI_STC"
          <5>1. "spii" \in InterruptUnits(session.uses)
            BY <4>1 DEF IrqsOf, InterruptUnits
          <5>2. VectorsRaised(chip, "spii") = {"SPI_STC"}
            BY DEF VectorsRaised
          <5> QED BY <4>1, <5>1, <5>2
        <4>2. CASE q \in {"UART_TX", "UART_UDRE"}
          <5>1. "uart_int" \in InterruptUnits(session.uses)
            BY <4>2 DEF IrqsOf, InterruptUnits
          <5>2. VectorsRaised(chip, "uart_int") = {"UART_RX", "UART_TX", "UART_UDRE"}
            BY DEF VectorsRaised
          <5> QED BY <4>2, <5>1, <5>2
        <4>3. CASE q = "ADC"
          <5>1. "adc_int" \in InterruptUnits(session.uses)
            BY <4>3 DEF IrqsOf, InterruptUnits
          <5>2. VectorsRaised(chip, "adc_int") = {"ADC"}
            BY DEF VectorsRaised
          <5> QED BY <4>3, <5>1, <5>2
        <4> QED BY <4>1, <4>2, <4>3 DEF IrqsOf
      <3>3. class \in Classes(chip)
        BY <3>1, <3>2
      <3>4. q \in UNION {VectorsRaised(chip, c) : c \in Classes(chip)}
        BY <3>2, <3>3, Zenon
      <3> QED BY <2>2, <3>4 DEF VectorsServe
    <2>4. ToSet(irq_pending) \subseteq IrqsOf(session.uses)
      BY <2>1 DEF ToSet
    <2> QED BY <2>2, <2>3, <2>4 DEF TablesAgree
  <1>2. TablesChecked => TablesChecked'
    BY DEF TablesChecked
  <1> QED BY <1>1, <1>2, PeripheralsAlways, PTL
=============================================================================
