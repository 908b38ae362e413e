-------------------------------- MODULE Adc --------------------------------
(***************************************************************************)
(* The A/D converter of adc.c: ADCSR, whose asynchronous callback raises   *)
(* the interrupt, and the data registers, whose clock callback counts a    *)
(* conversion down.  ADMUX and the result, which a person types, are left  *)
(* out.                                                                    *)
(***************************************************************************)
EXTENDS Bus

CONSTANTS
    AdcClocks,         \* clocks of a conversion: 13
    AdcDivisors        \* 12 times what ADPS0..2 select, 2 to 128

ASSUME AdcAssumed == AdcClocks \in 1..UINT16_MAX /\ AreDivisors(AdcDivisors)

VARIABLE adc

AdcsrBits == {"ADEN", "ADIE", "ADIF", "ADFR", "ADSC"}
AdcInit == [adcsr |-> {}, adps |-> Min(AdcDivisors),
            intr_cb |-> FALSE, adc_count |-> 0, divisor |-> 0, clk_cb |-> FALSE]
AdcType == [adcsr : SUBSET AdcsrBits, adps : AdcDivisors, intr_cb : BOOLEAN,
            adc_count : 0..UINT16_MAX, divisor : AdcDivisors \cup {0}, clk_cb : BOOLEAN]

(* ADCSR written with the bits v and a prescaler.  ADIF is cleared whatever *)
(* is written to it, and a write that starts no conversion removes the      *)
(* interrupt callback, even while a conversion goes on.                     *)
AdcStarts(v) == {"ADSC", "ADEN"} \subseteq v

AdcWriteAdcsr(v, adps) ==
    /\ adc' = [adc EXCEPT
          !.adcsr = v \ {"ADIF"}, !.adps = adps, !.intr_cb = AdcStarts(v),
          !.clk_cb = @ \/ AdcStarts(v),
          !.adc_count = IF AdcStarts(v) THEN AdcClocks ELSE @,
          !.divisor = IF AdcStarts(v) THEN adps ELSE @]
    /\ AsyncCbAdd("adc_int", AdcStarts(v) /\ ~adc.intr_cb)
    /\ ClkCbAdd("adc", AdcStarts(v) /\ ~adc.clk_cb)
    /\ UNCHANGED irq_pending

(* adc_intr_reset and adc_reset. *)
AdcReset == AdcInit

(* adc_intr_cb *)
AdcFlagged == {"ADEN", "ADIE", "ADIF"} \subseteq adc.adcsr
AdcRaises  == IF adc.intr_cb /\ AdcFlagged THEN {"ADC"} ELSE {}

AdcIntrCb(node) ==
    /\ async_cb' = IteratorVisit(async_cb, node, ~adc.intr_cb)
    /\ irq_pending' = IrqRaise(irq_pending, AdcRaises, "ADC")
    /\ adc' = IF AdcRaises # {} THEN [adc EXCEPT !.adcsr = @ \ {"ADIF"}] ELSE adc
    /\ UNCHANGED clk_cb

(* adc_clk_incr_cb at clock ck; a free running converter starts again. *)
AdcCount(ck) == CountDown(adc.adc_count, UINT16_MAX, ck, adc.divisor)
AdcConverts(ck) == adc.clk_cb /\ AdcCount(ck) # adc.adc_count /\ AdcCount(ck) = 0
AdcEnds(ck) == AdcConverts(ck) /\ "ADFR" \notin adc.adcsr

AdcClkIncrCb(node, ck) ==
    /\ clk_cb' = IteratorVisit(clk_cb, node, ~adc.clk_cb \/ AdcEnds(ck))
    /\ adc' = IF ~adc.clk_cb THEN adc
              ELSE IF AdcConverts(ck)
              THEN [adc EXCEPT !.adcsr = (@ \cup {"ADIF"}) \ {"ADSC"},
                               !.adc_count = IF AdcEnds(ck) THEN 0 ELSE AdcClocks,
                               !.clk_cb = ~AdcEnds(ck)]
              ELSE [adc EXCEPT !.adc_count = AdcCount(ck)]
    /\ UNCHANGED <<async_cb, irq_pending>>
=============================================================================
