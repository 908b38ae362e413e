-------------------------------- MODULE Spi --------------------------------
(***************************************************************************)
(* The SPI of spi.c: the control and status unit spii (SPCR, SPSR), whose  *)
(* asynchronous callback raises the interrupt, and the data register       *)
(* (SPDR), whose clock callback counts the bits of a transfer.  The bytes  *)
(* exchanged are left out.                                                 *)
(***************************************************************************)
EXTENDS Bus

CONSTANTS
    SpiBits,           \* the clocks of a transfer: 8
    SpiDivisors        \* what SPR0 and SPR1 select, powers of two: 4 to 128

ASSUME SpiAssumed == SpiBits \in 1..UINT8_MAX /\ AreDivisors(SpiDivisors)

VARIABLE spi

SpiInit == [spcr |-> {}, spr |-> Min(SpiDivisors), spsr |-> {},
            spsr_read |-> {}, intr_cb |-> FALSE,
            tcnt |-> 0, divisor |-> 0, clk_cb |-> FALSE]

SpiType == [spcr : SUBSET {"SPE", "SPIE"}, spr : SpiDivisors,
            spsr : SUBSET {"SPIF", "WCOL"}, spsr_read : SUBSET {"SPIF", "WCOL"},
            intr_cb : BOOLEAN, tcnt : 0..UINT8_MAX, divisor : SpiDivisors \cup {0},
            clk_cb : BOOLEAN]

(* SPSR read: the flags seen will be cleared by the next access of SPDR. *)
SpiReadSpsr ==
    /\ spi' = [spi EXCEPT !.spsr_read = @ \cup spi.spsr]
    /\ UNCHANGED lists

(* SPCR written with the enable bits v and a clock select.  A write of SPE  *)
(* installs another callback whether or not one is installed.               *)
SpiWriteSpcr(v, spr) ==
    /\ spi' = [spi EXCEPT !.spcr = v, !.spr = spr, !.intr_cb = "SPE" \in v]
    /\ AsyncCbAdd("spii", "SPE" \in v)
    /\ UNCHANGED <<clk_cb, irq_pending>>

Acknowledged == spi.spsr \ spi.spsr_read

SpiReadSpdr ==
    /\ spi' = [spi EXCEPT !.spsr = Acknowledged, !.spsr_read = {}]
    /\ UNCHANGED lists

SpiWriteSpdr ==
    /\ spi' = [spi EXCEPT
          !.spsr = Acknowledged \cup IF spi.tcnt # 0 THEN {"WCOL"} ELSE {},
          !.spsr_read = {}, !.divisor = spi.spr, !.clk_cb = TRUE, !.tcnt = SpiBits]
    /\ ClkCbAdd("spi", ~spi.clk_cb)
    /\ UNCHANGED <<async_cb, irq_pending>>

(* As below, leaving the transfer's callback pointer. *)
SpiReset_KeepsCallback == [SpiInit EXCEPT !.clk_cb = spi.clk_cb]

(* spi_intr_reset and spi_reset. *)
SpiReset == SpiInit

(* spi_intr_cb: what it raises, and the rest of what it does. *)
SpiRaises ==
    IF spi.intr_cb /\ {"SPE", "SPIE"} \subseteq spi.spcr /\ "SPIF" \in spi.spsr
    THEN {"SPI_STC"} ELSE {}

(* As below, leaving the flag that was served. *)
SpiIntrCb_KeepsFlag(node) ==
    /\ async_cb' = IteratorVisit(async_cb, node, ~spi.intr_cb)
    /\ irq_pending' = IrqRaise(irq_pending, SpiRaises, "SPI_STC")
    /\ UNCHANGED <<spi, clk_cb>>

SpiIntrCb(node) ==
    /\ async_cb' = IteratorVisit(async_cb, node, ~spi.intr_cb)
    /\ irq_pending' = IrqRaise(irq_pending, SpiRaises, "SPI_STC")
    /\ spi' = IF SpiRaises # {} THEN [spi EXCEPT !.spsr = {}] ELSE spi
    /\ UNCHANGED clk_cb

(* spi_clk_incr_cb at clock ck: does it end the transfer, does it ask to be *)
(* removed, and the whole of it.                                            *)
SpiTcnt(ck) == CountDown(spi.tcnt, UINT8_MAX, ck, spi.divisor)
SpiEnds(ck) == spi.clk_cb /\ SpiTcnt(ck) # spi.tcnt /\ SpiTcnt(ck) = 0

SpiClkIncrCb(node, ck) ==
    /\ clk_cb' = IteratorVisit(clk_cb, node, ~spi.clk_cb \/ SpiEnds(ck))
    /\ spi' = IF ~spi.clk_cb THEN spi
              ELSE IF SpiEnds(ck)
              THEN [spi EXCEPT !.tcnt = 0, !.spsr = @ \cup {"SPIF"}, !.clk_cb = FALSE]
              ELSE [spi EXCEPT !.tcnt = SpiTcnt(ck)]
    /\ UNCHANGED <<async_cb, irq_pending>>
=============================================================================
