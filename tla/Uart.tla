------------------------------- MODULE Uart --------------------------------
(***************************************************************************)
(* The UART of uart.c: the unit of UBRR, UCR and USR, whose asynchronous   *)
(* callback raises the interrupts, and the data register UDR, whose clock  *)
(* callback counts the bits of a frame.  A byte written while one is sent  *)
(* waits: UDRE tells whether there is room for another.  What is received  *)
(* (udr_rx, RXB8) is left out; nothing sets RXC.                           *)
(***************************************************************************)
EXTENDS Bus

CONSTANTS
    UartFrame,         \* clocks of a frame: 10 (11 with CHR9)
    UartBauds          \* the divisors UBRR selects: 16 * (1 + UBRR)

ASSUME UartAssumed == UartFrame \in 1..(UINT16_MAX - 1) /\ AreDivisors(UartBauds)

VARIABLE uart

UartInit == [ubrr |-> Min(UartBauds), usr |-> {}, ucr |-> {},
             shadow |-> FALSE, intr_cb |-> FALSE,
             tcnt |-> 0, divisor |-> 0, clk_cb |-> FALSE]

UcrBits == {"TXEN", "TXCIE", "RXEN", "RXCIE", "UDRIE", "CHR9"}
UartType == [ubrr : UartBauds, usr : SUBSET {"UDRE", "TXC"}, ucr : SUBSET UcrBits,
             shadow : BOOLEAN, intr_cb : BOOLEAN,
             tcnt : 0..UINT16_MAX, divisor : UartBauds \cup {0}, clk_cb : BOOLEAN]

FrameClocks == IF "CHR9" \in uart.ucr THEN UartFrame + 1 ELSE UartFrame

(* UBRR written.  Its high byte comes from ubrr_temp, which nothing sets on *)
(* a device without UBRRH: the divisor is any of them.                      *)
UartWriteUbrr(b) ==
    /\ uart' = [uart EXCEPT !.ubrr = b]
    /\ UNCHANGED lists

(* UCR written: is the callback needed (the first form overlooks UDRIE),    *)
(* and the whole of it.                                                     *)
UartListens_NotRoom(v) == {"TXEN", "TXCIE"} \subseteq v \/ {"RXEN", "RXCIE"} \subseteq v

UartListens(v) == \/ {"TXEN", "TXCIE"} \subseteq v
                  \/ {"RXEN", "RXCIE"} \subseteq v
                  \/ "UDRIE" \in v

UartWriteUcr(v) ==
    /\ uart' = [uart EXCEPT !.ucr = v, !.intr_cb = UartListens(v)]
    /\ AsyncCbAdd("uart_int", UartListens(v) /\ ~uart.intr_cb)
    /\ UNCHANGED <<clk_cb, irq_pending>>

(* UDR written. *)
UartWriteUdr ==
    LET full == "UDRE" \in uart.usr IN
    /\ uart' = [uart EXCEPT
          !.usr = IF full THEN @ \ {"UDRE"} ELSE @ \cup {"UDRE"}, !.shadow = ~full,
          !.divisor = uart.ubrr, !.clk_cb = TRUE, !.tcnt = FrameClocks]
    /\ ClkCbAdd("uart", ~uart.clk_cb)
    /\ UNCHANGED <<async_cb, irq_pending>>

(* uart_intr_reset and uart_reset. *)
UartReset == UartInit

(* uart_intr_cb, which raises UART_TX before UART_UDRE. *)
Sent    == "TXCIE" \in uart.ucr /\ "TXC" \in uart.usr
HasRoom == "UDRIE" \in uart.ucr /\ "UDRE" \in uart.usr /\ uart.shadow

UartRaises ==
    IF ~uart.intr_cb THEN {}
    ELSE (IF Sent THEN {"UART_TX"} ELSE {}) \cup (IF HasRoom THEN {"UART_UDRE"} ELSE {})

UartIntrCb(node) ==
    /\ async_cb' = IteratorVisit(async_cb, node, ~uart.intr_cb)
    /\ irq_pending' = IrqRaise(IrqRaise(irq_pending, UartRaises, "UART_TX"),
                               UartRaises, "UART_UDRE")
    /\ uart' = IF ~uart.intr_cb THEN uart
               ELSE [uart EXCEPT !.usr = IF Sent THEN @ \ {"TXC"} ELSE @,
                                 !.shadow = @ /\ ~HasRoom]
    /\ UNCHANGED clk_cb

(* uart_clk_incr_cb at clock ck.  At the end of a frame the byte that waits *)
(* goes out, if there is one; else the transmission is complete.            *)
UartTcnt(ck) == CountDown(uart.tcnt, UINT16_MAX, ck, uart.divisor)
UartFrameEnds(ck) == uart.clk_cb /\ UartTcnt(ck) # uart.tcnt /\ UartTcnt(ck) = 0

(* As below, without the byte that waits; and with the shadow for the flag. *)
UartEnds_NoneWaits(ck)  == UartFrameEnds(ck)
UartEnds_ByShadow(ck)   == UartFrameEnds(ck) /\ ~uart.shadow

UartEnds(ck) == UartFrameEnds(ck) /\ "UDRE" \in uart.usr

UartClkIncrCb(node, ck) ==
    /\ clk_cb' = IteratorVisit(clk_cb, node, ~uart.clk_cb \/ UartEnds(ck))
    /\ uart' = IF ~uart.clk_cb THEN uart
               ELSE IF UartEnds(ck)
               THEN [uart EXCEPT !.tcnt = 0, !.usr = @ \cup {"TXC"}, !.clk_cb = FALSE]
               ELSE IF UartFrameEnds(ck)
               THEN [uart EXCEPT !.tcnt = FrameClocks, !.usr = @ \cup {"UDRE"},
                                 !.shadow = TRUE]
               ELSE [uart EXCEPT !.tcnt = UartTcnt(ck)]
    /\ UNCHANGED <<async_cb, irq_pending>>
=============================================================================
