-------------------------------- MODULE Bus --------------------------------
(***************************************************************************)
(* What the I/O devices share: the chip they sit on, and the core's lists  *)
(* of clock callbacks, asynchronous callbacks and pending interrupts.  As  *)
(* in module Timers a callback is two pieces of state, the node in a list  *)
(* and the pointer to it in the device; only the pointer is cleared when a *)
(* device stops, and the node goes when the callback next finds it NULL.   *)
(***************************************************************************)
EXTENDS Devices, DList

VARIABLES
    chip,              \* the device simulated, one of devices_supported
    clk_cb,            \* the clock callbacks, as the names of their devices
    async_cb,          \* the asynchronous callbacks
    irq_pending        \* the pending interrupts, oldest first

lists == <<clk_cb, async_cb, irq_pending>>

CONSTANT CKPeriod      \* CK is kept modulo this multiple of all divisors

ASSUME BusAssumed == CKPeriod \in Nat \ {0}

(* The divisors a register selects are a choice of a few. *)
AreDivisors(S) ==
    /\ S \subseteq Nat \ {0}
    /\ \E d \in S : \A e \in S : d <= e

(* The largest values of the counters, which are a uint8_t or a uint16_t.   *)
UINT8_MAX  == 255
UINT16_MAX == \hffff

(* A counter at clock ck. *)
CountDown(n, max, ck, divisor) ==
    IF ck % divisor = 0 THEN (n + max) % (max + 1) ELSE n

(* avr_core_clk_cb_add and avr_core_async_cb_add. *)
ClkCbAdd(device, add)   == clk_cb' = IF add THEN Append(clk_cb, device) ELSE clk_cb
AsyncCbAdd(device, add) == async_cb' = IF add THEN Append(async_cb, device)
                                       ELSE async_cb

(* avr_core_irq_raise on the list s, if q is among the interrupts raised. *)
IrqRaise(s, irqs, q) ==
    IF q \in irqs THEN DListAdd(s, q, devices_supported[chip].vtab) ELSE s
=============================================================================
