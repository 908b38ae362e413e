----------------------------- MODULE MCAvrCore -----------------------------
(* Instances of AvrCore for TLC. *)
EXTENDS AvrCore

(* A vector table with the timers' vectors in the order of their priority,  *)
(* and an entry the device does not define.                                 *)
MCVectorAddr == [q \in Irqs |->
    CASE q = "TIMER1_CAPT"  -> 1
      [] q = "TIMER1_COMPA" -> 2
      [] q = "TIMER1_COMPB" -> 3
      [] q = "TIMER1_OVF"   -> 4
      [] q = "TIMER0_OVF"   -> 5
      [] OTHER              -> 0]

(* Counters of one bit instead of 8 and 16. *)
MCTcntModulus == [t \in Timers |-> 2]
=============================================================================
