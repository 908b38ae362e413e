----------------------------- MODULE Interrupts -----------------------------
(***************************************************************************)
(* What the core promises a program about interrupts, without callbacks,   *)
(* clocks or lists: interrupts are pending or not, one is taken only when  *)
(* interrupts are enabled and never between a return from a handler and    *)
(* the next instruction, the handler runs with interrupts disabled, and    *)
(* its return resumes the code it interrupted.                             *)
(***************************************************************************)
EXTENDS Sequences, SequencesExt

CONSTANTS Irqs,     \* the interrupts
          Vectors   \* those with a handler, Irqs without the reset

VARIABLES pending,  \* a set of interrupts
          enabled,  \* the global interrupt enable
          frames,   \* the code running, last, and the codes it interrupted
          resumed   \* the last instruction was the return from a handler

vars == <<pending, enabled, frames, resumed>>

Init ==
    /\ pending = {}
    /\ enabled = FALSE
    /\ frames = <<"main">>
    /\ resumed = FALSE

(* An instruction of the running code; it may enable or disable interrupts. *)
Execute ==
    /\ enabled' \in BOOLEAN
    /\ resumed' = FALSE
    /\ UNCHANGED <<pending, frames>>

Return ==
    /\ Len(frames) > 1
    /\ frames' = Front(frames)
    /\ enabled' = TRUE
    /\ resumed' = TRUE
    /\ UNCHANGED pending

Raise(q) ==
    /\ pending' = pending \cup {q}
    /\ UNCHANGED <<enabled, frames, resumed>>

Vector(q) ==
    /\ q \in pending
    /\ enabled
    /\ ~resumed
    /\ pending' = pending \ {q}
    /\ enabled' = FALSE
    /\ frames' = Append(frames, q)
    /\ UNCHANGED resumed

Reset ==
    /\ pending' = {}
    /\ enabled' = FALSE
    /\ frames' = <<"main">>
    /\ UNCHANGED resumed

(* The debugger wrote SREG. *)
SetEnabled ==
    /\ enabled' \in BOOLEAN
    /\ UNCHANGED <<pending, frames, resumed>>

Next ==
    \/ Execute \/ Return \/ Reset \/ SetEnabled
    \/ \E q \in Irqs : Raise(q)
    \/ \E q \in Vectors : Vector(q)

Spec == Init /\ [][Next]_vars
=============================================================================
