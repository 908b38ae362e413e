---------------------------- MODULE ControlStack ----------------------------
(***************************************************************************)
(* What a stack owes a program: RET continues after the last call that has *)
(* not returned yet, RETI where the interrupt came, and POP gives back the *)
(* byte of its PUSH, whatever was pushed, popped or stored in between.     *)
(***************************************************************************)
EXTENDS Naturals, Sequences, SequencesExt

CONSTANTS PC_max,    \* the program addresses are 0..PC_max-1
          Bytes      \* the values of a register

VARIABLES PC,        \* the program counter
          Rd,        \* the register that PUSH and POP name
          items      \* what was pushed, the top last

vars == <<PC, Rd, items>>

Addresses == 0..(PC_max - 1)

Init == PC = 0 /\ Rd = 0 /\ items = <<>>

(* Instructions without effect on the stack. *)
Other ==
    /\ PC' \in Addresses
    /\ Rd' \in Bytes
    /\ UNCHANGED items

(* A call of n words, or an interrupt, when n is 0. *)
Call(n) ==
    /\ PC' \in Addresses
    /\ items' = Append(items, [address |-> (PC + n) % PC_max])
    /\ UNCHANGED Rd

Return ==
    /\ items # <<>>
    /\ "address" \in DOMAIN Last(items)
    /\ PC' = Last(items).address
    /\ items' = Front(items)
    /\ UNCHANGED Rd

Push ==
    /\ items' = Append(items, [byte |-> Rd])
    /\ PC' = (PC + 1) % PC_max
    /\ UNCHANGED Rd

Pop ==
    /\ items # <<>>
    /\ "byte" \in DOMAIN Last(items)
    /\ Rd' = Last(items).byte
    /\ items' = Front(items)
    /\ PC' = (PC + 1) % PC_max

Next == Other \/ (\E n \in 0..2 : Call(n)) \/ Return \/ Push \/ Pop

Spec == Init /\ [][Next]_vars
=============================================================================
