------------------------------ MODULE HwStack -------------------------------
(***************************************************************************)
(* The hardware stack of stack.c, for a device without data memory, whose  *)
(* only uses of it are calls, interrupts and returns.                      *)
(***************************************************************************)
EXTENDS Naturals, Sequences, SequencesExt

CONSTANTS
    Depth,       \* the words of the stack, 3 on the AT90S1200
    PC_max       \* words of flash

VARIABLES
    stack,       \* [0..Depth-1 -> return addresses], the top at 0
    PC,
    callers      \* history: the addresses to return to, the last one last

vars == <<stack, PC, callers>>

Addresses == 0..(PC_max - 1)
Slots     == 0..(Depth - 1)

Init ==
    /\ stack = [i \in Slots |-> 0]
    /\ PC = 0
    /\ callers = <<>>

AdjustPC(pc) == IF pc >= PC_max THEN pc - PC_max ELSE pc

(* hw_push: its loop copies stack[i] to stack[i - 1], from the bottom up, so *)
(* that the bottom reaches every slot; then the top is set.                  *)
Pushed(s, v) == [i \in Slots |-> IF i = 0 THEN v ELSE s[Depth - 1]]

(* hw_pop: every slot takes the one below it, the bottom stays. *)
Dropped(s) == [i \in Slots |-> IF i < Depth - 1 THEN s[i + 1] ELSE s[i]]

(* RCALL, or an interrupt, which pushes the address itself: the program     *)
(* nests no more of them than the stack has words.                          *)
Call(n) ==
    /\ Len(callers) < Depth
    /\ stack' = Pushed(stack, PC + n)
    /\ callers' = Append(callers, AdjustPC(PC + n))
    /\ PC' \in Addresses

(* RET and RETI. *)
Return ==
    /\ callers # <<>>
    /\ PC' = AdjustPC(stack[0])
    /\ stack' = Dropped(stack)
    /\ callers' = Front(callers)

Other == PC' \in Addresses /\ UNCHANGED <<stack, callers>>

Next == (\E n \in 0..1 : Call(n)) \/ Return \/ Other

Spec == Init /\ [][Next]_vars

----------------------------------------------------------------------------
(* stack.c:159 "This is the stack implementation used by devices which lack *)
(* SRAM and only have a fixed size hardware stack": as deep as it is, every *)
(* return continues after the call, or where the interrupt came.            *)
ReturnsToCaller == [][Return => PC' = Last(callers)]_vars
=============================================================================
