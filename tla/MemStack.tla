------------------------------ MODULE MemStack ------------------------------
(***************************************************************************)
(* The stack of stack.c in data memory, under the instructions that use    *)
(* it: CALL, RCALL and ICALL, RET and RETI, PUSH and POP.  The stack        *)
(* pointer is the two registers SPL and SPH of an I/O device, which a       *)
(* program sets one after the other.                                       *)
(*                                                                         *)
(* The program keeps the discipline every program keeps: the stack lies in  *)
(* addresses that hold a byte, it is popped as it was pushed, nothing else  *)
(* is stored there, and the stack pointer is set while the stack is empty.  *)
(***************************************************************************)
EXTENDS Integers, Sequences, SequencesExt

CONSTANTS
    Byte,         \* the values of a byte are 0..Byte-1: 2^8
    PC_size,      \* bytes of a return address
    PC_max,       \* words of flash
    Ram,          \* the addresses of data memory where mem_write stores and
                  \* mem_read reads what was stored
    Stores,       \* those the program stores to beside the stack
    Targets       \* the addresses CALL and jumps go to

VARIABLES
    mem,          \* [Ram -> 0..Byte-1]
    SPL, SPH,     \* the two bytes of the stack pointer
    PC,
    Rd,           \* the register that PUSH and POP name
    bottom,       \* history: the stack pointer when the stack was empty
    frames        \* history: of what is on the stack, the top last, the bytes
                  \* and the stack pointer after their push

vars == <<mem, SPL, SPH, PC, Rd, bottom, frames>>

Bytes    == 0..(Byte - 1)
SPValues == 0..(Byte * Byte - 1)

(* The values of PC_size bytes. *)
Capacity == IF PC_size = 2 THEN Byte * Byte ELSE Byte * Byte * Byte

MemStackAssumption ==
    /\ Byte \in Nat \ {0, 1}
    /\ PC_size \in 2..3
    /\ PC_max \in 2..Capacity
    /\ Ram \subseteq SPValues
    /\ Stores \subseteq Ram
    /\ Targets \subseteq 0..(PC_max - 1)

ASSUME MemStackAssumed == MemStackAssumption

SP == SPH * Byte + SPL

Init ==
    /\ mem = [a \in Ram |-> 0]
    /\ SPL = 0 /\ SPH = 0 /\ PC = 0 /\ Rd = 0
    /\ bottom = 0 /\ frames = <<>>

----------------------------------------------------------------------------
(* stack.c *)

(* An address of 16 bits: uint16_t wraps below zero and above the last. *)
Wrapped(a) == a % (Byte * Byte)

(* The lowest byte of a value after i shifts of a byte. *)
ByteOf(v, i) ==
    (IF i = 0 THEN v ELSE IF i = 1 THEN v \div Byte ELSE (v \div Byte) \div Byte) % Byte

(* mem_push: the bytes of v go to sp and downwards, the lowest first. *)
Pushed(m, sp, bytes, v) ==
    [a \in Ram |->
        LET i == Wrapped(sp - a) IN IF i < bytes THEN ByteOf(v, i) ELSE m[a]]

(* As below, lowest byte first. *)
Popped_LowFirst(m, sp, bytes) ==
    LET b(i) == m[Wrapped(sp + i)] IN
    IF bytes = 1 THEN b(1)
    ELSE IF bytes = 2 THEN b(2) * Byte + b(1) ELSE (b(3) * Byte + b(2)) * Byte + b(1)

(* mem_pop: the value of the bytes above sp, the highest first. *)
Popped(m, sp, bytes) ==
    LET b(i) == m[Wrapped(sp + i)] IN
    IF bytes = 1 THEN b(1)
    ELSE IF bytes = 2 THEN b(1) * Byte + b(2) ELSE (b(1) * Byte + b(2)) * Byte + b(3)

(* sp_set *)
SPBecomes(sp) == SPL' = sp % Byte /\ SPH' = sp \div Byte

StackPush(bytes, v) ==
    /\ mem' = Pushed(mem, SP, bytes, v)
    /\ SPBecomes(Wrapped(SP - bytes))
    /\ frames' = Append(frames, [sp |-> Wrapped(SP - bytes), bytes |-> bytes])

StackPop(bytes) ==
    /\ frames # <<>>
    /\ Last(frames).bytes = bytes
    /\ SPBecomes(Wrapped(SP + bytes))
    /\ frames' = Front(frames)
    /\ UNCHANGED mem

----------------------------------------------------------------------------
(* The instructions *)

(* PC_set and PC_incr. *)
AdjustPC(pc) == IF pc < 0 THEN PC_max + pc ELSE IF pc >= PC_max THEN pc - PC_max ELSE pc

(* The bytes on the stack when the stack pointer is sp. *)
Height(sp) == Wrapped(bottom - sp)

(* The addresses of the stack, with the next bytes it would take. *)
InUse(bytes) == {Wrapped(bottom - i) : i \in 0..(Height(SP) + bytes - 1)}

Room(bytes) == Height(SP) + bytes < Byte * Byte /\ InUse(bytes) \subseteq Ram

(* A call of n words, or an interrupt for n = 0, which interrupts before an *)
(* instruction: what RCALL, ICALL and CALL push may be one beyond the last  *)
(* address.  The second word of CALL must lie in flash.                     *)
Call(n) ==
    /\ n = 2 => PC + 1 < PC_max
    /\ Room(PC_size)
    /\ StackPush(PC_size, PC + n)
    /\ PC' \in Targets
    /\ UNCHANGED <<Rd, bottom>>

Return ==
    /\ StackPop(PC_size)
    /\ PC' = AdjustPC(Popped(mem, SP, PC_size))
    /\ UNCHANGED <<Rd, bottom>>

Push ==
    /\ Room(1)
    /\ StackPush(1, Rd)
    /\ PC' = AdjustPC(PC + 1)
    /\ UNCHANGED <<Rd, bottom>>

Pop ==
    /\ StackPop(1)
    /\ Rd' = Popped(mem, SP, 1)
    /\ PC' = AdjustPC(PC + 1)
    /\ UNCHANGED bottom

(* Instructions that load Rd or jump. *)
Other ==
    /\ \/ Rd' \in Bytes /\ PC' = AdjustPC(PC + 1)
       \/ Rd' = Rd /\ PC' \in Targets
    /\ UNCHANGED <<mem, SPL, SPH, bottom, frames>>

(* ST outside the stack. *)
Store ==
    /\ \E a \in Stores \ InUse(0), v \in Bytes : mem' = [mem EXCEPT ![a] = v]
    /\ PC' = AdjustPC(PC + 1)
    /\ UNCHANGED <<SPL, SPH, Rd, bottom, frames>>

(* OUT to SPL and to SPH. *)
SetSP ==
    /\ frames = <<>>
    /\ \/ SPL' \in Bytes /\ UNCHANGED SPH
       \/ SPH' \in Bytes /\ UNCHANGED SPL
    /\ bottom' = SPH' * Byte + SPL'
    /\ PC' = AdjustPC(PC + 1)
    /\ UNCHANGED <<mem, Rd, frames>>

Next == (\E n \in 0..2 : Call(n)) \/ Return \/ Push \/ Pop \/ Other \/ Store \/ SetSP

Spec == Init /\ [][Next]_vars

----------------------------------------------------------------------------
(* Properties *)

(* What was pushed, read from memory where it lies. *)
Item(m, f) ==
    LET v == Popped(m, f.sp, f.bytes) IN
    IF f.bytes = 1 THEN [byte |-> v] ELSE [address |-> AdjustPC(v)]
Items == [n \in DOMAIN frames |-> Item(mem, frames[n])]

Promise == INSTANCE ControlStack WITH items <- Items

(* Whatever is called, pushed and stored, with the stack pointer anywhere,  *)
(* even where the stack wraps from address 0 to the last, and with return   *)
(* addresses of which the last is one too large for its bytes, a return     *)
(* continues after its call and a POP gives back the byte of its PUSH.      *)
KeepsStackPromise == Promise!Spec
=============================================================================
