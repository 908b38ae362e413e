-------------------------------- MODULE Alu ---------------------------------
(***************************************************************************)
(* The arithmetic of decoder.c: results of a register's width and the       *)
(* status flags, which the code computes from single bits of the operands   *)
(* and the result.  The width is a parameter.                               *)
(***************************************************************************)
EXTENDS Integers

CONSTANTS
    Half,               \* the weight of a register's highest bit: 2^7
    HalfNibble          \* the weight of the highest bit of its low half: 2^3

AluAssumption ==
    /\ Half \in Nat \ {0} /\ HalfNibble \in Nat \ {0}
    /\ Half % HalfNibble = 0

ASSUME AluAssumed == AluAssumption

Byte  == 2 * Half
Word  == Byte * Byte
Bytes == 0..(Byte - 1)

Nibble == 2 * HalfNibble

(* The bit of weight w of v is set. *)
Bit(v, w) == v % (2 * w) >= w

(* The weights of the bits that are set, and the register with given ones:  *)
(* Half is a power of 2, whose divisors are the weights of a register.      *)
Weights     == {w \in 1..Half : Half % w = 0}
BitsOf(v)   == {w \in Weights : Bit(v, w)}
WithBits(S) == CHOOSE v \in Bytes : BitsOf(v) = S

(* Half is a power of 2, so a weight is a multiple of twice each lower one; *)
(* a register is two nibbles.                                               *)
BitsAssumption ==
    /\ \A v, w \in Weights : v < w => w % (2 * v) = 0
    /\ Byte = Nibble * Nibble

ASSUME BitsAssumed == BitsAssumption

(* int8_t: the value of a register read as two's complement. *)
Signed(v) == IF Bit(v, Half) THEN v - Byte ELSE v

(* uint8_t res = rd + rr + C, and rd - rr - C *)
Sum(rd, rr, c)  == (rd + rr + c) % Byte
Diff(rd, rr, c) == (rd - rr - c) % Byte

(* As below, without the carry that comes in. *)
get_add_carry_OperandsOnly(res, rd, rr, w) == Bit(rd, w) /\ Bit(rr, w)

get_add_carry(res, rd, rr, w) ==
    \/ Bit(rd, w) /\ Bit(rr, w)
    \/ Bit(rr, w) /\ ~Bit(res, w)
    \/ ~Bit(res, w) /\ Bit(rd, w)

get_add_overflow(res, rd, rr) ==
    \/ Bit(rd, Half) /\ Bit(rr, Half) /\ ~Bit(res, Half)
    \/ ~Bit(rd, Half) /\ ~Bit(rr, Half) /\ Bit(res, Half)

(* get_compare_carry and get_compare_overflow are the same formulas. *)
get_sub_carry(res, rd, rr, w) ==
    \/ ~Bit(rd, w) /\ Bit(rr, w)
    \/ Bit(rr, w) /\ Bit(res, w)
    \/ Bit(res, w) /\ ~Bit(rd, w)

get_sub_overflow(res, rd, rr) ==
    \/ Bit(rd, Half) /\ ~Bit(rr, Half) /\ ~Bit(res, Half)
    \/ ~Bit(rd, Half) /\ Bit(rr, Half) /\ Bit(res, Half)

----------------------------------------------------------------------------
(* The status register is the set of its flags that are set. *)

SregFlags == {"C", "Z", "N", "V", "S", "H", "T", "I"}

On(flag, condition) == IF condition THEN {flag} ELSE {}

(* N and V as given, and S, their exclusive or. *)
SignFlags(n, v) == On("N", n) \cup On("V", v) \cup On("S", n # v)

(* The flags of ADC and ADD, of SBC, SUB, CP and their immediates, and of   *)
(* the logical operations, all but Z.                                       *)
AddFlags(res, rd, rr) ==
    SignFlags(Bit(res, Half), get_add_overflow(res, rd, rr))
    \cup On("H", get_add_carry(res, rd, rr, HalfNibble))
    \cup On("C", get_add_carry(res, rd, rr, Half))

SubFlags(res, rd, rr) ==
    SignFlags(Bit(res, Half), get_sub_overflow(res, rd, rr))
    \cup On("H", get_sub_carry(res, rd, rr, HalfNibble))
    \cup On("C", get_sub_carry(res, rd, rr, Half))

LogicFlags(res) == SignFlags(Bit(res, Half), FALSE)

(* ASR, LSR, ROR: V is the exclusive or of N and the bit shifted out. *)
ShiftFlags(res, rd) ==
    LET n == Bit(res, Half)
        c == Bit(rd, 1)
    IN SignFlags(n, n # c) \cup On("C", c)

(* ADIW and SBIW: from bit 15 of the result and bit 7 of the high register. *)
WordFlags(res, overflow, carry) ==
    SignFlags(Bit(res, Byte * Half), overflow) \cup On("C", carry)

ZeroFlag(res) == On("Z", res = 0)
=============================================================================
