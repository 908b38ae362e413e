-------------------------- MODULE DecoderRoutines ---------------------------
(***************************************************************************)
(* Routines for module Decoder, in the forms compilers and application      *)
(* notes give them, on numbers of two registers, and what each computes.    *)
(* X is in R17:R16 and at addresses 96 and 97, Y in R19:R18 and at 98, 99.   *)
(***************************************************************************)
EXTENDS Decoder


Reg2(op, d, r) == [op |-> op, d |-> d, r |-> r]
RegK(op, d, K) == [op |-> op, d |-> d, K |-> K]
Reg1(op, d)    == [op |-> op, d |-> d]
RegB(op, d, w) == [op |-> op, d |-> d, w |-> w]     \* the bit of weight w
Mem(op, d, p)  == [op |-> op, d |-> d, p |-> p]
MemQ(op, d, p, q) == [op |-> op, d |-> d, p |-> p, q |-> q]
If(op, s, k)   == [op |-> op, s |-> s, k |-> k]
Flag(op, s)    == [op |-> op, s |-> s]
Plain(op)      == [op |-> op]
Data(k)        == [op |-> "data", k |-> k]
RET            == Plain("RET")

(* An address of memory in a register pair. *)
Low(p, a)  == RegK("LDI", p, a % Byte)
High(p, a) == RegK("LDI", p + 1, a \div Byte)

K == 55             \* the immediate operand of two registers: 3 and 7

Routines == [
  add   |-> <<Reg2("ADD", 16, 18), Reg2("ADC", 17, 19), RET>>,
  plus1 |-> <<RegK("LDI", 20, 0), Flag("BSET", "C"), Reg2("ADC", 16, 20),
              Reg2("ADC", 17, 20), RET>>,
  adiw  |-> <<Reg2("MOVW", 24, 16), RegK("ADIW", 24, 3), RET>>,
  addm  |-> <<Low(26, 96), High(26, 96), Low(28, 98), High(28, 98),
              RegK("LDI", 20, 2), Flag("BCLR", "C"),
              Mem("LD_incr", 0, 26), MemQ("LDD", 1, 28, 0), Reg2("ADC", 0, 1),
              Mem("ST_incr", 0, 28), Reg1("DEC", 20), If("BRBC", "Z", -6), RET>>,

  sub   |-> <<Reg2("SUB", 16, 18), Reg2("SBC", 17, 19), RET>>,
  subi  |-> <<RegK("SUBI", 16, K % Byte), RegK("SBCI", 17, K \div Byte), RET>>,
  neg   |-> <<Reg1("COM", 17), Reg1("NEG", 16), RegK("SBCI", 17, Byte - 1), RET>>,
  sbiw  |-> <<Reg2("MOVW", 24, 16), RegK("SBIW", 24, 3), RET>>,

  cmp   |-> <<Reg2("CP", 16, 18), Reg2("CPC", 17, 19), RET>>,
  cmpi  |-> <<RegK("LDI", 20, K \div Byte), RegK("CPI", 16, K % Byte),
              Reg2("CPC", 17, 20), RET>>,
  max   |-> <<Reg2("CP", 16, 18), Reg2("CPC", 17, 19), If("BRBC", "S", 1),
              Reg2("MOVW", 16, 18), RET>>,
  min   |-> <<Reg2("CP", 16, 18), Reg2("CPC", 17, 19), If("BRBS", "C", 1),
              Reg2("MOVW", 16, 18), RET>>,

  \* R1:R0 is added to the middle of the product in R23..R20; R2 is zero
  mul   |-> <<Reg2("EOR", 2, 2), Reg2("MUL", 17, 19), Reg2("MOVW", 22, 0),
              Reg2("MUL", 16, 18), Reg2("MOVW", 20, 0),
              Reg2("MUL", 17, 18),
              Reg2("ADD", 21, 0), Reg2("ADC", 22, 1), Reg2("ADC", 23, 2),
              Reg2("MUL", 19, 16),
              Reg2("ADD", 21, 0), Reg2("ADC", 22, 1), Reg2("ADC", 23, 2), RET>>,
  muls  |-> <<Reg2("EOR", 2, 2), Reg2("MULS", 17, 19), Reg2("MOVW", 22, 0),
              Reg2("MUL", 16, 18), Reg2("MOVW", 20, 0),
              Reg2("MULSU", 17, 18), Reg2("SBC", 23, 2),
              Reg2("ADD", 21, 0), Reg2("ADC", 22, 1), Reg2("ADC", 23, 2),
              Reg2("MULSU", 19, 16), Reg2("SBC", 23, 2),
              Reg2("ADD", 21, 0), Reg2("ADC", 22, 1), Reg2("ADC", 23, 2), RET>>,
  fmuls |-> <<Reg2("EOR", 2, 2), Reg2("FMULS", 17, 19), Reg2("MOVW", 22, 0),
              Reg2("FMUL", 16, 18), Reg2("ADC", 22, 2), Reg2("MOVW", 20, 0),
              Reg2("FMULSU", 17, 18), Reg2("SBC", 23, 2),
              Reg2("ADD", 21, 0), Reg2("ADC", 22, 1), Reg2("ADC", 23, 2),
              Reg2("FMULSU", 19, 16), Reg2("SBC", 23, 2),
              Reg2("ADD", 21, 0), Reg2("ADC", 22, 1), Reg2("ADC", 23, 2), RET>>,

  lsr   |-> <<Reg1("LSR", 17), Reg1("ROR", 16), RET>>,
  asr   |-> <<Reg1("ASR", 17), Reg1("ROR", 16), RET>>,
  ror   |-> <<RegB("BST", 16, 1), Reg1("LSR", 17), Reg1("ROR", 16),
              RegB("BLD", 17, Half), RET>>,
  shl   |-> <<Reg1("SWAP", 17), RegK("ANDI", 17, Byte - Nibble), Reg1("SWAP", 16),
              Reg2("EOR", 17, 16), RegK("ANDI", 16, Byte - Nibble), Reg2("EOR", 17, 16), RET>>,
  mask  |-> <<Reg2("AND", 16, 18), Reg1("COM", 18), Reg2("AND", 17, 18),
              Reg2("OR", 16, 17), RegK("ORI", 16, Half), RET>>,

  copy  |-> <<Low(26, 100), High(26, 100), Low(30, 104), High(30, 104),
              RegK("LDI", 20, Byte - 4), Mem("LD_decr", 0, 26), Mem("ST_decr", 0, 30),
              Reg1("INC", 20), If("BRBC", "Z", -4), RET>>,
  flip  |-> <<Low(30, 96), High(30, 96), Low(26, 97), High(26, 97),
              MemQ("LDD", 0, 30, 0), MemQ("LDD", 1, 30, 3), MemQ("STD", 1, 30, 0),
              MemQ("STD", 0, 30, 3), Reg1("LD_X", 2), Reg1("LDS", 3), Data(98),
              Reg1("STS", 2), Data(98), Reg1("ST_X", 3), RET>>,
  regs  |-> <<Low(26, 18), High(26, 18), Mem("LD_incr", 20, 26), Reg1("ST_X", 16), RET>>,

  skip  |-> <<RegB("SBRC", 17, 8), Reg1("STS", 16), Data(100),
              RegB("SBRS", 17, 8), Reg1("STS", 16), Data(101),
              Reg2("CPSE", 17, 19), Reg1("LDS", 19), Data(97),
              Reg2("MOV", 20, 16), RegB("SBRC", 18, 1), Reg2("MOV", 20, 17), Plain("NOP"), RET>>,
  jump  |-> <<Reg2("CPSE", 16, 18), Plain("JMP"), Data(7), Low(30, 10), High(30, 10),
              Plain("IJMP"), Plain("NOP"), RegK("LDI", 20, 0), If("RJMP", "C", 2),
              Plain("NOP"), RegK("LDI", 20, 1), RET>>,

  badptr |-> <<Low(26, 96), High(26, 96), Mem("LD_incr", 26, 26), RET>>,
  badend |-> <<Plain("NOP"), RegB("SBRS", 17, 8)>>
]

(* They are the program, a register is wide enough for half an address they *)
(* use, and X and Y are in memory as well as in registers, below free room.  *)
RoutinesAssumption ==
    /\ Code = Routines
    /\ Half >= 8
    /\ 96..103 \subseteq Sram
    /\ \A i \in Inputs : /\ i.mem[96] = i.x % Byte /\ i.mem[97] = i.x \div Byte
                         /\ i.mem[98] = i.y % Byte /\ i.mem[99] = i.y \div Byte

ASSUME RoutinesAssumed == RoutinesAssumption

(* The addresses of a routine's instructions, and of those the debugger     *)
(* must not replace: an instruction of two words that a skip jumps over      *)
(* would count as the one word of BREAK.                                    *)
Starts(r) == {a \in 0..(Len(Routines[r]) - 1) : Routines[r][a + 1].op # "data"}

Skips == {"CPSE", "SBRC", "SBRS"}

SkippedOver(r) ==
    {a \in Starts(r) \ {0} : /\ Routines[r][a].op \in Skips
                             /\ a + 1 \notin Starts(r)}

BreakpointsAssumption ==
    \A r \in DOMAIN Routines : \A B \in Breakpoints[r] : B \subseteq Starts(r) \ SkippedOver(r)

ASSUME BreakpointsAssumed == BreakpointsAssumption

----------------------------------------------------------------------------
X == input.x
Y == input.y
SignedWord(v) == IF v >= Word \div 2 THEN v - Word ELSE v
FitsWord(v)   == v \in (0 - Word \div 2)..(Word \div 2 - 1)
Quad(r)       == Pair(r) + Word * Pair(r + 2)
LowHalf       == Nibble * Byte
LowPart(v)    == v % LowHalf        \* the low half of the high register, and below
Copied(a)     == Byte * sram[a + 1] + sram[a]

Finished(r) == routine = r /\ ~exited /\ ProgramWord(PC) = RET

(* The number v, with the flags an exact result of two registers has: C is  *)
(* the carry or borrow, S the true sign, V that the sign does not fit.      *)
Shows(v, exact, signed) ==
    /\ v = exact % Word
    /\ ("C" \in sreg) = (exact \notin 0..(Word - 1))
    /\ ("N" \in sreg) = (v >= Word \div 2)
    /\ ("S" \in sreg) = (signed < 0)
    /\ ("V" \in sreg) = ~FitsWord(signed)

(* Z at the end of a chain is about the whole number. *)
ShowsZero(v) == ("Z" \in sreg) = (v % Word = 0)

(* Sums over two registers, by ADD and ADC, with the carry set by hand, by  *)
(* ADIW, and in a loop over memory whose counter must not touch the carry,   *)
(* are those of the integers, with all flags.                               *)
SumsRight ==
    /\ Finished("add")   => /\ Shows(Pair(16), X + Y, SignedWord(X) + SignedWord(Y))
                            /\ ("H" \in sreg) = (LowPart(X) + LowPart(Y) >= LowHalf)
    /\ Finished("plus1") => Shows(Pair(16), X + 1, SignedWord(X) + 1)
    /\ Finished("adiw")  => Shows(Pair(24), X + 3, SignedWord(X) + 3) /\ ShowsZero(Pair(24))
    /\ Finished("addm")  => /\ Copied(98) = (X + Y) % Word
                            /\ ("C" \in sreg) = (X + Y >= Word)

(* Differences over two registers, also with immediates and of negation,    *)
(* are those of the integers, and Z tells that the whole difference is zero.*)
DifferencesRight ==
    /\ Finished("sub")  => /\ Shows(Pair(16), X - Y, SignedWord(X) - SignedWord(Y))
                           /\ ShowsZero(X - Y)
                           /\ ("H" \in sreg) = (LowPart(X) < LowPart(Y))
    /\ Finished("subi") => /\ Shows(Pair(16), X - K, SignedWord(X) - K) /\ ShowsZero(X - K)
    /\ Finished("neg")  => Pair(16) = (0 - X) % Word
    /\ Finished("sbiw") => Shows(Pair(24), X - 3, SignedWord(X) - 3) /\ ShowsZero(X - 3)

(* CP and CPC leave the numbers alone and give every relation between them,  *)
(* signed and unsigned; branches on S and C choose the larger and smaller.   *)
ComparisonsRight ==
    /\ Finished("cmp")  => /\ Shows((X - Y) % Word, X - Y, SignedWord(X) - SignedWord(Y))
                           /\ ShowsZero(X - Y)
                           /\ Pair(16) = X /\ Pair(18) = Y
    /\ Finished("cmpi") => ("C" \in sreg) = (X < K) /\ ShowsZero(X - K)
    /\ Finished("max")  => Pair(16) = IF SignedWord(X) >= SignedWord(Y) THEN X ELSE Y
    /\ Finished("min")  => Pair(16) = IF X < Y THEN X ELSE Y

(* Products of four registers put together from the products of two, which  *)
(* depends on the sign each multiplication gives its operands and on its C.  *)
ProductsRight ==
    /\ Finished("mul")   => Quad(20) = X * Y
    /\ Finished("muls")  => Quad(20) = (SignedWord(X) * SignedWord(Y)) % (Word * Word)
    /\ Finished("fmuls") => Quad(20) = (2 * SignedWord(X) * SignedWord(Y)) % (Word * Word)

(* Shifts and rotations through several registers, and bits taken from two  *)
(* numbers by a mask.                                                       *)
ShiftsRight ==
    /\ Finished("lsr")  => Pair(16) = X \div 2 /\ ("C" \in sreg) = (X % 2 = 1)
    /\ Finished("asr")  => Pair(16) = (SignedWord(X) \div 2) % Word /\ ("C" \in sreg) = (X % 2 = 1)
    /\ Finished("ror")  => Pair(16) = (X \div 2) + (X % 2) * (Word \div 2)
    /\ Finished("shl")  => Pair(16) = (Nibble * X) % Word
    /\ Finished("mask") =>
         \A w \in Weights :
            Bit(gpwr[16], w) = (w = Half \/ Bit(IF Bit(Y % Byte, w) THEN X % Byte ELSE X \div Byte, w))

(* Data moved through pointers that step up and down, with displacements    *)
(* and directly, also to and from the registers as memory, arrives whole.   *)
MovesRight ==
    /\ Finished("copy") => Copied(100) = X /\ Copied(102) = Y
    /\ Finished("flip") => /\ sram[96] = Y \div Byte /\ sram[97] = Y % Byte
                           /\ sram[98] = X \div Byte /\ sram[99] = X % Byte
    /\ Finished("regs") => gpwr[20] = Y % Byte /\ gpwr[19] = X % Byte

(* Skips, on bits and on equality, execute or jump over a whole instruction: *)
(* one of the two stores, the load, the move.                               *)
SkipsRight ==
    /\ Finished("skip") =>
         LET bit8 == Bit(X \div Byte, 8)
             bit1 == Bit(Y % Byte, 1)
         IN /\ sram[100] = IF bit8 THEN X % Byte ELSE input.mem[100]
            /\ sram[101] = IF bit8 THEN input.mem[101] ELSE X % Byte
            /\ gpwr[19] = X \div Byte
            /\ gpwr[20] = IF bit1 THEN X \div Byte ELSE X % Byte
    /\ Finished("jump") => gpwr[20] = IF X % Byte = Y % Byte THEN 1 ELSE 0

(* The program counter never points at the second word of an instruction,   *)
(* whatever skips and breakpoints come together: "See if next is a two word *)
(* instruction" (decoder.c:318) is about the program's instruction.         *)
NeverInOperand == ProgramWord(PC).op # "data"

(* The clocks of a routine without data-dependent paths: skipping an         *)
(* instruction takes as long as executing it, and branching over one word    *)
(* as executing it.  Programs rely on it to take the same time on all data. *)
ClocksOf == [add |-> 2, max |-> 4, min |-> 4, mul |-> 17, copy |-> 32, skip |-> 13]

SameClocks == \A r \in DOMAIN ClocksOf : Finished(r) => CK = ClocksOf[r]
=============================================================================
