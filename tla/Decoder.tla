------------------------------ MODULE Decoder -------------------------------
(***************************************************************************)
(* The instructions of decoder.c that compute, move data and branch, one    *)
(* action for each handler, or for handlers that differ in the register     *)
(* pair they use.  Calls and the stack are in MemStack, the instructions    *)
(* that control the core in AvrCore.                                        *)
(*                                                                         *)
(* The program is one of the routines of the constant Code, run on one of   *)
(* its inputs, possibly with a software breakpoint that the debugger set    *)
(* before.  A routine ends at its RET.  Registers and the addresses of data  *)
(* memory have their numbers; a register is narrower than 8 bits.           *)
(***************************************************************************)
EXTENDS Alu, Sequences

CONSTANTS
    Code,               \* [routine |-> sequence of words]; a word is a record
                        \* of an opcode, op, and its operands, or op = "data"
    Inputs,             \* the numbers in R17:R16 and R19:R18, and in memory,
                        \* when a routine starts
    Breakpoints,        \* [routine |-> set of sets of addresses]
    Sram                \* the addresses of memory a routine uses

VARIABLES
    gpwr,               \* [0..31 -> Bytes]
    sram,               \* [Sram -> Bytes]
    sreg,               \* the flags that are set
    PC,
    CK,                 \* clocks since the routine started
    breakpoints,        \* addresses whose word is replaced by BREAK
    exited,             \* avr_error ended the simulator
    routine, input      \* history: which routine runs, on which input

DecoderAssumption ==
    Inputs \subseteq [x : 0..(Word - 1), y : 0..(Word - 1), sreg : SUBSET SregFlags,
                     mem : [Sram -> Bytes]]

ASSUME DecoderAssumed == DecoderAssumption

vars == <<gpwr, sram, sreg, PC, CK, breakpoints, exited, routine, input>>

PC_max == Len(Code[routine])

(* flash_read, of the program and under breakpoints. *)
ProgramWord(a) == Code[routine][a + 1]
FlashRead(a)   == IF a \in breakpoints THEN [op |-> "BREAK"] ELSE ProgramWord(a)

I     == FlashRead(PC)
Rd    == gpwr[I.d]
Rr    == gpwr[I.r]
Carry == IF "C" \in sreg THEN 1 ELSE 0

(* PC_set and PC_incr. *)
AdjustPC(pc) == IF pc < 0 THEN PC_max + pc ELSE IF pc >= PC_max THEN pc - PC_max ELSE pc

Fetch(op) == ~exited /\ I.op = op

Same == UNCHANGED <<breakpoints, exited, routine, input>>

(* The end of a handler: n words on, in cks clocks. *)
Continue(n, cks) == PC' = AdjustPC(PC + n) /\ CK' = CK + cks /\ Same

SetFlags(mask, flags) == sreg' = (sreg \ mask) \cup flags

(* A handler that writes register Rd and the flags of mask, in one clock. *)
RegisterOp(op, res, mask, flags) ==
    /\ Fetch(op)
    /\ gpwr' = [gpwr EXCEPT ![I.d] = res]
    /\ SetFlags(mask, flags)
    /\ Continue(1, 1)
    /\ UNCHANGED sram

(* One that writes only flags, and one that writes only registers. *)
FlagOp(op, mask, flags) ==
    Fetch(op) /\ SetFlags(mask, flags) /\ Continue(1, 1) /\ UNCHANGED <<gpwr, sram>>

MoveOp(op, regs, words, cks) ==
    Fetch(op) /\ gpwr' = regs /\ Continue(words, cks) /\ UNCHANGED <<sram, sreg>>

Arithmetic == {"H", "V", "N", "S", "Z", "C"}
Shift      == {"V", "N", "S", "Z", "C"}
Logic      == {"V", "N", "S", "Z"}

----------------------------------------------------------------------------
(* Arithmetic *)

avr_op_ADD == LET res == Sum(Rd, Rr, 0)
              IN RegisterOp("ADD", res, Arithmetic, AddFlags(res, Rd, Rr) \cup ZeroFlag(res))

avr_op_ADC == LET res == Sum(Rd, Rr, Carry)
              IN RegisterOp("ADC", res, Arithmetic, AddFlags(res, Rd, Rr) \cup ZeroFlag(res))

avr_op_SUB == LET res == Diff(Rd, Rr, 0)
              IN RegisterOp("SUB", res, Arithmetic, SubFlags(res, Rd, Rr) \cup ZeroFlag(res))

avr_op_SUBI == LET res == Diff(Rd, I.K, 0)
               IN RegisterOp("SUBI", res, Arithmetic, SubFlags(res, Rd, I.K) \cup ZeroFlag(res))

(* As below, for the last result alone. *)
ChainedZero_LastOnly(res) == On("Z", res = 0)

(* Z stays set only if it was: the result of the whole chain is zero. *)
ChainedZero(res) == On("Z", res = 0 /\ "Z" \in sreg)

avr_op_SBC == LET res == Diff(Rd, Rr, Carry)
              IN RegisterOp("SBC", res, Arithmetic, SubFlags(res, Rd, Rr) \cup ChainedZero(res))

avr_op_SBCI == LET res == Diff(Rd, I.K, Carry)
               IN RegisterOp("SBCI", res, Arithmetic, SubFlags(res, Rd, I.K) \cup ChainedZero(res))

avr_op_CP == LET res == Diff(Rd, Rr, 0)
             IN FlagOp("CP", Arithmetic, SubFlags(res, Rd, Rr) \cup ZeroFlag(res))

(* As below, with the carry of the operands' own bits only. *)
avr_op_CPC_NoCarry ==
    LET res == Diff(Rd, Rr, 0)
    IN FlagOp("CPC", Arithmetic, SubFlags(res, Rd, Rr) \cup ChainedZero(res))

avr_op_CPC == LET res == Diff(Rd, Rr, Carry)
              IN FlagOp("CPC", Arithmetic, SubFlags(res, Rd, Rr) \cup ChainedZero(res))

avr_op_CPI == LET res == Diff(Rd, I.K, 0)
              IN FlagOp("CPI", Arithmetic, SubFlags(res, Rd, I.K) \cup ZeroFlag(res))

avr_op_NEG ==
    LET res == Diff(0, Rd, 0)
    IN RegisterOp("NEG", res, Arithmetic,
           SignFlags(Bit(res, Half), res = Half)
           \cup On("H", Bit(res, HalfNibble) \/ Bit(Rd, HalfNibble))
           \cup On("C", res # 0) \cup ZeroFlag(res))

(* INC and DEC leave C alone: they count the turns of a loop of ADC. *)
avr_op_INC == LET res == Sum(Rd, 1, 0)
              IN RegisterOp("INC", res, Logic,
                     SignFlags(Bit(res, Half), Rd = Half - 1) \cup ZeroFlag(res))

avr_op_DEC == LET res == Diff(Rd, 1, 0)
              IN RegisterOp("DEC", res, Logic,
                     SignFlags(Bit(res, Half), Rd = Half) \cup ZeroFlag(res))

----------------------------------------------------------------------------
(* Register pairs *)

Pair(r) == gpwr[r] + Byte * gpwr[r + 1]

WithPair(regs, r, v) == [regs EXCEPT ![r] = v % Byte, ![r + 1] = v \div Byte]

WordOp(op, res, flags) ==
    /\ Fetch(op)
    /\ gpwr' = WithPair(gpwr, I.d, res)
    /\ SetFlags(Shift, flags \cup ZeroFlag(res))
    /\ Continue(1, 2)
    /\ UNCHANGED sram

avr_op_ADIW ==
    LET rdh7  == Bit(gpwr[I.d + 1], Half)
        res   == (Pair(I.d) + I.K) % Word
        res15 == Bit(res, Byte * Half)
    IN WordOp("ADIW", res, WordFlags(res, ~rdh7 /\ res15, ~res15 /\ rdh7))

avr_op_SBIW ==
    LET rdh7  == Bit(gpwr[I.d + 1], Half)
        res   == (Pair(I.d) - I.K) % Word
        res15 == Bit(res, Byte * Half)
    IN WordOp("SBIW", res, WordFlags(res, rdh7 /\ ~res15, res15 /\ ~rdh7))

(* The multiplications: res goes to R1:R0, and C is bit 15 of the product,  *)
(* before the shift of the fractional ones.                                 *)
Multiply(op, product, res) ==
    /\ Fetch(op)
    /\ gpwr' = WithPair(gpwr, 0, res)
    /\ SetFlags({"Z", "C"}, ZeroFlag(res) \cup On("C", Bit(product, Byte * Half)))
    /\ Continue(1, 2)
    /\ UNCHANGED sram

Product(op, product) == LET p == product % Word IN Multiply(op, p, p)
Fraction(op, product) == LET p == product % Word IN Multiply(op, p, (2 * p) % Word)

(* As below, as the comment of the handler has it: Rd unsigned, Rr signed. *)
avr_op_MULSU_AsCommented == Product("MULSU", Rd * Signed(Rr))

avr_op_MUL    == Product("MUL", Rd * Rr)
avr_op_MULS   == Product("MULS", Signed(Rd) * Signed(Rr))
avr_op_MULSU  == Product("MULSU", Signed(Rd) * Rr)
avr_op_FMUL   == Fraction("FMUL", Rd * Rr)
avr_op_FMULS  == Fraction("FMULS", Signed(Rd) * Signed(Rr))
avr_op_FMULSU == Fraction("FMULSU", Signed(Rd) * Rr)

----------------------------------------------------------------------------
(* Logic, shifts and single bits *)

LogicOp(op, res) == RegisterOp(op, res, Logic, LogicFlags(res) \cup ZeroFlag(res))

And(a, b) == WithBits(BitsOf(a) \cap BitsOf(b))
Or(a, b)  == WithBits(BitsOf(a) \cup BitsOf(b))
Xor(a, b) == WithBits((BitsOf(a) \cup BitsOf(b)) \ (BitsOf(a) \cap BitsOf(b)))

avr_op_AND  == LogicOp("AND", And(Rd, Rr))
avr_op_ANDI == LogicOp("ANDI", And(Rd, I.K))
avr_op_OR   == LogicOp("OR", Or(Rd, Rr))
avr_op_ORI  == LogicOp("ORI", Or(Rd, I.K))
avr_op_EOR  == LogicOp("EOR", Xor(Rd, Rr))

avr_op_COM == LET res == (Byte - 1) - Rd
              IN RegisterOp("COM", res, Shift, LogicFlags(res) \cup {"C"} \cup ZeroFlag(res))

ShiftOp(op, res) == RegisterOp(op, res, Shift, ShiftFlags(res, Rd) \cup ZeroFlag(res))

(* As below, an arithmetic shift in the place of the rotation. *)
avr_op_ROR_NoCarry == ShiftOp("ROR", (Rd \div 2) + (IF Bit(Rd, Half) THEN Half ELSE 0))

avr_op_LSR == ShiftOp("LSR", Rd \div 2)
avr_op_ASR == ShiftOp("ASR", (Rd \div 2) + (IF Bit(Rd, Half) THEN Half ELSE 0))
avr_op_ROR == ShiftOp("ROR", (Rd \div 2) + Carry * Half)

avr_op_SWAP ==
    MoveOp("SWAP", [gpwr EXCEPT ![I.d] = ((Rd * Nibble) % Byte) + (Rd \div Nibble)], 1, 1)

avr_op_BSET == FlagOp("BSET", {}, {I.s})
avr_op_BCLR == FlagOp("BCLR", {I.s}, {})
avr_op_BST  == FlagOp("BST", {"T"}, On("T", Bit(Rd, I.w)))

avr_op_BLD ==
    LET cleared == IF Bit(Rd, I.w) THEN Rd - I.w ELSE Rd
    IN MoveOp("BLD", [gpwr EXCEPT ![I.d] =
                         IF "T" \in sreg THEN cleared + I.w ELSE cleared], 1, 1)

avr_op_NOP  == MoveOp("NOP", gpwr, 1, 1)
avr_op_MOV  == MoveOp("MOV", [gpwr EXCEPT ![I.d] = Rr], 1, 1)
avr_op_MOVW == MoveOp("MOVW", WithPair(gpwr, I.d, Pair(I.r)), 1, 1)
avr_op_LDI  == MoveOp("LDI", [gpwr EXCEPT ![I.d] = I.K], 1, 1)

----------------------------------------------------------------------------
(* Data memory.  The registers are its first addresses; an address without  *)
(* a device reads as zero and ignores writes.  No routine reaches an I/O     *)
(* register this way.                                                       *)

MemRead(regs, a) == IF a \in 0..31 THEN regs[a] ELSE IF a \in Sram THEN sram[a] ELSE 0

(* Register Rd becomes what regs and sram hold at address a. *)
Load(op, regs, a, words) ==
    MoveOp(op, [regs EXCEPT ![I.d] = MemRead(regs, a)], words, 2)

(* The registers after register Rd was stored at address a. *)
Stored(regs, a) == IF a \in 0..31 THEN [regs EXCEPT ![a] = regs[I.d]] ELSE regs

Store(op, regs, a, words) ==
    /\ Fetch(op)
    /\ gpwr' = regs
    /\ sram' = IF a \in Sram THEN [sram EXCEPT ![a] = gpwr[I.d]] ELSE sram
    /\ Continue(words, 2)
    /\ UNCHANGED sreg

(* I.p is the low register of the pointer: 26 for X, 28 for Y, 30 for Z.    *)
(* The handlers that change the pointer refuse it as Rd.                    *)
Wrapped(a) == a % Word
RdInPointer == I.op \in {"LD_incr", "LD_decr", "ST_incr", "ST_decr"} /\ I.d \in {I.p, I.p + 1}

avr_op_LD_X == I.op = "LD_X" /\ Load("LD_X", gpwr, Pair(26), 1)
avr_op_LDD  == I.op = "LDD" /\ Load("LDD", gpwr, Pair(I.p) + I.q, 1)
avr_op_ST_X == I.op = "ST_X" /\ Store("ST_X", Stored(gpwr, Pair(26)), Pair(26), 1)
avr_op_STD  == I.op = "STD" /\ LET a == Pair(I.p) + I.q IN Store("STD", Stored(gpwr, a), a, 1)

avr_op_LD_incr ==
    /\ I.op = "LD_incr" /\ ~RdInPointer
    /\ LET a == Pair(I.p)
           loaded == [gpwr EXCEPT ![I.d] = MemRead(gpwr, a)]
       IN MoveOp("LD_incr", WithPair(loaded, I.p, Wrapped(a + 1)), 1, 2)

(* As below, with the address before the decrement. *)
avr_op_LD_decr_Late ==
    /\ I.op = "LD_decr" /\ ~RdInPointer
    /\ Load("LD_decr", WithPair(gpwr, I.p, Wrapped(Pair(I.p) - 1)), Pair(I.p), 1)

avr_op_LD_decr ==
    /\ I.op = "LD_decr" /\ ~RdInPointer
    /\ LET a == Wrapped(Pair(I.p) - 1)
       IN Load("LD_decr", WithPair(gpwr, I.p, a), a, 1)

avr_op_ST_incr ==
    /\ I.op = "ST_incr" /\ ~RdInPointer
    /\ LET a == Pair(I.p)
       IN Store("ST_incr", WithPair(Stored(gpwr, a), I.p, Wrapped(a + 1)), a, 1)

avr_op_ST_decr ==
    /\ I.op = "ST_decr" /\ ~RdInPointer
    /\ LET a == Wrapped(Pair(I.p) - 1)
       IN Store("ST_decr", Stored(WithPair(gpwr, I.p, a), a), a, 1)

----------------------------------------------------------------------------
(* Two words, jumps, branches and skips *)

NextWordInFlash == PC + 1 < PC_max
Operand == FlashRead(PC + 1).k

avr_op_LDS == I.op = "LDS" /\ NextWordInFlash /\ Load("LDS", gpwr, Operand, 2)
avr_op_STS == I.op = "STS" /\ NextWordInFlash /\ Store("STS", Stored(gpwr, Operand), Operand, 2)

Jump(op, a, cks) ==
    /\ Fetch(op)
    /\ PC' = AdjustPC(a)
    /\ CK' = CK + cks
    /\ Same
    /\ UNCHANGED <<gpwr, sram, sreg>>

avr_op_JMP  == I.op = "JMP" /\ NextWordInFlash /\ Jump("JMP", Operand, 3)
avr_op_IJMP == Jump("IJMP", Pair(30), 2)

Branch(op, taken) ==
    /\ Fetch(op)
    /\ IF taken THEN Continue(I.k + 1, 2) ELSE Continue(1, 1)
    /\ UNCHANGED <<gpwr, sram, sreg>>

avr_op_RJMP == Branch("RJMP", TRUE)
avr_op_BRBS == Branch("BRBS", I.s \in sreg)
avr_op_BRBC == Branch("BRBC", I.s \notin sreg)

(* As below, without the loads and stores. *)
is_next_inst_2_words_JumpsOnly == FlashRead(PC + 1).op \in {"CALL", "JMP"}

is_next_inst_2_words == FlashRead(PC + 1).op \in {"CALL", "JMP", "LDS", "STS"}

(* As below, in one clock. *)
Skip_OneClock(op, condition) ==
    /\ Fetch(op)
    /\ NextWordInFlash
    /\ LET skip == IF is_next_inst_2_words THEN 3 ELSE 2
       IN IF condition THEN Continue(skip, 1) ELSE Continue(1, 1)
    /\ UNCHANGED <<gpwr, sram, sreg>>

Skip(op, condition) ==
    /\ Fetch(op)
    /\ NextWordInFlash
    /\ LET skip == IF is_next_inst_2_words THEN 3 ELSE 2
       IN IF condition THEN Continue(skip, skip) ELSE Continue(1, 1)
    /\ UNCHANGED <<gpwr, sram, sreg>>

(* As below, with the sense of SBRS. *)
avr_op_SBRC_Sense == Skip("SBRC", Bit(Rd, I.w))

avr_op_CPSE == Skip("CPSE", Rd = Rr)
avr_op_SBRC == Skip("SBRC", ~Bit(Rd, I.w))
avr_op_SBRS == Skip("SBRS", Bit(Rd, I.w))

(* BREAK returns to the debugger, which removes its breakpoints and later   *)
(* goes on where the program stopped.                                       *)
avr_op_BREAK ==
    /\ Fetch("BREAK")
    /\ breakpoints' = {}
    /\ UNCHANGED <<gpwr, sram, sreg, PC, CK, exited, routine, input>>

(* avr_error: a pointer that is its own operand, and flash_read beyond the  *)
(* last word, which a skip reads whether it skips or not.                   *)
Exits ==
    /\ ~exited
    /\ \/ RdInPointer
       \/ I.op \in {"CPSE", "SBRC", "SBRS", "LDS", "STS", "JMP"} /\ ~NextWordInFlash
    /\ exited' = TRUE
    /\ UNCHANGED <<gpwr, sram, sreg, PC, CK, breakpoints, routine, input>>

----------------------------------------------------------------------------
Init ==
    /\ routine \in DOMAIN Code
    /\ input \in Inputs
    /\ breakpoints \in Breakpoints[routine]
    /\ gpwr = [r \in 0..31 |->
                 CASE r = 16 -> input.x % Byte [] r = 17 -> input.x \div Byte
                   [] r = 18 -> input.y % Byte [] r = 19 -> input.y \div Byte
                   [] OTHER  -> Byte - 1]
    /\ sram = [a \in Sram |-> input.mem[a]]
    /\ sreg = input.sreg
    /\ PC = 0 /\ CK = 0 /\ exited = FALSE

Computes ==
    \/ avr_op_ADD \/ avr_op_ADC \/ avr_op_SUB \/ avr_op_SUBI \/ avr_op_SBC \/ avr_op_SBCI
    \/ avr_op_CP \/ avr_op_CPC \/ avr_op_CPI \/ avr_op_NEG \/ avr_op_INC \/ avr_op_DEC
    \/ avr_op_ADIW \/ avr_op_SBIW
    \/ avr_op_MUL \/ avr_op_MULS \/ avr_op_MULSU
    \/ avr_op_FMUL \/ avr_op_FMULS \/ avr_op_FMULSU
    \/ avr_op_AND \/ avr_op_ANDI \/ avr_op_OR \/ avr_op_ORI \/ avr_op_EOR \/ avr_op_COM
    \/ avr_op_LSR \/ avr_op_ASR \/ avr_op_ROR \/ avr_op_SWAP
    \/ avr_op_BSET \/ avr_op_BCLR \/ avr_op_BST \/ avr_op_BLD

Moves ==
    \/ avr_op_NOP \/ avr_op_MOV \/ avr_op_MOVW \/ avr_op_LDI \/ avr_op_LDS \/ avr_op_STS
    \/ avr_op_LD_X \/ avr_op_LDD \/ avr_op_LD_incr \/ avr_op_LD_decr
    \/ avr_op_ST_X \/ avr_op_STD \/ avr_op_ST_incr \/ avr_op_ST_decr

Branches ==
    \/ avr_op_JMP \/ avr_op_IJMP \/ avr_op_RJMP \/ avr_op_BRBS \/ avr_op_BRBC
    \/ avr_op_CPSE \/ avr_op_SBRC \/ avr_op_SBRS \/ avr_op_BREAK

Next == Computes \/ Moves \/ Branches \/ Exits

Spec == Init /\ [][Next]_vars
=============================================================================
