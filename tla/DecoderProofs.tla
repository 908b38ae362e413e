--------------------------- MODULE DecoderProofs ----------------------------
(***************************************************************************)
(* The flags of decoder.c, put together from bits of the operands and the   *)
(* result, are the carry, overflow and sign of the exact sum or difference; *)
(* so the routines of DecoderRoutines that chain instructions over these    *)
(* flags compute the sums, differences and relations of whole numbers, for  *)
(* registers of every width and breakpoints anywhere.  For each routine     *)
(* there is a predicate that says what holds at each of its addresses       *)
(* (AddRun...), a lemma that every step keeps it (AddRuns...), and one that *)
(* it gives the right answer at the RET (AddEnds...).  The second half is   *)
(* about the program counter: no routine runs into an operand (FlowInv); so *)
(* copies and skips do what they should, and in the same clocks on all data. *)
(* The last parts are about bits, for the routines that shift and mask, and  *)
(* about numbers of four registers, for those that multiply.                *)
(***************************************************************************)
EXTENDS DecoderRoutines, WellFoundedInduction, TLAPS

(* The size of a register, from the assumption on the constants. *)
LEMMA Widths ==
    /\ Half \in Nat /\ Half > 0
    /\ Byte \in Nat /\ Byte = 2 * Half
  BY AluAssumed DEF AluAssumption, Byte

(* The highest bit of a register. *)
LEMMA TopBit ==
    ASSUME NEW v \in Bytes
    PROVE  /\ v \in Nat /\ v < Byte
           /\ Bit(v, Half) <=> v >= Half
  <1>1. v \in Nat /\ v < Byte
    BY Widths DEF Bytes
  <1>2. v % Byte = v
    BY <1>1, Widths
  <1> QED
    BY <1>1, <1>2 DEF Bit, Byte

(* uint8_t arithmetic, when the exact result leaves the range at most once. *)
LEMMA WrapAbove ==
    ASSUME NEW n \in Nat, n < 2 * Byte
    PROVE  n % Byte = IF n < Byte THEN n ELSE n - Byte
  BY Widths

(* The same for a result below zero. *)
LEMMA WrapBelow ==
    ASSUME NEW n \in Int, n < Byte, n >= 0 - Byte
    PROVE  n % Byte = IF n >= 0 THEN n ELSE n + Byte
  BY Widths

(* What a sum of two registers and a carry is. *)
LEMMA SumIs ==
    ASSUME NEW rd \in Bytes, NEW rr \in Bytes, NEW c \in {0, 1}
    PROVE  /\ Sum(rd, rr, c) \in Bytes
           /\ Sum(rd, rr, c) = IF rd + rr + c < Byte THEN rd + rr + c ELSE rd + rr + c - Byte
  <1>1. rd + rr + c \in Nat /\ rd + rr + c < 2 * Byte
    BY TopBit, Widths
  <1> QED
    BY <1>1, WrapAbove, Widths DEF Sum, Bytes

(* And their difference. *)
LEMMA DiffIs ==
    ASSUME NEW rd \in Bytes, NEW rr \in Bytes, NEW c \in {0, 1}
    PROVE  /\ Diff(rd, rr, c) \in Bytes
           /\ Diff(rd, rr, c) = IF rd - rr - c >= 0 THEN rd - rr - c ELSE rd - rr - c + Byte
  <1>1. rd - rr - c \in Int /\ rd - rr - c < Byte /\ rd - rr - c >= 0 - Byte
    BY TopBit, Widths
  <1> QED
    BY <1>1, WrapBelow, Widths DEF Diff, Bytes

(* ADD and ADC: the result and the carry flag together are the exact sum,   *)
(* so that a chain of ADC adds numbers of any length.                       *)
THEOREM AddIsExact ==
    ASSUME NEW rd \in Bytes, NEW rr \in Bytes, NEW c \in {0, 1}
    PROVE  LET res == Sum(rd, rr, c)
           IN res + (IF get_add_carry(res, rd, rr, Half) THEN Byte ELSE 0) = rd + rr + c
  <1> DEFINE res == Sum(rd, rr, c)
  <1>1. /\ res \in Bytes
        /\ res = IF rd + rr + c < Byte THEN rd + rr + c ELSE rd + rr + c - Byte
    BY SumIs
  <1>2. get_add_carry(res, rd, rr, Half) <=>
          (rd >= Half /\ rr >= Half) \/ (rr >= Half /\ res < Half) \/ (res < Half /\ rd >= Half)
    <2>1. /\ Bit(rd, Half) <=> rd >= Half
          /\ Bit(rr, Half) <=> rr >= Half
          /\ Bit(res, Half) <=> res >= Half
          /\ res \in Nat
      BY <1>1, TopBit
    <2>2. ~Bit(res, Half) <=> res < Half
      BY <2>1, Widths
    <2> QED
      BY <2>1, <2>2 DEF get_add_carry
  <1>3. rd \in Nat /\ rr \in Nat /\ res \in Nat /\ rd < Byte /\ rr < Byte
    BY <1>1, TopBit
  <1> HIDE DEF res
  <1>4. res + (IF get_add_carry(res, rd, rr, Half) THEN Byte ELSE 0) = rd + rr + c
    BY <1>1, <1>2, <1>3, Widths
  <1> QED
    BY <1>4 DEF res

(* SUB, SBC, CP, CPC and their immediates: likewise with the borrow, so     *)
(* that a chain of SBC or CPC subtracts or compares numbers of any length.  *)
THEOREM SubIsExact ==
    ASSUME NEW rd \in Bytes, NEW rr \in Bytes, NEW c \in {0, 1}
    PROVE  LET res == Diff(rd, rr, c)
           IN res - (IF get_sub_carry(res, rd, rr, Half) THEN Byte ELSE 0) = rd - rr - c
  <1> DEFINE res == Diff(rd, rr, c)
  <1>1. /\ res \in Bytes
        /\ res = IF rd - rr - c >= 0 THEN rd - rr - c ELSE rd - rr - c + Byte
    BY DiffIs
  <1>2. get_sub_carry(res, rd, rr, Half) <=>
          (rd < Half /\ rr >= Half) \/ (rr >= Half /\ res >= Half) \/ (res >= Half /\ rd < Half)
    <2>1. /\ Bit(rd, Half) <=> rd >= Half
          /\ Bit(rr, Half) <=> rr >= Half
          /\ Bit(res, Half) <=> res >= Half
          /\ rd \in Nat
      BY <1>1, TopBit
    <2>2. ~Bit(rd, Half) <=> rd < Half
      BY <2>1, Widths
    <2> QED
      BY <2>1, <2>2 DEF get_sub_carry
  <1>3. rd \in Nat /\ rr \in Nat /\ res \in Nat /\ rd < Byte /\ rr < Byte
    BY <1>1, TopBit
  <1> HIDE DEF res
  <1>4. res - (IF get_sub_carry(res, rd, rr, Half) THEN Byte ELSE 0) = rd - rr - c
    BY <1>1, <1>2, <1>3, Widths
  <1> QED
    BY <1>4 DEF res

----------------------------------------------------------------------------
(* n is a register's value, read as two's complement. *)
SignFits(n) == n \in (0 - Half)..(Half - 1)

(* Which of the flags V and S are set. *)
LEMMA SignFlagsAre ==
    ASSUME NEW n, NEW v
    PROVE  /\ "V" \in SignFlags(n, v) <=> v
           /\ "S" \in SignFlags(n, v) <=> n # v
  BY DEF SignFlags, On

(* ADD and ADC: V tells that the sum of the signed operands does not fit in *)
(* a register, and S is the sign of that sum even when it does not.         *)
THEOREM AddSigns ==
    ASSUME NEW rd \in Bytes, NEW rr \in Bytes, NEW c \in {0, 1}
    PROVE  LET res   == Sum(rd, rr, c)
               exact == Signed(rd) + Signed(rr) + c
           IN /\ "V" \in AddFlags(res, rd, rr) <=> ~SignFits(exact)
              /\ "S" \in AddFlags(res, rd, rr) <=> exact < 0
  <1> DEFINE res   == Sum(rd, rr, c)
             exact == Signed(rd) + Signed(rr) + c
             n     == Bit(res, Half)
             v     == get_add_overflow(res, rd, rr)
  <1>1. /\ res \in Bytes
        /\ res = IF rd + rr + c < Byte THEN rd + rr + c ELSE rd + rr + c - Byte
    BY SumIs
  <1>2. /\ Bit(rd, Half) <=> rd >= Half
        /\ Bit(rr, Half) <=> rr >= Half
        /\ n <=> res >= Half
        /\ rd \in Nat /\ rr \in Nat /\ res \in Nat /\ rd < Byte /\ rr < Byte
    BY <1>1, TopBit
  <1>3. exact = (IF rd >= Half THEN rd - Byte ELSE rd)
                + (IF rr >= Half THEN rr - Byte ELSE rr) + c
    BY <1>2 DEF Signed
  <1>b. n \in BOOLEAN /\ v \in BOOLEAN
    BY DEF Bit, get_add_overflow
  <1> HIDE DEF res, n
  <1>4. v <=> ~SignFits(exact)
    <2> HIDE DEF exact
    <2>1. SignFits(exact) <=> 0 - Half <= exact /\ exact < Half
      BY <1>2, <1>3, Widths DEF SignFits
    <2>2. /\ ~Bit(rd, Half) <=> rd < Half
          /\ ~Bit(rr, Half) <=> rr < Half
          /\ ~Bit(res, Half) <=> res < Half
          /\ Bit(res, Half) <=> res >= Half
      BY <1>2, Widths DEF n
    <2>3. v <=> (\/ (rd >= Half /\ rr >= Half /\ res < Half)
                 \/ (rd < Half /\ rr < Half /\ res >= Half))
      BY <1>2, <2>2 DEF get_add_overflow
    <2> HIDE DEF v
    <2> QED
      BY <1>1, <1>2, <1>3, <2>1, <2>3, Widths
  <1>5. (n # v) <=> exact < 0
    <2>1. SignFits(exact) <=> 0 - Half <= exact /\ exact < Half
      BY <1>2, <1>3, Widths DEF SignFits
    <2> HIDE DEF exact, v
    <2>2. CASE SignFits(exact)
      <3>1. ~v
        BY <1>4, <2>2
      <3>2. n <=> exact < 0
        BY <1>1, <1>2, <1>3, <2>1, <2>2, Widths
      <3> QED
        BY <1>b, <3>1, <3>2
    <2>3. CASE ~SignFits(exact)
      <3>1. v
        BY <1>4, <2>3
      <3>2. n <=> ~(exact < 0)
        BY <1>1, <1>2, <1>3, <2>1, <2>3, Widths
      <3> QED
        BY <1>b, <3>1, <3>2
    <2> QED
      BY <2>2, <2>3
  <1>6. /\ "V" \in AddFlags(res, rd, rr) <=> v
        /\ "S" \in AddFlags(res, rd, rr) <=> n # v
    BY SignFlagsAre DEF AddFlags, n, On
  <1> QED
    BY <1>4, <1>5, <1>6 DEF res

(* SUB, SBC and the comparisons: likewise, so that the branches on S after  *)
(* CP decide signed order.                                                  *)
THEOREM SubSigns ==
    ASSUME NEW rd \in Bytes, NEW rr \in Bytes, NEW c \in {0, 1}
    PROVE  LET res   == Diff(rd, rr, c)
               exact == Signed(rd) - Signed(rr) - c
           IN /\ "V" \in SubFlags(res, rd, rr) <=> ~SignFits(exact)
              /\ "S" \in SubFlags(res, rd, rr) <=> exact < 0
  <1> DEFINE res   == Diff(rd, rr, c)
             exact == Signed(rd) - Signed(rr) - c
             n     == Bit(res, Half)
             v     == get_sub_overflow(res, rd, rr)
  <1>1. /\ res \in Bytes
        /\ res = IF rd - rr - c >= 0 THEN rd - rr - c ELSE rd - rr - c + Byte
    BY DiffIs
  <1>2. /\ Bit(rd, Half) <=> rd >= Half
        /\ Bit(rr, Half) <=> rr >= Half
        /\ n <=> res >= Half
        /\ rd \in Nat /\ rr \in Nat /\ res \in Nat /\ rd < Byte /\ rr < Byte
    BY <1>1, TopBit
  <1>3. exact = (IF rd >= Half THEN rd - Byte ELSE rd)
                - (IF rr >= Half THEN rr - Byte ELSE rr) - c
    BY <1>2 DEF Signed
  <1>b. n \in BOOLEAN /\ v \in BOOLEAN
    BY DEF Bit, get_sub_overflow
  <1> HIDE DEF res, n
  <1>4. v <=> ~SignFits(exact)
    <2> HIDE DEF exact
    <2>1. SignFits(exact) <=> 0 - Half <= exact /\ exact < Half
      BY <1>2, <1>3, Widths DEF SignFits
    <2>2. /\ ~Bit(rd, Half) <=> rd < Half
          /\ ~Bit(rr, Half) <=> rr < Half
          /\ ~Bit(res, Half) <=> res < Half
          /\ Bit(res, Half) <=> res >= Half
      BY <1>2, Widths DEF n
    <2>3. v <=> (\/ (rd >= Half /\ rr < Half /\ res < Half)
                 \/ (rd < Half /\ rr >= Half /\ res >= Half))
      BY <1>2, <2>2 DEF get_sub_overflow
    <2> HIDE DEF v
    <2> QED
      BY <1>1, <1>2, <1>3, <2>1, <2>3, Widths
  <1>5. (n # v) <=> exact < 0
    <2>1. SignFits(exact) <=> 0 - Half <= exact /\ exact < Half
      BY <1>2, <1>3, Widths DEF SignFits
    <2> HIDE DEF exact, v
    <2>2. CASE SignFits(exact)
      <3>1. ~v
        BY <1>4, <2>2
      <3>2. n <=> exact < 0
        BY <1>1, <1>2, <1>3, <2>1, <2>2, Widths
      <3> QED
        BY <1>b, <3>1, <3>2
    <2>3. CASE ~SignFits(exact)
      <3>1. v
        BY <1>4, <2>3
      <3>2. n <=> ~(exact < 0)
        BY <1>1, <1>2, <1>3, <2>1, <2>3, Widths
      <3> QED
        BY <1>b, <3>1, <3>2
    <2> QED
      BY <2>2, <2>3
  <1>6. /\ "V" \in SubFlags(res, rd, rr) <=> v
        /\ "S" \in SubFlags(res, rd, rr) <=> n # v
    BY SignFlagsAre DEF SubFlags, n, On
  <1> QED
    BY <1>4, <1>5, <1>6 DEF res

----------------------------------------------------------------------------
(* Numbers of two registers *)

(* What a quotient and a remainder are. *)
LEMMA DivMod ==
    ASSUME NEW m \in Nat \ {0}, NEW q \in Int, NEW r \in 0..(m - 1), NEW a, a = q * m + r
    PROVE  a % m = r /\ a \div m = q
  OBVIOUS

(* Every number is its quotient and remainder. *)
LEMMA Divided ==
    ASSUME NEW a \in Int, NEW m \in Nat \ {0}
    PROVE  /\ a \div m \in Int /\ a % m \in 0..(m - 1)
           /\ a = (a \div m) * m + (a % m)
  OBVIOUS

(* Words, and their half. *)
LEMMA WordIs ==
    /\ Word \in Nat /\ Word > 0 /\ Word = Byte * Byte
    /\ Word \div 2 = Byte * Half /\ Byte * Half \in Nat /\ Word = 2 * (Byte * Half)
  <1>1. Byte * Half \in Nat /\ Byte * Half > 0
    BY Widths
  <1>2. Word = 2 * (Byte * Half) /\ Word = Byte * Byte
    BY Widths DEF Word
  <1> QED BY <1>1, <1>2

(* Products are in the order of their factors. *)
LEMMA Ordered ==
    ASSUME NEW m \in Nat, NEW a \in Int, NEW b \in Int, a <= b
    PROVE  m * a <= m * b
  OBVIOUS

(* Two registers are a word, which comes apart into them. *)
LEMMA TwoDigits ==
    ASSUME NEW l \in Bytes, NEW h \in Bytes
    PROVE  LET v == l + Byte * h
           IN /\ v \in 0..(Word - 1)
              /\ v % Byte = l /\ v \div Byte = h /\ v % Word = v
              /\ v >= Word \div 2 <=> h >= Half
              /\ SignedWord(v) = l + Byte * Signed(h)
  <1> DEFINE v == l + Byte * h
  <1>1. l \in 0..(Byte - 1) /\ h \in 0..(Byte - 1) /\ h \in Int
    BY DEF Bytes
  <1>2. Byte \in Nat \ {0}
    BY Widths
  <1>3. v = h * Byte + l
    BY <1>1, <1>2
  <1>4. v % Byte = l /\ v \div Byte = h
    BY <1>1, <1>2, <1>3, DivMod
  <1>5. v \in 0..(Word - 1)
    <2>1. Byte * h <= Byte * (Byte - 1)
      BY <1>1, <1>2, Ordered
    <2>2. Byte * (Byte - 1) = Word - Byte
      BY <1>2, WordIs
    <2>3. Byte * h \in Nat
      BY <1>1, <1>2
    <2> QED BY <2>1, <2>2, <2>3, <1>1, <1>2, WordIs
  <1>6. v % Word = v
    BY <1>5, WordIs
  <1>7. v >= Word \div 2 <=> h >= Half
    <2>1. CASE h >= Half
      <3>1. Byte * Half <= Byte * h
        BY <2>1, <1>1, <1>2, Widths, Ordered
      <3> QED BY <3>1, <2>1, <1>1, <1>2, WordIs
    <2>2. CASE h < Half
      <3>1. Byte * h <= Byte * (Half - 1)
        BY <2>2, <1>1, <1>2, Widths, Ordered
      <3>2. Byte * (Half - 1) = Byte * Half - Byte
        BY <1>2, Widths
      <3> QED BY <3>1, <3>2, <2>2, <1>1, <1>2, WordIs, Widths
    <2> QED BY <2>1, <2>2, <1>1, Widths
  <1>8. SignedWord(v) = l + Byte * Signed(h)
    <2>1. Bit(h, Half) <=> h >= Half
      BY TopBit
    <2>2. Byte * (h - Byte) = Byte * h - Word
      BY <1>1, <1>2, WordIs
    <2>3. Byte * h \in Int /\ l \in Int /\ Word \in Int
      BY <1>1, <1>2, WordIs
    <2> QED BY <2>1, <2>2, <2>3, <1>7 DEF SignedWord, Signed
  <1> QED BY <1>4, <1>5, <1>6, <1>7, <1>8 DEF v

(* The registers that hold a word. *)
LEMMA Digits ==
    ASSUME NEW v \in 0..(Word - 1)
    PROVE  /\ v % Byte \in Bytes /\ v \div Byte \in Bytes
           /\ v = (v % Byte) + Byte * (v \div Byte)
  <1>1. Byte \in Nat \ {0} /\ v \in Int /\ v >= 0 /\ v < Byte * Byte
    BY Widths, WordIs
  <1>2. /\ v \div Byte \in Int /\ v % Byte \in 0..(Byte - 1)
        /\ v = (v \div Byte) * Byte + (v % Byte)
    BY <1>1, Divided
  <1> DEFINE q == v \div Byte
             r == v % Byte
  <1> HIDE DEF q, r
  <1>3. q \in Int /\ r \in 0..(Byte - 1) /\ v = q * Byte + r /\ v = r + Byte * q
    BY <1>1, <1>2 DEF q, r
  <1>4. q >= 0
    <2>1. CASE q <= 0 - 1
      <3>1. Byte * q <= Byte * (0 - 1)
        BY <2>1, <1>1, <1>3, Ordered
      <3>2. Byte * (0 - 1) = 0 - Byte /\ Byte * q \in Int
        BY <1>1, <1>3
      <3> QED BY <3>1, <3>2, <1>1, <1>3
    <2> QED BY <2>1, <1>3
  <1>5. q < Byte
    <2>1. CASE q >= Byte
      <3>1. Byte * Byte <= Byte * q
        BY <2>1, <1>1, <1>3, Ordered
      <3>2. Byte * q \in Int /\ Byte * Byte \in Int
        BY <1>1, <1>3
      <3> QED BY <3>1, <3>2, <1>1, <1>3
    <2> QED BY <2>1, <1>1, <1>3
  <1>6. r \in Bytes /\ q \in Bytes /\ v = r + Byte * q
    BY <1>1, <1>3, <1>4, <1>5 DEF Bytes
  <1> QED BY <1>6, Zenon DEF q, r

(* The carry and the borrow as the numbers the next instruction takes. *)
CarryOf(rd, rr, c)  == IF get_add_carry(Sum(rd, rr, c), rd, rr, Half) THEN 1 ELSE 0
BorrowOf(rd, rr, c) == IF get_sub_carry(Diff(rd, rr, c), rd, rr, Half) THEN 1 ELSE 0

(* The other flags of additions and subtractions. *)
LEMMA FlagsAre ==
    ASSUME NEW res, NEW rd, NEW rr
    PROVE  /\ "C" \in AddFlags(res, rd, rr) <=> get_add_carry(res, rd, rr, Half)
           /\ "H" \in AddFlags(res, rd, rr) <=> get_add_carry(res, rd, rr, HalfNibble)
           /\ "N" \in AddFlags(res, rd, rr) <=> Bit(res, Half)
           /\ "Z" \notin AddFlags(res, rd, rr)
           /\ "C" \in SubFlags(res, rd, rr) <=> get_sub_carry(res, rd, rr, Half)
           /\ "H" \in SubFlags(res, rd, rr) <=> get_sub_carry(res, rd, rr, HalfNibble)
           /\ "N" \in SubFlags(res, rd, rr) <=> Bit(res, Half)
           /\ "Z" \notin SubFlags(res, rd, rr)
  BY DEF AddFlags, SubFlags, SignFlags, On

(* A number of two digits whose low digit is one of a register has the sign *)
(* of its high one, and fits in a word when that fits in a register.        *)
LEMMA HighDecides ==
    ASSUME NEW l \in Bytes, NEW k \in Int, NEW e, e = l + Byte * k
    PROVE  /\ e \in Int
           /\ e < 0 <=> k < 0
           /\ FitsWord(e) <=> SignFits(k)
           /\ e \in 0..(Word - 1) <=> k \in 0..(Byte - 1)
  <1> DEFINE B == Byte
  <1>1. /\ B \in Nat \ {0} /\ l \in 0..(B - 1) /\ Half \in Nat \ {0}
        /\ Word \in Nat /\ Word = B * B /\ Word \div 2 = B * Half /\ B * Half \in Nat
    BY Widths, WordIs DEF Bytes
  <1>2. e \in Int /\ e = l + B * k /\ B * k \in Int
    BY <1>1
  <1> HIDE DEF B
  <1>3. \A n \in Int : k < n => B * k <= B * n - B
    <2>1. ASSUME NEW n \in Int, k < n PROVE B * k <= B * n - B
      <3>1. B * k <= B * (n - 1)
        BY <2>1, <1>1, Ordered
      <3>2. B * (n - 1) = B * n - B
        BY <2>1, <1>1
      <3> QED BY <3>1, <3>2
    <2> QED BY <2>1
  <1>4. \A n \in Int : k >= n => B * n <= B * k
    BY <1>1, Ordered
  <1>5. \A n \in Int : B * n \in Int
    BY <1>1
  <1>6. \A n \in Int : e < B * n <=> k < n
    <2>1. ASSUME NEW n \in Int PROVE e < B * n <=> k < n
      <3>1. CASE k < n
        BY <3>1, <1>1, <1>2, <1>3, <1>5
      <3>2. CASE ~(k < n)
        <4>1. B * n <= B * k /\ B * n \in Int
          BY <3>2, <1>4, <1>5
        <4> QED BY <4>1, <3>2, <1>1, <1>2
      <3> QED BY <3>1, <3>2
    <2> QED BY <2>1
  <1>7. e < 0 <=> k < 0
    <2>1. B * 0 = 0
      BY <1>1
    <2> QED BY <2>1, <1>6
  <1>8. e < Word <=> k < B
    BY <1>1, <1>6
  <1>9. e < Word \div 2 <=> k < Half
    BY <1>1, <1>6
  <1>10. e < 0 - Word \div 2 <=> k < 0 - Half
    <2>1. B * (0 - Half) = 0 - B * Half
      BY <1>1
    <2> QED BY <2>1, <1>1, <1>6
  <1>11. FitsWord(e) <=> SignFits(k)
    <2>1. FitsWord(e) <=> ~(e < 0 - Word \div 2) /\ e < Word \div 2
      BY <1>1, <1>2 DEF FitsWord
    <2>2. SignFits(k) <=> ~(k < 0 - Half) /\ k < Half
      BY <1>1 DEF SignFits
    <2> QED BY <2>1, <2>2, <1>9, <1>10
  <1>12. e \in 0..(Word - 1) <=> k \in 0..(Byte - 1)
    BY <1>1, <1>2, <1>7, <1>8 DEF B
  <1> QED BY <1>2, <1>7, <1>11, <1>12

(* Two additions, the second with the carry of the first, add words. *)
LEMMA WordsAdd ==
    ASSUME NEW x \in 0..(Word - 1), NEW y \in 0..(Word - 1), NEW c \in {0, 1},
           NEW l, l = Sum(x % Byte, y % Byte, c),
           NEW d, d = CarryOf(x % Byte, y % Byte, c),
           NEW h, h = Sum(x \div Byte, y \div Byte, d)
    PROVE  LET F == AddFlags(h, x \div Byte, y \div Byte)
               v == l + Byte * h
               e == SignedWord(x) + SignedWord(y) + c
           IN /\ l \in Bytes /\ h \in Bytes /\ d \in {0, 1}
              /\ v = (x + y + c) % Word
              /\ "C" \in F <=> x + y + c \notin 0..(Word - 1)
              /\ "N" \in F <=> v >= Word \div 2
              /\ "S" \in F <=> e < 0
              /\ "V" \in F <=> ~FitsWord(e)
  <1> DEFINE B  == Byte
             xl == x % Byte
             xh == x \div Byte
             yl == y % Byte
             yh == y \div Byte
             F  == AddFlags(h, xh, yh)
             v  == l + B * h
             e  == SignedWord(x) + SignedWord(y) + c
             f  == CarryOf(xh, yh, d)
  <1>1. /\ xl \in Bytes /\ xh \in Bytes /\ x = xl + B * xh
        /\ yl \in Bytes /\ yh \in Bytes /\ y = yl + B * yh
    BY Digits
  <1>2. /\ SignedWord(x) = xl + B * Signed(xh)
        /\ SignedWord(y) = yl + B * Signed(yh)
    <2>1. SignedWord(xl + B * xh) = xl + B * Signed(xh)
      BY <1>1, TwoDigits
    <2>2. SignedWord(yl + B * yh) = yl + B * Signed(yh)
      BY <1>1, TwoDigits
    <2> QED BY <2>1, <2>2, <1>1
  <1> HIDE DEF xl, xh, yl, yh
  <1>3. l = Sum(xl, yl, c) /\ d = CarryOf(xl, yl, c) /\ h = Sum(xh, yh, d)
    BY DEF xl, xh, yl, yh
  <1>4. d \in {0, 1} /\ f \in {0, 1}
    BY <1>3 DEF CarryOf
  <1>5. l \in Bytes /\ h \in Bytes
    BY <1>1, <1>3, <1>4, SumIs
  <1>6. l + d * B = xl + yl + c
    <2>1. l + (IF get_add_carry(l, xl, yl, Half) THEN Byte ELSE 0) = xl + yl + c
      BY <1>1, <1>3, AddIsExact
    <2>2. d = IF get_add_carry(l, xl, yl, Half) THEN 1 ELSE 0
      BY <1>3 DEF CarryOf
    <2> QED BY <2>1, <2>2, Widths
  <1>7. h + f * B = xh + yh + d
    <2>1. h + (IF get_add_carry(h, xh, yh, Half) THEN Byte ELSE 0) = xh + yh + d
      BY <1>1, <1>3, <1>4, AddIsExact
    <2>2. f = IF get_add_carry(h, xh, yh, Half) THEN 1 ELSE 0
      BY <1>3 DEF CarryOf
    <2> QED BY <2>1, <2>2, Widths
  <1>8. "C" \in F <=> f = 1
    BY <1>3, FlagsAre DEF CarryOf
  <1>9. v \in 0..(Word - 1)
    BY <1>5, TwoDigits
  <1>10. "N" \in F <=> v >= Word \div 2
    <2>1. "N" \in F <=> Bit(h, Half)
      BY FlagsAre
    <2>2. Bit(h, Half) <=> h >= Half
      BY <1>5, TopBit
    <2>3. v >= Word \div 2 <=> h >= Half
      BY <1>5, TwoDigits
    <2> HIDE DEF F, v
    <2> QED BY <2>1, <2>2, <2>3
  <1> HIDE DEF f, F
  <1>11. /\ Signed(xh) \in Int /\ Signed(yh) \in Int /\ xl \in Int /\ yl \in Int
         /\ xh \in Int /\ yh \in Int /\ l \in Int /\ h \in Int
         /\ d \in Int /\ f \in Int /\ c \in Int /\ B \in Nat \ {0}
    <2>1. \A b \in Bytes : b \in Int
      BY DEF Bytes
    <2>2. \A b \in Bytes : Signed(b) \in Int
      BY <2>1, Widths DEF Signed
    <2> QED BY <2>1, <2>2, <1>1, <1>4, <1>5, Widths
  <1>12. x + y + c = l + B * (xh + yh + d)
    BY <1>1, <1>6, <1>11
  <1>13. x + y + c = f * Word + v
    <2>1. x + y + c = l + B * (h + f * B)
      BY <1>7, <1>12
    <2>2. B * (h + f * B) = B * h + f * (B * B)
      BY <1>11
    <2>3. Word = B * B /\ B * h \in Int /\ f * (B * B) \in Int
      BY <1>11, WordIs
    <2> HIDE DEF B
    <2> QED BY <2>1, <2>2, <2>3, <1>11
  <1>v. /\ v \in Int /\ 0 <= v /\ v < Word /\ Word \in Nat \ {0}
        /\ x + y + c \in Int
    <2>1. Word \in Nat /\ Word > 0
      BY WordIs
    <2> HIDE DEF v
    <2> QED BY <2>1, <1>9, <1>11
  <1> HIDE DEF v
  <1>14. v = (x + y + c) % Word
    <2>1. v \in 0..(Word - 1)
      BY <1>v
    <2> QED BY <2>1, <1>11, <1>13, <1>v, DivMod
  <1>15. x + y + c \in 0..(Word - 1) <=> f = 0
    <2>1. CASE f = 0
      BY <2>1, <1>13, <1>v
    <2>2. CASE f = 1
      <3>1. x + y + c = Word + v
        BY <2>2, <1>13, <1>v
      <3> QED BY <3>1, <2>2, <1>v
    <2> QED BY <2>1, <2>2, <1>4
  <1> DEFINE k == Signed(xh) + Signed(yh) + d
  <1>16. e = l + B * k /\ k \in Int
    <2>1. /\ B * k = B * Signed(xh) + B * Signed(yh) + B * d
          /\ B * Signed(xh) \in Int /\ B * Signed(yh) \in Int /\ B * d \in Int
      BY <1>11
    <2>2. l + B * d = xl + yl + c
      BY <1>6, <1>11
    <2>3. e = (xl + B * Signed(xh)) + (yl + B * Signed(yh)) + c
      BY <1>2
    <2> HIDE DEF B, e
    <2>4. k \in Int
      BY <1>11
    <2> HIDE DEF k
    <2> QED BY <2>1, <2>2, <2>3, <2>4, <1>11
  <1>17. /\ "V" \in F <=> ~SignFits(k)
         /\ "S" \in F <=> k < 0
    BY <1>1, <1>3, <1>4, AddSigns DEF F
  <1>18. e < 0 <=> k < 0
    BY <1>5, <1>16, HighDecides
  <1>19. FitsWord(e) <=> SignFits(k)
    BY <1>5, <1>16, HighDecides
  <1> HIDE DEF F, v, e, f
  <1>20. "C" \in F <=> x + y + c \notin 0..(Word - 1)
    BY <1>4, <1>8, <1>15
  <1>21. ("S" \in F <=> e < 0) /\ ("V" \in F <=> ~FitsWord(e))
    BY <1>17, <1>18, <1>19
  <1> QED BY <1>4, <1>5, <1>10, <1>14, <1>20, <1>21 DEF F, v, e, xl, xh, yl, yh

(* Two subtractions, the second with the borrow of the first. *)
LEMMA WordsSub ==
    ASSUME NEW x \in 0..(Word - 1), NEW y \in 0..(Word - 1), NEW c \in {0, 1},
           NEW l, l = Diff(x % Byte, y % Byte, c),
           NEW d, d = BorrowOf(x % Byte, y % Byte, c),
           NEW h, h = Diff(x \div Byte, y \div Byte, d)
    PROVE  LET F == SubFlags(h, x \div Byte, y \div Byte)
               v == l + Byte * h
               e == SignedWord(x) - SignedWord(y) - c
           IN /\ l \in Bytes /\ h \in Bytes /\ d \in {0, 1}
              /\ v = (x - y - c) % Word
              /\ "C" \in F <=> x - y - c \notin 0..(Word - 1)
              /\ "N" \in F <=> v >= Word \div 2
              /\ "S" \in F <=> e < 0
              /\ "V" \in F <=> ~FitsWord(e)
  <1> DEFINE B  == Byte
             xl == x % Byte
             xh == x \div Byte
             yl == y % Byte
             yh == y \div Byte
             F  == SubFlags(h, xh, yh)
             v  == l + B * h
             e  == SignedWord(x) - SignedWord(y) - c
             f  == BorrowOf(xh, yh, d)
  <1>1. /\ xl \in Bytes /\ xh \in Bytes /\ x = xl + B * xh
        /\ yl \in Bytes /\ yh \in Bytes /\ y = yl + B * yh
    BY Digits
  <1>2. /\ SignedWord(x) = xl + B * Signed(xh)
        /\ SignedWord(y) = yl + B * Signed(yh)
    <2>1. SignedWord(xl + B * xh) = xl + B * Signed(xh)
      BY <1>1, TwoDigits
    <2>2. SignedWord(yl + B * yh) = yl + B * Signed(yh)
      BY <1>1, TwoDigits
    <2> QED BY <2>1, <2>2, <1>1
  <1> HIDE DEF xl, xh, yl, yh
  <1>3. l = Diff(xl, yl, c) /\ d = BorrowOf(xl, yl, c) /\ h = Diff(xh, yh, d)
    BY DEF xl, xh, yl, yh
  <1>4. d \in {0, 1} /\ f \in {0, 1}
    BY <1>3 DEF BorrowOf
  <1>5. l \in Bytes /\ h \in Bytes
    BY <1>1, <1>3, <1>4, DiffIs
  <1>6. l - d * B = xl - yl - c
    <2>1. l - (IF get_sub_carry(l, xl, yl, Half) THEN Byte ELSE 0) = xl - yl - c
      BY <1>1, <1>3, SubIsExact
    <2>2. d = IF get_sub_carry(l, xl, yl, Half) THEN 1 ELSE 0
      BY <1>3 DEF BorrowOf
    <2> QED BY <2>1, <2>2, Widths
  <1>7. h - f * B = xh - yh - d
    <2>1. h - (IF get_sub_carry(h, xh, yh, Half) THEN Byte ELSE 0) = xh - yh - d
      BY <1>1, <1>3, <1>4, SubIsExact
    <2>2. f = IF get_sub_carry(h, xh, yh, Half) THEN 1 ELSE 0
      BY <1>3 DEF BorrowOf
    <2> QED BY <2>1, <2>2, Widths
  <1>8. "C" \in F <=> f = 1
    BY <1>3, FlagsAre DEF BorrowOf
  <1>9. v \in 0..(Word - 1)
    BY <1>5, TwoDigits
  <1>10. "N" \in F <=> v >= Word \div 2
    <2>1. "N" \in F <=> Bit(h, Half)
      BY FlagsAre
    <2>2. Bit(h, Half) <=> h >= Half
      BY <1>5, TopBit
    <2>3. v >= Word \div 2 <=> h >= Half
      BY <1>5, TwoDigits
    <2> HIDE DEF F, v
    <2> QED BY <2>1, <2>2, <2>3
  <1> HIDE DEF f, F
  <1>11. /\ Signed(xh) \in Int /\ Signed(yh) \in Int /\ xl \in Int /\ yl \in Int
         /\ xh \in Int /\ yh \in Int /\ l \in Int /\ h \in Int
         /\ d \in Int /\ f \in Int /\ c \in Int /\ B \in Nat \ {0}
    <2>1. \A b \in Bytes : b \in Int
      BY DEF Bytes
    <2>2. \A b \in Bytes : Signed(b) \in Int
      BY <2>1, Widths DEF Signed
    <2> QED BY <2>1, <2>2, <1>1, <1>4, <1>5, Widths
  <1>12. x - y - c = l + B * (xh - yh - d)
    BY <1>1, <1>6, <1>11
  <1>13. x - y - c = (0 - f) * Word + v
    <2>1. x - y - c = l + B * (h - f * B)
      BY <1>7, <1>12
    <2>2. B * (h - f * B) = B * h + (0 - f) * (B * B)
      BY <1>11
    <2>3. Word = B * B /\ B * h \in Int /\ (0 - f) * (B * B) \in Int
      BY <1>11, WordIs
    <2> HIDE DEF B
    <2> QED BY <2>1, <2>2, <2>3, <1>11
  <1>v. /\ v \in Int /\ 0 <= v /\ v < Word /\ Word \in Nat \ {0}
        /\ x - y - c \in Int
    <2>1. Word \in Nat /\ Word > 0
      BY WordIs
    <2> HIDE DEF v
    <2> QED BY <2>1, <1>9, <1>11
  <1> HIDE DEF v
  <1>14. v = (x - y - c) % Word
    <2>1. v \in 0..(Word - 1) /\ 0 - f \in Int
      BY <1>v, <1>11
    <2> DEFINE q == 0 - f
               n == x - y - c
    <2>2. n = q * Word + v
      BY <1>13
    <2> HIDE DEF q, n
    <2>3. n % Word = v
      BY <2>1, <2>2, <1>v, DivMod DEF q
    <2> QED BY <2>3 DEF n
  <1>15. x - y - c \in 0..(Word - 1) <=> f = 0
    <2>1. CASE f = 0
      BY <2>1, <1>13, <1>v
    <2>2. CASE f = 1
      <3>1. x - y - c = v - Word
        BY <2>2, <1>13, <1>v
      <3> QED BY <3>1, <2>2, <1>v
    <2> QED BY <2>1, <2>2, <1>4
  <1> DEFINE k == Signed(xh) - Signed(yh) - d
  <1>16. e = l + B * k /\ k \in Int
    <2>1. /\ B * k = B * Signed(xh) - B * Signed(yh) - B * d
          /\ B * Signed(xh) \in Int /\ B * Signed(yh) \in Int /\ B * d \in Int
      BY <1>11
    <2>2. l - B * d = xl - yl - c
      BY <1>6, <1>11
    <2>3. e = (xl + B * Signed(xh)) - (yl + B * Signed(yh)) - c
      BY <1>2
    <2> HIDE DEF B, e
    <2>4. k \in Int
      BY <1>11
    <2> HIDE DEF k
    <2> QED BY <2>1, <2>2, <2>3, <2>4, <1>11
  <1>17. /\ "V" \in F <=> ~SignFits(k)
         /\ "S" \in F <=> k < 0
    BY <1>1, <1>3, <1>4, SubSigns DEF F
  <1>18. e < 0 <=> k < 0
    BY <1>5, <1>16, HighDecides
  <1>19. FitsWord(e) <=> SignFits(k)
    BY <1>5, <1>16, HighDecides
  <1> HIDE DEF F, v, e, f
  <1>20. "C" \in F <=> x - y - c \notin 0..(Word - 1)
    BY <1>4, <1>8, <1>15
  <1>21. ("S" \in F <=> e < 0) /\ ("V" \in F <=> ~FitsWord(e))
    BY <1>17, <1>18, <1>19
  <1> QED BY <1>4, <1>5, <1>10, <1>14, <1>20, <1>21 DEF F, v, e, xl, xh, yl, yh

----------------------------------------------------------------------------
(* The half carry *)

(* A register is a whole number of nibbles wide. *)
LEMMA Nibbles ==
    /\ HalfNibble \in Nat \ {0} /\ Nibble \in Nat \ {0} /\ Nibble = 2 * HalfNibble
    /\ \E n \in Nat : Byte = n * Nibble
  <1>1. HalfNibble \in Nat \ {0} /\ Half \in Nat /\ Half > 0 /\ Half % HalfNibble = 0
    BY AluAssumed DEF AluAssumption
  <1> DEFINE n == Half \div HalfNibble
  <1>2. n \in Int /\ Half = n * HalfNibble
    BY <1>1, Divided
  <1> HIDE DEF n
  <1>3. n \in Nat
    <2>1. CASE n < 0
      <3>1. HalfNibble * n <= HalfNibble * 0
        BY <2>1, <1>1, <1>2, Ordered
      <3>2. HalfNibble * 0 = 0 /\ HalfNibble * n = Half
        BY <1>1, <1>2
      <3> QED BY <3>1, <3>2, <1>1
    <2> QED BY <2>1, <1>2
  <1>4. Byte = n * Nibble
    BY <1>1, <1>2, <1>3, Widths DEF Nibble
  <1> QED BY <1>1, <1>3, <1>4 DEF Nibble

(* Adding nibbles to a number does not change its lowest one, and a number  *)
(* at most once outside a nibble leaves it.                                 *)
LEMMA LowNibble ==
    ASSUME NEW a \in Int, NEW b \in Int, NEW n \in Int, b = a + n * Nibble
    PROVE  b % Nibble = a % Nibble
  <1>1. Nibble \in Nat \ {0}
    BY Nibbles
  <1> DEFINE q == a \div Nibble
             r == a % Nibble
  <1>2. q \in Int /\ r \in 0..(Nibble - 1) /\ a = q * Nibble + r
    BY <1>1, Divided
  <1> HIDE DEF q, r
  <1>3. b = (q + n) * Nibble + r
    BY <1>1, <1>2
  <1>4. b % Nibble = r
    BY <1>1, <1>2, <1>3, DivMod
  <1> QED BY <1>4 DEF r

(* H after additions and subtractions is the carry or borrow of the low     *)
(* nibbles.                                                                 *)
LEMMA HalfCarryIsExact ==
    ASSUME NEW rd \in Bytes, NEW rr \in Bytes, NEW c \in {0, 1}
    PROVE  /\ get_add_carry(Sum(rd, rr, c), rd, rr, HalfNibble) <=>
                (rd % Nibble) + (rr % Nibble) + c >= Nibble
           /\ get_sub_carry(Diff(rd, rr, c), rd, rr, HalfNibble) <=>
                (rd % Nibble) - (rr % Nibble) - c < 0
  <1>1. /\ Nibble \in Nat \ {0} /\ HalfNibble \in Nat \ {0} /\ Nibble = 2 * HalfNibble
        /\ \E n \in Nat : Byte = n * Nibble
    BY Nibbles
  <1>2. PICK n \in Nat : Byte = n * Nibble
    BY <1>1
  <1>3. rd \in Nat /\ rr \in Nat /\ c \in Int
    BY DEF Bytes
  <1>q. /\ rd \div Nibble \in Int /\ rd = (rd \div Nibble) * Nibble + (rd % Nibble)
        /\ rr \div Nibble \in Int /\ rr = (rr \div Nibble) * Nibble + (rr % Nibble)
    <2>1. Nibble \in Nat \ {0} /\ rd \in Int /\ rr \in Int
      BY <1>1, <1>3
    <2> QED BY <2>1, Divided
  <1> DEFINE a == rd % Nibble
             b == rr % Nibble
             s == Sum(rd, rr, c) % Nibble
             t == Diff(rd, rr, c) % Nibble
  <1>4. a \in 0..(Nibble - 1) /\ b \in 0..(Nibble - 1)
    BY <1>1, <1>3
  <1>5. s = (a + b + c) % Nibble
    <2>1. PICK k \in Int : Sum(rd, rr, c) = rd + rr + c + k * Nibble
      <3>1. Sum(rd, rr, c) \in {rd + rr + c, rd + rr + c - Byte}
        BY SumIs
      <3>2. rd + rr + c = rd + rr + c + 0 * Nibble
        BY <1>1, <1>3
      <3>3. rd + rr + c - Byte = rd + rr + c + (0 - n) * Nibble
        BY <1>1, <1>2, <1>3
      <3>4. 0 - n \in Int
        OBVIOUS
      <3> QED BY <3>1, <3>2, <3>3, <3>4
    <2> DEFINE i == rd \div Nibble
               j == rr \div Nibble
    <2>2. i \in Int /\ rd = i * Nibble + a
      BY <1>q
    <2>3. j \in Int /\ rr = j * Nibble + b
      BY <1>q
    <2> HIDE DEF a, b, i, j
    <2>4. Sum(rd, rr, c) = (a + b + c) + (i + j + k) * Nibble
      BY <2>1, <2>2, <2>3, <1>1, <1>3, <1>4
    <2> DEFINE u == Sum(rd, rr, c)
               e == a + b + c
               m == i + j + k
    <2>5. u \in Int /\ e \in Int /\ m \in Int /\ u = e + m * Nibble
      BY <2>2, <2>3, <2>4, <1>1, <1>3, <1>4, SumIs DEF Bytes
    <2> HIDE DEF u, e, m
    <2>6. u % Nibble = e % Nibble
      BY <2>5, LowNibble
    <2> QED BY <2>6 DEF u, e
  <1>6. t = (a - b - c) % Nibble
    <2>1. PICK k \in Int : Diff(rd, rr, c) = rd - rr - c + k * Nibble
      <3>1. Diff(rd, rr, c) \in {rd - rr - c, rd - rr - c + Byte}
        BY DiffIs
      <3>2. rd - rr - c = rd - rr - c + 0 * Nibble
        BY <1>1, <1>3
      <3>3. rd - rr - c + Byte = rd - rr - c + n * Nibble
        BY <1>1, <1>2, <1>3
      <3> QED BY <3>1, <3>2, <3>3
    <2> DEFINE i == rd \div Nibble
               j == rr \div Nibble
    <2>2. i \in Int /\ rd = i * Nibble + a
      BY <1>q
    <2>3. j \in Int /\ rr = j * Nibble + b
      BY <1>q
    <2> HIDE DEF a, b, i, j
    <2>4. Diff(rd, rr, c) = (a - b - c) + (i - j + k) * Nibble
      BY <2>1, <2>2, <2>3, <1>1, <1>3, <1>4
    <2> DEFINE u == Diff(rd, rr, c)
               e == a - b - c
               m == i - j + k
    <2>5. u \in Int /\ e \in Int /\ m \in Int /\ u = e + m * Nibble
      BY <2>2, <2>3, <2>4, <1>1, <1>3, <1>4, DiffIs DEF Bytes
    <2> HIDE DEF u, e, m
    <2>6. u % Nibble = e % Nibble
      BY <2>5, LowNibble
    <2> QED BY <2>6 DEF u, e
  <1>7. /\ Bit(rd, HalfNibble) <=> a >= HalfNibble
        /\ Bit(rr, HalfNibble) <=> b >= HalfNibble
        /\ Bit(Sum(rd, rr, c), HalfNibble) <=> s >= HalfNibble
        /\ Bit(Diff(rd, rr, c), HalfNibble) <=> t >= HalfNibble
    BY DEF Bit, Nibble
  <1> HIDE DEF a, b, s, t
  <1>8. /\ get_add_carry(Sum(rd, rr, c), rd, rr, HalfNibble) <=>
             \/ a >= HalfNibble /\ b >= HalfNibble
             \/ b >= HalfNibble /\ ~(s >= HalfNibble)
             \/ ~(s >= HalfNibble) /\ a >= HalfNibble
        /\ get_sub_carry(Diff(rd, rr, c), rd, rr, HalfNibble) <=>
             \/ ~(a >= HalfNibble) /\ b >= HalfNibble
             \/ b >= HalfNibble /\ t >= HalfNibble
             \/ t >= HalfNibble /\ ~(a >= HalfNibble)
    BY <1>7 DEF get_add_carry, get_sub_carry
  <1>9. /\ s = IF a + b + c < Nibble THEN a + b + c ELSE a + b + c - Nibble
        /\ t = IF a - b - c >= 0 THEN a - b - c ELSE a - b - c + Nibble
    BY <1>1, <1>3, <1>4, <1>5, <1>6
  <1>10. get_add_carry(Sum(rd, rr, c), rd, rr, HalfNibble) <=> a + b + c >= Nibble
    BY <1>1, <1>4, <1>8, <1>9
  <1>11. get_sub_carry(Diff(rd, rr, c), rd, rr, HalfNibble) <=> a - b - c < 0
    BY <1>1, <1>4, <1>8, <1>9
  <1> QED BY <1>10, <1>11, Zenon DEF a, b

(* The low half of the high register, with the low register. *)
LEMMA LowPartIs ==
    ASSUME NEW x \in 0..(Word - 1)
    PROVE  /\ LowPart(x) = (x % Byte) + Byte * ((x \div Byte) % Nibble)
           /\ x % Byte \in Bytes /\ (x \div Byte) % Nibble \in 0..(Nibble - 1)
  <1> DEFINE B == Byte
             l == x % Byte
             h == x \div Byte
             r == h % Nibble
             q == h \div Nibble
  <1>1. /\ Nibble \in Nat \ {0} /\ B \in Nat \ {0} /\ LowHalf = B * Nibble
        /\ LowHalf \in Nat \ {0}
    BY Nibbles, Widths DEF LowHalf, Nibble
  <1>2. l \in 0..(B - 1) /\ h \in Int /\ x = l + B * h
    BY Digits DEF Bytes
  <1> HIDE DEF l, h
  <1>3. q \in Int /\ r \in 0..(Nibble - 1) /\ h = q * Nibble + r
    BY <1>1, <1>2, Divided
  <1> HIDE DEF q, r
  <1>4. x = q * LowHalf + (l + B * r)
    <2>1. B * (q * Nibble + r) = q * (B * Nibble) + B * r
      BY <1>1, <1>3
    <2>2. q * (B * Nibble) \in Int /\ B * r \in Int /\ l \in Int
      BY <1>1, <1>2, <1>3
    <2>3. x = l + B * (q * Nibble + r)
      BY <1>2, <1>3
    <2> HIDE DEF B
    <2> QED BY <2>1, <2>2, <2>3, <1>1
  <1>5. l + B * r \in 0..(LowHalf - 1)
    <2>1. B * r <= B * (Nibble - 1)
      BY <1>1, <1>3, Ordered
    <2>2. B * (Nibble - 1) = LowHalf - B
      BY <1>1
    <2>3. B * 0 <= B * r /\ B * 0 = 0 /\ B * r \in Int
      BY <1>1, <1>3, Ordered
    <2> HIDE DEF B
    <2> QED BY <2>1, <2>2, <2>3, <1>1, <1>2
  <1> DEFINE u == l + B * r
  <1>6. u \in 0..(LowHalf - 1) /\ x = q * LowHalf + u
    BY <1>4, <1>5
  <1> HIDE DEF u
  <1>7. x % LowHalf = u
    <2>1. LowHalf \in Nat \ {0} /\ q \in Int
      BY <1>1, <1>3
    <2> QED BY <2>1, <1>6, DivMod
  <1>8. l \in Bytes
    BY <1>2 DEF Bytes
  <1> QED BY <1>3, <1>7, <1>8, Zenon DEF LowPart, u, l, h, r

(* H after two additions or subtractions is that of the low parts. *)
LEMMA WordsHalfCarry ==
    ASSUME NEW x \in 0..(Word - 1), NEW y \in 0..(Word - 1)
    PROVE  LET xh == x \div Byte
               yh == y \div Byte
               d  == CarryOf(x % Byte, y % Byte, 0)
               b  == BorrowOf(x % Byte, y % Byte, 0)
           IN /\ get_add_carry(Sum(xh, yh, d), xh, yh, HalfNibble) <=>
                      LowPart(x) + LowPart(y) >= LowHalf
              /\ get_sub_carry(Diff(xh, yh, b), xh, yh, HalfNibble) <=>
                      LowPart(x) < LowPart(y)
  <1> DEFINE B  == Byte
             xl == x % Byte
             xh == x \div Byte
             yl == y % Byte
             yh == y \div Byte
             d  == CarryOf(xl, yl, 0)
             b  == BorrowOf(xl, yl, 0)
             l  == Sum(xl, yl, 0)
             k  == Diff(xl, yl, 0)
             p  == xh % Nibble
             q  == yh % Nibble
  <1>1. /\ xl \in Bytes /\ xh \in Bytes /\ yl \in Bytes /\ yh \in Bytes
        /\ LowPart(x) = xl + B * p /\ LowPart(y) = yl + B * q
        /\ p \in 0..(Nibble - 1) /\ q \in 0..(Nibble - 1)
    BY Digits, LowPartIs
  <1> HIDE DEF xl, xh, yl, yh, p, q
  <1>2. d \in {0, 1} /\ b \in {0, 1} /\ 0 \in {0, 1}
    BY DEF CarryOf, BorrowOf
  <1>3. l \in Bytes /\ k \in Bytes
    BY <1>1, <1>2, SumIs, DiffIs
  <1>4. l + d * B = xl + yl
    <2>1. l + (IF get_add_carry(l, xl, yl, Half) THEN Byte ELSE 0) = xl + yl + 0
      BY <1>1, <1>2, AddIsExact
    <2>2. d = IF get_add_carry(l, xl, yl, Half) THEN 1 ELSE 0
      BY DEF CarryOf
    <2>3. xl \in Int /\ yl \in Int
      BY <1>1 DEF Bytes
    <2> HIDE DEF d, l
    <2> QED BY <2>1, <2>2, <2>3, Widths
  <1>5. k - b * B = xl - yl
    <2>1. k - (IF get_sub_carry(k, xl, yl, Half) THEN Byte ELSE 0) = xl - yl - 0
      BY <1>1, <1>2, SubIsExact
    <2>2. b = IF get_sub_carry(k, xl, yl, Half) THEN 1 ELSE 0
      BY DEF BorrowOf
    <2>3. xl \in Int /\ yl \in Int
      BY <1>1 DEF Bytes
    <2> HIDE DEF b, k
    <2> QED BY <2>1, <2>2, <2>3, Widths
  <1>6. /\ get_add_carry(Sum(xh, yh, d), xh, yh, HalfNibble) <=> p + q + d >= Nibble
        /\ get_sub_carry(Diff(xh, yh, b), xh, yh, HalfNibble) <=> p - q - b < 0
    <2> HIDE DEF d, b
    <2>1. get_add_carry(Sum(xh, yh, d), xh, yh, HalfNibble) <=>
             (xh % Nibble) + (yh % Nibble) + d >= Nibble
      BY <1>1, <1>2, HalfCarryIsExact
    <2>2. get_sub_carry(Diff(xh, yh, b), xh, yh, HalfNibble) <=>
             (xh % Nibble) - (yh % Nibble) - b < 0
      BY <1>1, <1>2, HalfCarryIsExact
    <2> QED BY <2>1, <2>2, Zenon DEF p, q
  <1> HIDE DEF d, b, l, k
  <1>7. /\ Nibble \in Nat /\ B \in Nat \ {0} /\ LowHalf = B * Nibble
        /\ l \in Int /\ k \in Int /\ xl \in Int /\ yl \in Int
        /\ p \in Int /\ q \in Int /\ d \in Int /\ b \in Int
        /\ B * p \in Int /\ B * q \in Int /\ B * Nibble \in Int
        /\ B * d \in Int /\ B * b \in Int
    BY <1>1, <1>2, <1>3, Nibbles, Widths DEF LowHalf, Nibble, Bytes
  <1> DEFINE e == (LowPart(x) + LowPart(y)) - LowHalf
             g == LowPart(x) - LowPart(y)
             m == p + q + d - Nibble
             n == p - q - b
  <1>8. e = l + B * m
    <2>1. B * (p + q + d - Nibble) = B * p + B * q + B * d - B * Nibble
      BY <1>7
    <2>2. l + B * d = xl + yl
      BY <1>4, <1>7
    <2>3. LowPart(x) + LowPart(y) = xl + B * p + yl + B * q
      BY <1>1, <1>7
    <2>4. (LowPart(x) + LowPart(y)) - LowHalf =
             (xl + B * p + yl + B * q) - B * Nibble
      <3>1. LowHalf = B * Nibble
        BY <1>7
      <3> QED BY <2>3, <3>1, Zenon
    <2> HIDE DEF B
    <2>5. (xl + B * p + yl + B * q) - B * Nibble =
             l + (B * p + B * q + B * d - B * Nibble)
      BY <2>2, <1>7
    <2> QED BY <2>1, <2>4, <2>5
  <1>9. g = k + B * n
    <2>1. B * (p - q - b) = B * p - B * q - B * b
      BY <1>7
    <2>2. k - B * b = xl - yl
      BY <1>5, <1>7
    <2>3. LowPart(x) - LowPart(y) = xl + B * p - yl - B * q
      BY <1>1, <1>7
    <2> HIDE DEF B
    <2> QED BY <2>1, <2>2, <2>3, <1>7
  <1>12. LowPart(x) \in Int /\ LowPart(y) \in Int /\ LowHalf \in Int
    BY <1>1, <1>7
  <1>14. m \in Int /\ n \in Int
    BY <1>7
  <1> HIDE DEF e, g, m, n
  <1>10. e < 0 <=> m < 0
    BY <1>3, <1>8, <1>14, HighDecides
  <1>11. g < 0 <=> n < 0
    BY <1>3, <1>9, <1>14, HighDecides
  <1>13. /\ LowPart(x) + LowPart(y) >= LowHalf <=> p + q + d >= Nibble
         /\ LowPart(x) < LowPart(y) <=> p - q - b < 0
    <2>1. p \in Int /\ q \in Int /\ d \in Int /\ b \in Int /\ Nibble \in Int
      BY <1>7
    <2> QED BY <2>1, <1>10, <1>11, <1>12 DEF e, g, m, n
  <1> QED BY <1>6, <1>13, Zenon DEF xl, xh, yl, yh, d, b

----------------------------------------------------------------------------
(* Which handler runs *)

(* Nothing but the breakpoints and the end of the simulator changes. *)
Paused == UNCHANGED <<gpwr, sram, sreg, PC, CK, routine, input>>

(* The handler of the opcode runs. *)
Dispatched ==
    \/ (I.op = "ADD" /\ avr_op_ADD)         \/ (I.op = "ADC" /\ avr_op_ADC)
    \/ (I.op = "SUB" /\ avr_op_SUB)         \/ (I.op = "SUBI" /\ avr_op_SUBI)
    \/ (I.op = "SBC" /\ avr_op_SBC)         \/ (I.op = "SBCI" /\ avr_op_SBCI)
    \/ (I.op = "CP" /\ avr_op_CP)           \/ (I.op = "CPC" /\ avr_op_CPC)
    \/ (I.op = "CPI" /\ avr_op_CPI)         \/ (I.op = "NEG" /\ avr_op_NEG)
    \/ (I.op = "INC" /\ avr_op_INC)         \/ (I.op = "DEC" /\ avr_op_DEC)
    \/ (I.op = "ADIW" /\ avr_op_ADIW)       \/ (I.op = "SBIW" /\ avr_op_SBIW)
    \/ (I.op = "MUL" /\ avr_op_MUL)         \/ (I.op = "MULS" /\ avr_op_MULS)
    \/ (I.op = "MULSU" /\ avr_op_MULSU)     \/ (I.op = "FMUL" /\ avr_op_FMUL)
    \/ (I.op = "FMULS" /\ avr_op_FMULS)     \/ (I.op = "FMULSU" /\ avr_op_FMULSU)
    \/ (I.op = "AND" /\ avr_op_AND)         \/ (I.op = "ANDI" /\ avr_op_ANDI)
    \/ (I.op = "OR" /\ avr_op_OR)           \/ (I.op = "ORI" /\ avr_op_ORI)
    \/ (I.op = "EOR" /\ avr_op_EOR)         \/ (I.op = "COM" /\ avr_op_COM)
    \/ (I.op = "LSR" /\ avr_op_LSR)         \/ (I.op = "ASR" /\ avr_op_ASR)
    \/ (I.op = "ROR" /\ avr_op_ROR)         \/ (I.op = "SWAP" /\ avr_op_SWAP)
    \/ (I.op = "BSET" /\ avr_op_BSET)       \/ (I.op = "BCLR" /\ avr_op_BCLR)
    \/ (I.op = "BST" /\ avr_op_BST)         \/ (I.op = "BLD" /\ avr_op_BLD)
    \/ (I.op = "NOP" /\ avr_op_NOP)         \/ (I.op = "MOV" /\ avr_op_MOV)
    \/ (I.op = "MOVW" /\ avr_op_MOVW)       \/ (I.op = "LDI" /\ avr_op_LDI)
    \/ (I.op = "LDS" /\ avr_op_LDS)         \/ (I.op = "STS" /\ avr_op_STS)
    \/ (I.op = "LD_X" /\ avr_op_LD_X)       \/ (I.op = "LDD" /\ avr_op_LDD)
    \/ (I.op = "LD_incr" /\ avr_op_LD_incr) \/ (I.op = "LD_decr" /\ avr_op_LD_decr)
    \/ (I.op = "ST_X" /\ avr_op_ST_X)       \/ (I.op = "STD" /\ avr_op_STD)
    \/ (I.op = "ST_incr" /\ avr_op_ST_incr) \/ (I.op = "ST_decr" /\ avr_op_ST_decr)
    \/ (I.op = "JMP" /\ avr_op_JMP)         \/ (I.op = "IJMP" /\ avr_op_IJMP)
    \/ (I.op = "RJMP" /\ avr_op_RJMP)       \/ (I.op = "BRBS" /\ avr_op_BRBS)
    \/ (I.op = "BRBC" /\ avr_op_BRBC)       \/ (I.op = "CPSE" /\ avr_op_CPSE)
    \/ (I.op = "SBRC" /\ avr_op_SBRC)       \/ (I.op = "SBRS" /\ avr_op_SBRS)
    \/ (I.op = "BREAK" /\ avr_op_BREAK)

(* Next has no step but the handlers, each guarded by its opcode, and pauses. *)
LEMMA EveryHandlerIsDispatched ==
    ASSUME Next
    PROVE  Dispatched \/ Exits
  <1>1. /\ avr_op_ADD => I.op = "ADD"
        /\ avr_op_ADC => I.op = "ADC"
        /\ avr_op_SUB => I.op = "SUB"
        /\ avr_op_SUBI => I.op = "SUBI"
        /\ avr_op_SBC => I.op = "SBC"
        /\ avr_op_SBCI => I.op = "SBCI"
        /\ avr_op_CP => I.op = "CP"
        /\ avr_op_CPC => I.op = "CPC"
        /\ avr_op_CPI => I.op = "CPI"
        /\ avr_op_NEG => I.op = "NEG"
        /\ avr_op_INC => I.op = "INC"
        /\ avr_op_DEC => I.op = "DEC"
    BY Zenon DEF avr_op_ADD, avr_op_ADC, avr_op_SUB, avr_op_SUBI, avr_op_SBC,
       avr_op_SBCI, avr_op_CP, avr_op_CPC, avr_op_CPI, avr_op_NEG,
       avr_op_INC, avr_op_DEC, Product, Fraction, Multiply, RegisterOp,
       FlagOp, MoveOp, WordOp, LogicOp, ShiftOp, Load, Store, Jump, Branch,
       Skip, Fetch
  <1>2. /\ avr_op_ADIW => I.op = "ADIW"
        /\ avr_op_SBIW => I.op = "SBIW"
        /\ avr_op_MUL => I.op = "MUL"
        /\ avr_op_MULS => I.op = "MULS"
        /\ avr_op_MULSU => I.op = "MULSU"
        /\ avr_op_FMUL => I.op = "FMUL"
        /\ avr_op_FMULS => I.op = "FMULS"
        /\ avr_op_FMULSU => I.op = "FMULSU"
        /\ avr_op_AND => I.op = "AND"
        /\ avr_op_ANDI => I.op = "ANDI"
        /\ avr_op_OR => I.op = "OR"
        /\ avr_op_ORI => I.op = "ORI"
    BY Zenon DEF avr_op_ADIW, avr_op_SBIW, avr_op_MUL, avr_op_MULS, avr_op_MULSU,
       avr_op_FMUL, avr_op_FMULS, avr_op_FMULSU, avr_op_AND, avr_op_ANDI,
       avr_op_OR, avr_op_ORI, Product, Fraction, Multiply, RegisterOp,
       FlagOp, MoveOp, WordOp, LogicOp, ShiftOp, Load, Store, Jump, Branch,
       Skip, Fetch
  <1>3. /\ avr_op_EOR => I.op = "EOR"
        /\ avr_op_COM => I.op = "COM"
        /\ avr_op_LSR => I.op = "LSR"
        /\ avr_op_ASR => I.op = "ASR"
        /\ avr_op_ROR => I.op = "ROR"
        /\ avr_op_SWAP => I.op = "SWAP"
        /\ avr_op_BSET => I.op = "BSET"
        /\ avr_op_BCLR => I.op = "BCLR"
        /\ avr_op_BST => I.op = "BST"
        /\ avr_op_BLD => I.op = "BLD"
    BY Zenon DEF avr_op_EOR, avr_op_COM, avr_op_LSR, avr_op_ASR, avr_op_ROR,
       avr_op_SWAP, avr_op_BSET, avr_op_BCLR, avr_op_BST, avr_op_BLD,
       Product, Fraction, Multiply, RegisterOp, FlagOp, MoveOp, WordOp,
       LogicOp, ShiftOp, Load, Store, Jump, Branch, Skip, Fetch
  <1>4. /\ avr_op_NOP => I.op = "NOP"
        /\ avr_op_MOV => I.op = "MOV"
        /\ avr_op_MOVW => I.op = "MOVW"
        /\ avr_op_LDI => I.op = "LDI"
        /\ avr_op_LDS => I.op = "LDS"
        /\ avr_op_STS => I.op = "STS"
        /\ avr_op_LD_X => I.op = "LD_X"
        /\ avr_op_LDD => I.op = "LDD"
        /\ avr_op_LD_incr => I.op = "LD_incr"
        /\ avr_op_LD_decr => I.op = "LD_decr"
        /\ avr_op_ST_X => I.op = "ST_X"
        /\ avr_op_STD => I.op = "STD"
    BY Zenon DEF avr_op_NOP, avr_op_MOV, avr_op_MOVW, avr_op_LDI, avr_op_LDS,
       avr_op_STS, avr_op_LD_X, avr_op_LDD, avr_op_LD_incr, avr_op_LD_decr,
       avr_op_ST_X, avr_op_STD, Product, Fraction, Multiply, RegisterOp,
       FlagOp, MoveOp, WordOp, LogicOp, ShiftOp, Load, Store, Jump, Branch,
       Skip, Fetch
  <1>5. /\ avr_op_ST_incr => I.op = "ST_incr"
        /\ avr_op_ST_decr => I.op = "ST_decr"
    BY Zenon DEF avr_op_ST_incr, avr_op_ST_decr, Product, Fraction, Multiply,
       RegisterOp, FlagOp, MoveOp, WordOp, LogicOp, ShiftOp, Load, Store,
       Jump, Branch, Skip, Fetch
  <1>6. /\ avr_op_JMP => I.op = "JMP"
        /\ avr_op_IJMP => I.op = "IJMP"
        /\ avr_op_RJMP => I.op = "RJMP"
        /\ avr_op_BRBS => I.op = "BRBS"
        /\ avr_op_BRBC => I.op = "BRBC"
        /\ avr_op_CPSE => I.op = "CPSE"
        /\ avr_op_SBRC => I.op = "SBRC"
        /\ avr_op_SBRS => I.op = "SBRS"
        /\ avr_op_BREAK => I.op = "BREAK"
    BY Zenon DEF avr_op_JMP, avr_op_IJMP, avr_op_RJMP, avr_op_BRBS, avr_op_BRBC,
       avr_op_CPSE, avr_op_SBRC, avr_op_SBRS, avr_op_BREAK, Product,
       Fraction, Multiply, RegisterOp, FlagOp, MoveOp, WordOp, LogicOp,
       ShiftOp, Load, Store, Jump, Branch, Skip, Fetch
  <1>7. Computes => Dispatched
    BY <1>1, <1>2, <1>3, Zenon DEF Computes, Dispatched
  <1>8. Moves => Dispatched
    BY <1>4, <1>5, Zenon DEF Moves, Dispatched
  <1>9. Branches => Dispatched
    BY <1>6, Zenon DEF Branches, Dispatched
  <1> QED BY <1>7, <1>8, <1>9 DEF Next

(* A step leaves the breakpoints and what is to be computed as they are,     *)
(* but for a BREAK and for the end of the simulator.                        *)
LEMMA SameOrBreak ==
    ASSUME Next
    PROVE  Same \/ avr_op_BREAK \/ Exits
  <1>2. ASSUME Computes PROVE Same
    BY <1>2, Zenon DEF Computes, avr_op_ADD, avr_op_ADC, avr_op_SUB, avr_op_SUBI,
       avr_op_SBC, avr_op_SBCI, avr_op_CP, avr_op_CPC, avr_op_CPI, avr_op_NEG,
       avr_op_INC, avr_op_DEC, avr_op_ADIW, avr_op_SBIW, avr_op_MUL, avr_op_MULS,
       avr_op_MULSU, avr_op_FMUL, avr_op_FMULS, avr_op_FMULSU, avr_op_AND, avr_op_ANDI,
       avr_op_OR, avr_op_ORI, avr_op_EOR, avr_op_COM, avr_op_LSR, avr_op_ASR,
       avr_op_ROR, avr_op_SWAP, avr_op_BSET, avr_op_BCLR, avr_op_BST, avr_op_BLD,
       Product, Fraction, Multiply, RegisterOp, FlagOp, MoveOp, WordOp, LogicOp,
       ShiftOp, Continue
  <1>3. ASSUME Moves PROVE Same
    BY <1>3, Zenon DEF Moves, avr_op_NOP, avr_op_MOV, avr_op_MOVW, avr_op_LDI, avr_op_LDS,
       avr_op_STS, avr_op_LD_X, avr_op_LDD, avr_op_LD_incr, avr_op_LD_decr,
       avr_op_ST_X, avr_op_STD, avr_op_ST_incr, avr_op_ST_decr, MoveOp, Load, Store,
       Continue
  <1>4. ASSUME Branches PROVE Same \/ avr_op_BREAK
    BY <1>4, Zenon DEF Branches, avr_op_JMP, avr_op_IJMP, avr_op_RJMP, avr_op_BRBS,
       avr_op_BRBC, avr_op_CPSE, avr_op_SBRC, avr_op_SBRS, Jump, Branch, Skip, Continue
  <1> QED BY <1>2, <1>3, <1>4, Zenon DEF Next

(* A step leaves the routine and its input as they are. *)
LEMMA SameRun ==
    ASSUME [Next]_vars
    PROVE  routine' = routine /\ input' = input
  <1>1. Same => routine' = routine /\ input' = input
    BY DEF Same
  <1>2. avr_op_BREAK \/ Exits => routine' = routine /\ input' = input
    BY DEF avr_op_BREAK, Exits
  <1>3. Next => routine' = routine /\ input' = input
    BY <1>1, <1>2, SameOrBreak
  <1>4. UNCHANGED vars => routine' = routine /\ input' = input
    BY DEF vars
  <1> QED BY <1>3, <1>4

(* A step that is not paused runs the handler of the program's word. *)
LEMMA StepRuns ==
    ASSUME [Next]_vars, ~Paused
    PROVE  I = ProgramWord(PC) /\ Dispatched
  <1>1. UNCHANGED vars => Paused
    BY DEF vars, Paused
  <1>2. Exits => Paused
    BY DEF Exits, Paused
  <1>3. avr_op_BREAK => Paused
    BY DEF avr_op_BREAK, Paused
  <1>4. Dispatched
    BY <1>1, <1>2, EveryHandlerIsDispatched, Zenon
  <1>5. I = ProgramWord(PC)
    <2>1. CASE PC \in breakpoints
      <3>1. I.op = "BREAK"
        BY <2>1 DEF I, FlashRead
      <3>2. avr_op_BREAK
        BY <3>1, <1>4 DEF Dispatched
      <3> QED BY <3>2, <1>3
    <2>2. CASE PC \notin breakpoints
      BY <2>2 DEF I, FlashRead
    <2> QED BY <2>1, <2>2
  <1> QED BY <1>4, <1>5

(* At the RET nothing runs. *)
LEMMA ReturnStops ==
    ASSUME [Next]_vars, ProgramWord(PC) = RET
    PROVE  Paused
  <1>1. SUFFICES ASSUME ~Paused PROVE FALSE
    OBVIOUS
  <1>2. I.op = "RET" /\ Dispatched
    BY <1>1, StepRuns DEF RET, Plain
  <1> QED BY <1>2 DEF Dispatched

----------------------------------------------------------------------------
(* What the handlers do, by the word in the program: res is written to      *)
(* register d, the flags of mask become those of flags.                     *)
Advances(n, cks) == PC' = AdjustPC(PC + n) /\ CK' = CK + cks

(* What an instruction that writes register d and the flags of mask leaves. *)
Writes(d, res, mask, flags) ==
    /\ gpwr' = [gpwr EXCEPT ![d] = res]
    /\ sreg' = (sreg \ mask) \cup flags
    /\ Advances(1, 1)
    /\ sram' = sram

(* The same of one that only sets flags. *)
Sets(mask, flags) ==
    gpwr' = gpwr /\ sreg' = (sreg \ mask) \cup flags /\ Advances(1, 1) /\ sram' = sram

(* The same of one that only changes registers, in n words and cks clocks. *)
Loads(regs, n, cks) ==
    gpwr' = regs /\ sreg' = sreg /\ Advances(n, cks) /\ sram' = sram

(* Additions. *)
AddsTo(d, a, b, c) ==
    Writes(d, Sum(a, b, c), Arithmetic, AddFlags(Sum(a, b, c), a, b) \cup ZeroFlag(Sum(a, b, c)))

(* ADD, ADC: Sum, and the flags of Sum. *)
LEMMA AdditionsRun ==
    ASSUME [Next]_vars, ~Paused, NEW d, NEW r
    PROVE  /\ ProgramWord(PC) = Reg2("ADD", d, r) => AddsTo(d, gpwr[d], gpwr[r], 0)
           /\ ProgramWord(PC) = Reg2("ADC", d, r) => AddsTo(d, gpwr[d], gpwr[r], Carry)
  <1>1. I = ProgramWord(PC) /\ Dispatched
    BY StepRuns
  <1>2. ASSUME I = Reg2("ADD", d, r) PROVE avr_op_ADD /\ I.d = d /\ I.r = r
    BY <1>1, <1>2 DEF Dispatched, Reg2
  <1>3. ASSUME I = Reg2("ADC", d, r) PROVE avr_op_ADC /\ I.d = d /\ I.r = r
    BY <1>1, <1>3 DEF Dispatched, Reg2
  <1> QED BY <1>1, <1>2, <1>3, Zenon
          DEF avr_op_ADD, avr_op_ADC, RegisterOp, SetFlags, Continue, AddsTo, Writes,
              Advances, Rd, Rr

(* Subtractions, whose Z is that of the result or of the whole chain. *)
SubsTo(d, a, b) ==
    Writes(d, Diff(a, b, 0), Arithmetic, SubFlags(Diff(a, b, 0), a, b) \cup ZeroFlag(Diff(a, b, 0)))

(* What a chained subtraction writes. *)
ChainsTo(d, a, b) ==
    Writes(d, Diff(a, b, Carry), Arithmetic,
           SubFlags(Diff(a, b, Carry), a, b) \cup ChainedZero(Diff(a, b, Carry)))

(* SUB, SUBI set Z by their own result, SBC and SBCI only clear it. *)
LEMMA SubtractionsRun ==
    ASSUME [Next]_vars, ~Paused, NEW d, NEW r
    PROVE  /\ ProgramWord(PC) = Reg2("SUB", d, r) => SubsTo(d, gpwr[d], gpwr[r])
           /\ ProgramWord(PC) = RegK("SUBI", d, r) => SubsTo(d, gpwr[d], r)
           /\ ProgramWord(PC) = Reg2("SBC", d, r) => ChainsTo(d, gpwr[d], gpwr[r])
           /\ ProgramWord(PC) = RegK("SBCI", d, r) => ChainsTo(d, gpwr[d], r)
  <1>1. I = ProgramWord(PC) /\ Dispatched
    BY StepRuns
  <1>2. ASSUME I = Reg2("SUB", d, r) PROVE avr_op_SUB /\ I.d = d /\ I.r = r
    BY <1>1, <1>2 DEF Dispatched, Reg2
  <1>3. ASSUME I = RegK("SUBI", d, r) PROVE avr_op_SUBI /\ I.d = d /\ I.K = r
    BY <1>1, <1>3 DEF Dispatched, RegK
  <1>4. ASSUME I = Reg2("SBC", d, r) PROVE avr_op_SBC /\ I.d = d /\ I.r = r
    BY <1>1, <1>4 DEF Dispatched, Reg2
  <1>5. ASSUME I = RegK("SBCI", d, r) PROVE avr_op_SBCI /\ I.d = d /\ I.K = r
    BY <1>1, <1>5 DEF Dispatched, RegK
  <1> QED BY <1>1, <1>2, <1>3, <1>4, <1>5, Zenon
          DEF avr_op_SUB, avr_op_SUBI, avr_op_SBC, avr_op_SBCI, RegisterOp, SetFlags,
              Continue, SubsTo, ChainsTo, Writes, Advances, Rd, Rr

(* Comparisons. *)
Compares(a, b) ==
    Sets(Arithmetic, SubFlags(Diff(a, b, 0), a, b) \cup ZeroFlag(Diff(a, b, 0)))

(* What a chained comparison sets. *)
ChainCompares(a, b) ==
    Sets(Arithmetic, SubFlags(Diff(a, b, Carry), a, b) \cup ChainedZero(Diff(a, b, Carry)))

(* CP, CPC and CPI are those subtractions without the result. *)
LEMMA ComparisonsRun ==
    ASSUME [Next]_vars, ~Paused, NEW d, NEW r
    PROVE  /\ ProgramWord(PC) = Reg2("CP", d, r) => Compares(gpwr[d], gpwr[r])
           /\ ProgramWord(PC) = RegK("CPI", d, r) => Compares(gpwr[d], r)
           /\ ProgramWord(PC) = Reg2("CPC", d, r) => ChainCompares(gpwr[d], gpwr[r])
  <1>1. I = ProgramWord(PC) /\ Dispatched
    BY StepRuns
  <1>2. ASSUME I = Reg2("CP", d, r) PROVE avr_op_CP /\ I.d = d /\ I.r = r
    BY <1>1, <1>2 DEF Dispatched, Reg2
  <1>3. ASSUME I = RegK("CPI", d, r) PROVE avr_op_CPI /\ I.d = d /\ I.K = r
    BY <1>1, <1>3 DEF Dispatched, RegK
  <1>4. ASSUME I = Reg2("CPC", d, r) PROVE avr_op_CPC /\ I.d = d /\ I.r = r
    BY <1>1, <1>4 DEF Dispatched, Reg2
  <1> QED BY <1>1, <1>2, <1>3, <1>4, Zenon
          DEF avr_op_CP, avr_op_CPC, avr_op_CPI, FlagOp, SetFlags, Continue, Compares,
              ChainCompares, Sets, Advances, Rd, Rr

(* Complement, negation and decrement. *)
LEMMA SinglesRun ==
    ASSUME [Next]_vars, ~Paused, NEW d
    PROVE  /\ ProgramWord(PC) = Reg1("COM", d) =>
                LET res == (Byte - 1) - gpwr[d]
                IN Writes(d, res, Shift, LogicFlags(res) \cup {"C"} \cup ZeroFlag(res))
           /\ ProgramWord(PC) = Reg1("NEG", d) =>
                LET res == Diff(0, gpwr[d], 0)
                IN Writes(d, res, Arithmetic,
                       SignFlags(Bit(res, Half), res = Half)
                       \cup On("H", Bit(res, HalfNibble) \/ Bit(gpwr[d], HalfNibble))
                       \cup On("C", res # 0) \cup ZeroFlag(res))
           /\ ProgramWord(PC) = Reg1("DEC", d) =>
                LET res == Diff(gpwr[d], 1, 0)
                IN Writes(d, res, Logic,
                       SignFlags(Bit(res, Half), gpwr[d] = Half) \cup ZeroFlag(res))
  <1>1. I = ProgramWord(PC) /\ Dispatched
    BY StepRuns
  <1>2. ASSUME I = Reg1("COM", d) PROVE avr_op_COM /\ I.d = d
    BY <1>1, <1>2 DEF Dispatched, Reg1
  <1>3. ASSUME I = Reg1("NEG", d) PROVE avr_op_NEG /\ I.d = d
    BY <1>1, <1>3 DEF Dispatched, Reg1
  <1>4. ASSUME I = Reg1("DEC", d) PROVE avr_op_DEC /\ I.d = d
    BY <1>1, <1>4 DEF Dispatched, Reg1
  <1> QED BY <1>1, <1>2, <1>3, <1>4, Zenon
          DEF avr_op_COM, avr_op_NEG, avr_op_DEC, RegisterOp, SetFlags, Continue, Writes,
              Advances, Rd

(* The moves between registers, and the flags set by hand. *)
LEMMA MovesRun ==
    ASSUME [Next]_vars, ~Paused, NEW d, NEW r
    PROVE  /\ ProgramWord(PC) = RegK("LDI", d, r) => Loads([gpwr EXCEPT ![d] = r], 1, 1)
           /\ ProgramWord(PC) = Reg2("MOVW", d, r) =>
                Loads(WithPair(gpwr, d, Pair(r)), 1, 1)
           /\ ProgramWord(PC) = Flag("BSET", d) => Sets({}, {d})
           /\ ProgramWord(PC) = Flag("BCLR", d) => Sets({d}, {})
  <1>1. I = ProgramWord(PC) /\ Dispatched
    BY StepRuns
  <1>2. ASSUME I = RegK("LDI", d, r) PROVE avr_op_LDI /\ I.d = d /\ I.K = r
    BY <1>1, <1>2 DEF Dispatched, RegK
  <1>3. ASSUME I = Reg2("MOVW", d, r) PROVE avr_op_MOVW /\ I.d = d /\ I.r = r
    BY <1>1, <1>3 DEF Dispatched, Reg2
  <1>4. ASSUME I = Flag("BSET", d) PROVE avr_op_BSET /\ I.s = d
    BY <1>1, <1>4 DEF Dispatched, Flag
  <1>5. ASSUME I = Flag("BCLR", d) PROVE avr_op_BCLR /\ I.s = d
    BY <1>1, <1>5 DEF Dispatched, Flag
  <1> QED BY <1>1, <1>2, <1>3, <1>4, <1>5, Zenon
          DEF avr_op_LDI, avr_op_MOVW, avr_op_BSET, avr_op_BCLR, MoveOp, FlagOp, SetFlags,
              Continue, Loads, Sets, Advances

(* Additions to register pairs. *)
LEMMA WordsRun ==
    ASSUME [Next]_vars, ~Paused, NEW d, NEW n
    PROVE  /\ ProgramWord(PC) = RegK("ADIW", d, n) =>
                LET res == (Pair(d) + n) % Word
                    r7  == Bit(gpwr[d + 1], Half)
                    r15 == Bit(res, Byte * Half)
                IN /\ gpwr' = WithPair(gpwr, d, res)
                   /\ sreg' = (sreg \ Shift) \cup
                              (WordFlags(res, ~r7 /\ r15, ~r15 /\ r7) \cup ZeroFlag(res))
                   /\ Advances(1, 2) /\ sram' = sram
           /\ ProgramWord(PC) = RegK("SBIW", d, n) =>
                LET res == (Pair(d) - n) % Word
                    r7  == Bit(gpwr[d + 1], Half)
                    r15 == Bit(res, Byte * Half)
                IN /\ gpwr' = WithPair(gpwr, d, res)
                   /\ sreg' = (sreg \ Shift) \cup
                              (WordFlags(res, r7 /\ ~r15, r15 /\ ~r7) \cup ZeroFlag(res))
                   /\ Advances(1, 2) /\ sram' = sram
  <1>1. I = ProgramWord(PC) /\ Dispatched
    BY StepRuns
  <1>2. ASSUME I = RegK("ADIW", d, n) PROVE avr_op_ADIW /\ I.d = d /\ I.K = n
    BY <1>1, <1>2 DEF Dispatched, RegK
  <1>3. ASSUME I = RegK("SBIW", d, n) PROVE avr_op_SBIW /\ I.d = d /\ I.K = n
    BY <1>1, <1>3 DEF Dispatched, RegK
  <1> QED BY <1>1, <1>2, <1>3, Zenon
          DEF avr_op_ADIW, avr_op_SBIW, WordOp, SetFlags, Continue, Advances

(* Branches on a flag. *)
LEMMA BranchesRun ==
    ASSUME [Next]_vars, ~Paused, NEW s, NEW k
    PROVE  /\ ProgramWord(PC) = If("BRBS", s, k) =>
                IF s \in sreg THEN Loads(gpwr, k + 1, 2) ELSE Loads(gpwr, 1, 1)
           /\ ProgramWord(PC) = If("BRBC", s, k) =>
                IF s \notin sreg THEN Loads(gpwr, k + 1, 2) ELSE Loads(gpwr, 1, 1)
  <1>1. I = ProgramWord(PC) /\ Dispatched
    BY StepRuns
  <1>2. ASSUME I = If("BRBS", s, k) PROVE avr_op_BRBS /\ I.s = s /\ I.k = k
    BY <1>1, <1>2 DEF Dispatched, If
  <1>3. ASSUME I = If("BRBC", s, k) PROVE avr_op_BRBC /\ I.s = s /\ I.k = k
    BY <1>1, <1>3 DEF Dispatched, If
  <1> QED BY <1>1, <1>2, <1>3, Zenon
          DEF avr_op_BRBS, avr_op_BRBC, Branch, Continue, Loads, Advances

----------------------------------------------------------------------------
(* The flags afterwards *)

(* The flags of sums and differences that Shows is about, and H. *)
Results == {"C", "N", "S", "V", "H"}

(* The flags are those of F. *)
Shown(F) == \A f \in Results : f \in sreg <=> f \in F

(* The carry and the flags of a sum, after its instruction. *)
LEMMA FlagsAfterAdding ==
    ASSUME NEW d, NEW a, NEW b, NEW c, AddsTo(d, a, b, c)
    PROVE  /\ Carry' = CarryOf(a, b, c)
           /\ \A f \in Results : f \in sreg' <=> f \in AddFlags(Sum(a, b, c), a, b)
  <1> DEFINE res == Sum(a, b, c)
             F   == AddFlags(res, a, b)
  <1>1. sreg' = (sreg \ Arithmetic) \cup (F \cup ZeroFlag(res))
    BY DEF AddsTo, Writes
  <1>2. "C" \in F <=> get_add_carry(res, a, b, Half)
    BY FlagsAre
  <1> HIDE DEF F
  <1>3. \A f \in Results : f \in sreg' <=> f \in F
    BY <1>1 DEF Results, Arithmetic, ZeroFlag, On
  <1>4. "C" \in sreg' <=> get_add_carry(res, a, b, Half)
    BY <1>2, <1>3 DEF Results
  <1>5. Carry' = CarryOf(a, b, c)
    BY <1>4 DEF Carry, CarryOf
  <1> QED BY <1>3, <1>5 DEF F

(* Subtractions and comparisons, at the start of a chain and within it. *)
LEMMA FlagsAfterSubtracting ==
    ASSUME NEW d, NEW a, NEW b, SubsTo(d, a, b) \/ Compares(a, b)
    PROVE  /\ Carry' = BorrowOf(a, b, 0)
           /\ \A f \in Results : f \in sreg' <=> f \in SubFlags(Diff(a, b, 0), a, b)
           /\ "Z" \in sreg' <=> Diff(a, b, 0) = 0
  <1> DEFINE res == Diff(a, b, 0)
             F   == SubFlags(res, a, b)
  <1>1. sreg' = (sreg \ Arithmetic) \cup (F \cup ZeroFlag(res))
    BY DEF SubsTo, Compares, Writes, Sets
  <1>2. /\ "C" \in F <=> get_sub_carry(res, a, b, Half)
        /\ "Z" \notin F
    BY FlagsAre
  <1> HIDE DEF F
  <1>3. \A f \in Results : f \in sreg' <=> f \in F
    BY <1>1 DEF Results, Arithmetic, ZeroFlag, On
  <1>4. "C" \in sreg' <=> get_sub_carry(res, a, b, Half)
    BY <1>2, <1>3 DEF Results
  <1>5. Carry' = BorrowOf(a, b, 0)
    BY <1>4 DEF Carry, BorrowOf
  <1>6. "Z" \in sreg' <=> res = 0
    BY <1>1, <1>2 DEF Arithmetic, ZeroFlag, On
  <1> QED BY <1>3, <1>5, <1>6 DEF F

(* The same of SBC and CPC, whose Z also keeps the Z before. *)
LEMMA FlagsAfterChaining ==
    ASSUME NEW d, NEW a, NEW b, NEW c, c = Carry, ChainsTo(d, a, b) \/ ChainCompares(a, b)
    PROVE  /\ Carry' = BorrowOf(a, b, c)
           /\ \A f \in Results : f \in sreg' <=> f \in SubFlags(Diff(a, b, c), a, b)
           /\ "Z" \in sreg' <=> Diff(a, b, c) = 0 /\ "Z" \in sreg
  <1> DEFINE res == Diff(a, b, c)
             F   == SubFlags(res, a, b)
  <1>1. sreg' = (sreg \ Arithmetic) \cup (F \cup ChainedZero(res))
    BY DEF ChainsTo, ChainCompares, Writes, Sets
  <1>2. /\ "C" \in F <=> get_sub_carry(res, a, b, Half)
        /\ "Z" \notin F
    BY FlagsAre
  <1> HIDE DEF F
  <1>3. \A f \in Results : f \in sreg' <=> f \in F
    BY <1>1 DEF Results, Arithmetic, ChainedZero, On
  <1>4. "C" \in sreg' <=> get_sub_carry(res, a, b, Half)
    BY <1>2, <1>3 DEF Results
  <1> HIDE DEF res
  <1>5. Carry' = BorrowOf(a, b, c)
    BY <1>4 DEF Carry, BorrowOf, res
  <1>6. "Z" \in sreg' <=> res = 0 /\ "Z" \in sreg
    BY <1>1, <1>2 DEF Arithmetic, ChainedZero, On
  <1> QED BY <1>3, <1>5, <1>6 DEF F, res

----------------------------------------------------------------------------
(* The routines, one instruction after the other *)

(* The program is the routines. *)
LEMMA Program == Code = Routines
  BY RoutinesAssumed DEF RoutinesAssumption

(* The digits of the two numbers. *)
XL == X % Byte
XH == X \div Byte
YL == Y % Byte
YH == Y \div Byte

(* What is in a register pair. *)
Holds(r, l, h) == gpwr[r] = l /\ gpwr[r + 1] = h

(* add: at each address the digits done so far, and the carry to the next. *)
AddRun ==
    routine = "add" =>
      /\ DOMAIN gpwr = 0..31 /\ PC \in 0..2
      /\ PC \in {0, 1} => Holds(18, YL, YH)
      /\ PC = 0 => Holds(16, XL, XH)
      /\ PC = 1 => Holds(16, Sum(XL, YL, 0), XH) /\ Carry = CarryOf(XL, YL, 0)
      /\ PC = 2 => LET h == Sum(XH, YH, CarryOf(XL, YL, 0))
                   IN Holds(16, Sum(XL, YL, 0), h) /\ Shown(AddFlags(h, XH, YH))

(* Every step of add keeps this. *)
LEMMA AddRuns ==
    ASSUME AddRun, [Next]_vars
    PROVE  AddRun'
  <1> SUFFICES ASSUME routine = "add" PROVE AddRun'
    BY SameRun DEF AddRun
  <1>1. /\ ProgramWord(0) = Reg2("ADD", 16, 18) /\ ProgramWord(1) = Reg2("ADC", 17, 19)
        /\ ProgramWord(2) = RET /\ PC_max = 3
    BY Program DEF Routines, PC_max, ProgramWord
  <1>2. XL' = XL /\ XH' = XH /\ YL' = YL /\ YH' = YH /\ routine' = routine
    BY SameRun DEF XL, XH, YL, YH, X, Y
  <1>3. CASE Paused
    BY <1>2, <1>3 DEF AddRun, Paused, Holds, Shown, Carry
  <1>4. CASE ~Paused /\ PC = 0
    <2>1. AddsTo(16, XL, YL, 0)
      BY <1>1, <1>4, AdditionsRun DEF AddRun, Holds
    <2>2. PC' = 1
      BY <2>1, <1>1, <1>4 DEF AddsTo, Writes, Advances, AdjustPC
    <2>3. gpwr' = [gpwr EXCEPT ![16] = Sum(XL, YL, 0)]
      BY <2>1 DEF AddsTo, Writes
    <2>4. Carry' = CarryOf(XL, YL, 0)
      BY <2>1, FlagsAfterAdding
    <2> QED BY <2>2, <2>3, <2>4, <1>2, <1>4 DEF AddRun, Holds
  <1>5. CASE ~Paused /\ PC = 1
    <2> DEFINE c == CarryOf(XL, YL, 0)
               h == Sum(XH, YH, c)
    <2>1. AddsTo(17, XH, YH, c)
      BY <1>1, <1>5, AdditionsRun DEF AddRun, Holds
    <2>2. PC' = 2
      BY <2>1, <1>1, <1>5 DEF AddsTo, Writes, Advances, AdjustPC
    <2>3. gpwr' = [gpwr EXCEPT ![17] = h]
      BY <2>1 DEF AddsTo, Writes
    <2>4. \A f \in Results : f \in sreg' <=> f \in AddFlags(h, XH, YH)
      BY <2>1, FlagsAfterAdding
    <2> QED BY <2>2, <2>3, <2>4, <1>2, <1>5 DEF AddRun, Holds, Shown
  <1>6. CASE ~Paused /\ PC = 2
    BY <1>1, <1>6, ReturnStops
  <1> QED BY <1>3, <1>4, <1>5, <1>6 DEF AddRun

(* plus1: the carry set by hand goes through a register that is zero. *)
Plus1Run ==
    routine = "plus1" =>
      /\ DOMAIN gpwr = 0..31 /\ PC \in 0..4
      /\ PC \in 0..2 => Holds(16, XL, XH)
      /\ PC \in 1..3 => gpwr[20] = 0
      /\ PC = 2 => Carry = 1
      /\ PC = 3 => Holds(16, Sum(XL, 0, 1), XH) /\ Carry = CarryOf(XL, 0, 1)
      /\ PC = 4 => LET h == Sum(XH, 0, CarryOf(XL, 0, 1))
                   IN Holds(16, Sum(XL, 0, 1), h) /\ Shown(AddFlags(h, XH, 0))

(* Every step of plus1 keeps this. *)
LEMMA Plus1Runs ==
    ASSUME Plus1Run, [Next]_vars
    PROVE  Plus1Run'
  <1> SUFFICES ASSUME routine = "plus1" PROVE Plus1Run'
    BY SameRun DEF Plus1Run
  <1>1. /\ ProgramWord(0) = RegK("LDI", 20, 0) /\ ProgramWord(1) = Flag("BSET", "C")
        /\ ProgramWord(2) = Reg2("ADC", 16, 20) /\ ProgramWord(3) = Reg2("ADC", 17, 20)
        /\ ProgramWord(4) = RET /\ PC_max = 5
    BY Program DEF Routines, PC_max, ProgramWord
  <1>2. XL' = XL /\ XH' = XH /\ routine' = routine
    BY SameRun DEF XL, XH, X
  <1>3. CASE Paused
    BY <1>2, <1>3 DEF Plus1Run, Paused, Holds, Shown, Carry
  <1>4. CASE ~Paused /\ PC = 0
    <2>1. Loads([gpwr EXCEPT ![20] = 0], 1, 1)
      BY <1>1, <1>4, MovesRun
    <2> QED BY <2>1, <1>1, <1>2, <1>4 DEF Loads, Advances, AdjustPC, Plus1Run, Holds
  <1>5. CASE ~Paused /\ PC = 1
    <2>1. Sets({}, {"C"})
      BY <1>1, <1>5, MovesRun
    <2>2. Carry' = 1
      BY <2>1 DEF Sets, Carry
    <2> QED BY <2>1, <2>2, <1>1, <1>2, <1>5 DEF Sets, Advances, AdjustPC, Plus1Run, Holds
  <1>6. CASE ~Paused /\ PC = 2
    <2>1. AddsTo(16, XL, 0, 1)
      BY <1>1, <1>6, AdditionsRun DEF Plus1Run, Holds
    <2>2. PC' = 3
      BY <2>1, <1>1, <1>6 DEF AddsTo, Writes, Advances, AdjustPC
    <2>3. gpwr' = [gpwr EXCEPT ![16] = Sum(XL, 0, 1)]
      BY <2>1 DEF AddsTo, Writes
    <2>4. Carry' = CarryOf(XL, 0, 1)
      BY <2>1, FlagsAfterAdding
    <2> QED BY <2>2, <2>3, <2>4, <1>2, <1>6 DEF Plus1Run, Holds
  <1>7. CASE ~Paused /\ PC = 3
    <2> DEFINE c == CarryOf(XL, 0, 1)
               h == Sum(XH, 0, c)
    <2>1. AddsTo(17, XH, 0, c)
      BY <1>1, <1>7, AdditionsRun DEF Plus1Run, Holds
    <2>2. PC' = 4
      BY <2>1, <1>1, <1>7 DEF AddsTo, Writes, Advances, AdjustPC
    <2>3. gpwr' = [gpwr EXCEPT ![17] = h]
      BY <2>1 DEF AddsTo, Writes
    <2>4. \A f \in Results : f \in sreg' <=> f \in AddFlags(h, XH, 0)
      BY <2>1, FlagsAfterAdding
    <2> QED BY <2>2, <2>3, <2>4, <1>2, <1>7 DEF Plus1Run, Holds, Shown
  <1>8. CASE ~Paused /\ PC = 4
    BY <1>1, <1>8, ReturnStops
  <1> QED BY <1>3, <1>4, <1>5, <1>6, <1>7, <1>8 DEF Plus1Run

(* sub: the borrow, and Z so far, go to the second instruction. *)
SubRun ==
    routine = "sub" =>
      /\ DOMAIN gpwr = 0..31 /\ PC \in 0..2
      /\ PC \in {0, 1} => Holds(18, YL, YH)
      /\ PC = 0 => Holds(16, XL, XH)
      /\ PC = 1 => LET l == Diff(XL, YL, 0)
                   IN /\ Holds(16, l, XH) /\ Carry = BorrowOf(XL, YL, 0)
                      /\ "Z" \in sreg <=> l = 0
      /\ PC = 2 => LET l == Diff(XL, YL, 0)
                       h == Diff(XH, YH, BorrowOf(XL, YL, 0))
                   IN /\ Holds(16, l, h) /\ Shown(SubFlags(h, XH, YH))
                      /\ "Z" \in sreg <=> h = 0 /\ l = 0

(* Every step of sub keeps this. *)
LEMMA SubRuns ==
    ASSUME SubRun, [Next]_vars
    PROVE  SubRun'
  <1> SUFFICES ASSUME routine = "sub" PROVE SubRun'
    BY SameRun DEF SubRun
  <1>1. /\ ProgramWord(0) = Reg2("SUB", 16, 18) /\ ProgramWord(1) = Reg2("SBC", 17, 19)
        /\ ProgramWord(2) = RET /\ PC_max = 3
    BY Program DEF Routines, PC_max, ProgramWord
  <1>2. XL' = XL /\ XH' = XH /\ YL' = YL /\ YH' = YH /\ routine' = routine
    BY SameRun DEF XL, XH, YL, YH, X, Y
  <1>3. CASE Paused
    BY <1>2, <1>3 DEF SubRun, Paused, Holds, Shown, Carry
  <1> DEFINE l == Diff(XL, YL, 0)
             c == BorrowOf(XL, YL, 0)
             h == Diff(XH, YH, c)
  <1>4. CASE ~Paused /\ PC = 0
    <2>1. SubsTo(16, XL, YL)
      BY <1>1, <1>4, SubtractionsRun DEF SubRun, Holds
    <2>2. PC' = 1
      BY <2>1, <1>1, <1>4 DEF SubsTo, Writes, Advances, AdjustPC
    <2>3. gpwr' = [gpwr EXCEPT ![16] = l]
      BY <2>1 DEF SubsTo, Writes
    <2>4. Carry' = c /\ ("Z" \in sreg' <=> l = 0)
      BY <2>1, FlagsAfterSubtracting
    <2> QED BY <2>2, <2>3, <2>4, <1>2, <1>4 DEF SubRun, Holds
  <1>5. CASE ~Paused /\ PC = 1
    <2>1. ChainsTo(17, XH, YH) /\ Carry = c
      BY <1>1, <1>5, SubtractionsRun DEF SubRun, Holds
    <2>2. PC' = 2
      BY <2>1, <1>1, <1>5 DEF ChainsTo, Writes, Advances, AdjustPC
    <2>3. gpwr' = [gpwr EXCEPT ![17] = h]
      BY <2>1 DEF ChainsTo, Writes
    <2>4. /\ \A f \in Results : f \in sreg' <=> f \in SubFlags(h, XH, YH)
          /\ "Z" \in sreg' <=> h = 0 /\ "Z" \in sreg
      BY <2>1, FlagsAfterChaining
    <2>5. "Z" \in sreg <=> l = 0
      BY <1>5 DEF SubRun
    <2> QED BY <2>2, <2>3, <2>4, <2>5, <1>2, <1>5 DEF SubRun, Holds, Shown
  <1>6. CASE ~Paused /\ PC = 2
    BY <1>1, <1>6, ReturnStops
  <1> QED BY <1>3, <1>4, <1>5, <1>6 DEF SubRun

(* subi: the same with immediate digits. *)
SubiRun ==
    routine = "subi" =>
      /\ DOMAIN gpwr = 0..31 /\ PC \in 0..2
      /\ PC = 0 => Holds(16, XL, XH)
      /\ PC = 1 => LET l == Diff(XL, K % Byte, 0)
                   IN /\ Holds(16, l, XH) /\ Carry = BorrowOf(XL, K % Byte, 0)
                      /\ "Z" \in sreg <=> l = 0
      /\ PC = 2 => LET l == Diff(XL, K % Byte, 0)
                       h == Diff(XH, K \div Byte, BorrowOf(XL, K % Byte, 0))
                   IN /\ Holds(16, l, h) /\ Shown(SubFlags(h, XH, K \div Byte))
                      /\ "Z" \in sreg <=> h = 0 /\ l = 0

(* Every step of subi keeps this. *)
LEMMA SubiRuns ==
    ASSUME SubiRun, [Next]_vars
    PROVE  SubiRun'
  <1> SUFFICES ASSUME routine = "subi" PROVE SubiRun'
    BY SameRun DEF SubiRun
  <1> DEFINE KL == K % Byte
             KH == K \div Byte
             l  == Diff(XL, KL, 0)
             c  == BorrowOf(XL, KL, 0)
             h  == Diff(XH, KH, c)
  <1>1. /\ ProgramWord(0) = RegK("SUBI", 16, KL) /\ ProgramWord(1) = RegK("SBCI", 17, KH)
        /\ ProgramWord(2) = RET /\ PC_max = 3
    BY Program DEF Routines, PC_max, ProgramWord
  <1>2. XL' = XL /\ XH' = XH /\ routine' = routine
    BY SameRun DEF XL, XH, X
  <1>3. CASE Paused
    BY <1>2, <1>3 DEF SubiRun, Paused, Holds, Shown, Carry
  <1> HIDE DEF KL, KH
  <1>4. CASE ~Paused /\ PC = 0
    <2>1. SubsTo(16, XL, KL)
      BY <1>1, <1>4, SubtractionsRun DEF SubiRun, Holds
    <2>2. PC' = 1
      BY <2>1, <1>1, <1>4 DEF SubsTo, Writes, Advances, AdjustPC
    <2>3. gpwr' = [gpwr EXCEPT ![16] = l]
      BY <2>1 DEF SubsTo, Writes
    <2>4. Carry' = c /\ ("Z" \in sreg' <=> l = 0)
      BY <2>1, FlagsAfterSubtracting
    <2> QED BY <2>2, <2>3, <2>4, <1>2, <1>4 DEF SubiRun, Holds, KL
  <1>5. CASE ~Paused /\ PC = 1
    <2>1. ChainsTo(17, XH, KH) /\ Carry = c
      BY <1>1, <1>5, SubtractionsRun DEF SubiRun, Holds, KL
    <2>2. PC' = 2
      BY <2>1, <1>1, <1>5 DEF ChainsTo, Writes, Advances, AdjustPC
    <2>3. gpwr' = [gpwr EXCEPT ![17] = h]
      BY <2>1 DEF ChainsTo, Writes
    <2>4. /\ \A f \in Results : f \in sreg' <=> f \in SubFlags(h, XH, KH)
          /\ "Z" \in sreg' <=> h = 0 /\ "Z" \in sreg
      BY <2>1, FlagsAfterChaining
    <2>5. "Z" \in sreg <=> l = 0
      BY <1>5 DEF SubiRun, KL
    <2> QED BY <2>2, <2>3, <2>4, <2>5, <1>2, <1>5 DEF SubiRun, Holds, Shown, KL, KH
  <1>6. CASE ~Paused /\ PC = 2
    BY <1>1, <1>6, ReturnStops
  <1> QED BY <1>3, <1>4, <1>5, <1>6 DEF SubiRun

(* X - Y compared: the flags after CP, and after CPC. *)
Compared1 == Carry = BorrowOf(XL, YL, 0) /\ ("Z" \in sreg <=> Diff(XL, YL, 0) = 0)

Compared2 == LET h == Diff(XH, YH, BorrowOf(XL, YL, 0))
             IN /\ Shown(SubFlags(h, XH, YH))
                /\ "Z" \in sreg <=> h = 0 /\ Diff(XL, YL, 0) = 0

(* CP leaves the flags of the low digits. *)
LEMMA Compared1After ==
    ASSUME Compares(XL, YL)
    PROVE  Carry' = BorrowOf(XL, YL, 0) /\ ("Z" \in sreg' <=> Diff(XL, YL, 0) = 0)
  BY FlagsAfterSubtracting

(* CPC leaves the flags of the words. *)
LEMMA Compared2After ==
    ASSUME [Next]_vars, Compared1, ChainCompares(XH, YH)
    PROVE  Compared2'
  <1> DEFINE l == Diff(XL, YL, 0)
             c == BorrowOf(XL, YL, 0)
             h == Diff(XH, YH, c)
  <1>1. XL' = XL /\ XH' = XH /\ YL' = YL /\ YH' = YH
    BY SameRun DEF XL, XH, YL, YH, X, Y
  <1>2. /\ \A f \in Results : f \in sreg' <=> f \in SubFlags(h, XH, YH)
        /\ "Z" \in sreg' <=> h = 0 /\ "Z" \in sreg
    <2>1. c = Carry
      BY DEF Compared1
    <2> QED BY <2>1, FlagsAfterChaining
  <1>3. "Z" \in sreg <=> l = 0
    BY DEF Compared1
  <1> QED BY <1>1, <1>2, <1>3 DEF Compared2, Shown

(* cmp: the flags of a difference, with both numbers left alone. *)
CmpRun ==
    routine = "cmp" =>
      /\ PC \in 0..2 /\ Holds(16, XL, XH) /\ Holds(18, YL, YH)
      /\ PC = 1 => Compared1
      /\ PC = 2 => Compared2

(* Every step of cmp keeps this. *)
LEMMA CmpRuns ==
    ASSUME CmpRun, [Next]_vars
    PROVE  CmpRun'
  <1> SUFFICES ASSUME routine = "cmp" PROVE CmpRun'
    BY SameRun DEF CmpRun
  <1>1. /\ ProgramWord(0) = Reg2("CP", 16, 18) /\ ProgramWord(1) = Reg2("CPC", 17, 19)
        /\ ProgramWord(2) = RET /\ PC_max = 3
    BY Program DEF Routines, PC_max, ProgramWord
  <1>2. XL' = XL /\ XH' = XH /\ YL' = YL /\ YH' = YH /\ routine' = routine
    BY SameRun DEF XL, XH, YL, YH, X, Y
  <1>3. CASE Paused
    BY <1>2, <1>3 DEF CmpRun, Paused, Holds, Shown, Carry, Compared1, Compared2
  <1>4. CASE ~Paused /\ PC = 0
    <2>1. Compares(XL, YL)
      BY <1>1, <1>4, ComparisonsRun DEF CmpRun, Holds
    <2>2. PC' = 1 /\ gpwr' = gpwr
      BY <2>1, <1>1, <1>4 DEF Compares, Sets, Advances, AdjustPC
    <2>3. Compared1'
      BY <2>1, <1>2, Compared1After DEF Compared1
    <2> QED BY <2>2, <2>3, <1>2, <1>4 DEF CmpRun, Holds
  <1>5. CASE ~Paused /\ PC = 1
    <2>1. ChainCompares(XH, YH) /\ Compared1
      BY <1>1, <1>5, ComparisonsRun DEF CmpRun, Holds
    <2>2. PC' = 2 /\ gpwr' = gpwr
      BY <2>1, <1>1, <1>5 DEF ChainCompares, Sets, Advances, AdjustPC
    <2>3. Compared2'
      BY <2>1, Compared2After
    <2> QED BY <2>2, <2>3, <1>2, <1>5 DEF CmpRun, Holds
  <1>6. CASE ~Paused /\ PC = 2
    BY <1>1, <1>6, ReturnStops
  <1> QED BY <1>3, <1>4, <1>5, <1>6 DEF CmpRun

(* The larger by the sign of the difference, the smaller by its borrow:     *)
(* the move is reached when Y is to be taken.                               *)
InputTyped == X \in 0..(Word - 1) /\ Y \in 0..(Word - 1)

(* S and C after the comparison are the signed and the unsigned order. *)
LEMMA OrderTold ==
    ASSUME InputTyped, Compared2
    PROVE  /\ "C" \in sreg <=> X < Y
           /\ "S" \in sreg <=> SignedWord(X) < SignedWord(Y)
  <1> DEFINE h == Diff(XH, YH, BorrowOf(XL, YL, 0))
             F == SubFlags(h, XH, YH)
  <1>1. /\ "C" \in sreg <=> "C" \in F
        /\ "S" \in sreg <=> "S" \in F
    BY DEF Compared2, Shown, Results
  <1>2. /\ "C" \in F <=> X - Y - 0 \notin 0..(Word - 1)
        /\ "S" \in F <=> SignedWord(X) - SignedWord(Y) - 0 < 0
    <2>1. X \in 0..(Word - 1) /\ Y \in 0..(Word - 1) /\ 0 \in {0, 1}
      BY DEF InputTyped
    <2> QED BY <2>1, WordsSub DEF XL, XH, YL, YH
  <1>3. X \in Int /\ Y \in Int /\ X >= 0 /\ Y >= 0 /\ X < Word /\ Y < Word /\ Word \in Nat
    BY WordIs DEF InputTyped
  <1>4. SignedWord(X) \in Int /\ SignedWord(Y) \in Int
    BY <1>3, WordIs DEF SignedWord
  <1> HIDE DEF F
  <1>5. X - Y - 0 \notin 0..(Word - 1) <=> X < Y
    BY <1>3
  <1>6. SignedWord(X) - SignedWord(Y) - 0 < 0 <=> SignedWord(X) < SignedWord(Y)
    BY <1>4
  <1> QED BY <1>1, <1>2, <1>5, <1>6

(* Two words are in one order or in the other. *)
LEMMA OrderTotal ==
    ASSUME InputTyped
    PROVE  /\ X < Y \/ Y <= X
           /\ SignedWord(X) < SignedWord(Y) \/ SignedWord(Y) <= SignedWord(X)
  BY WordIs DEF InputTyped, SignedWord

(* A pair that holds a word is that word. *)
LEMMA PairIs ==
    ASSUME InputTyped
    PROVE  /\ XL + Byte * XH = X /\ YL + Byte * YH = Y
           /\ (XL + Byte * XH) % Byte = XL /\ (XL + Byte * XH) \div Byte = XH
           /\ (YL + Byte * YH) % Byte = YL /\ (YL + Byte * YH) \div Byte = YH
  BY Digits DEF InputTyped, XL, XH, YL, YH

(* max: after the comparison the branch on S tells whether to move Y. *)
MaxRun ==
    routine = "max" =>
      /\ DOMAIN gpwr = 0..31 /\ PC \in 0..4 /\ Holds(18, YL, YH)
      /\ PC \in 0..3 => Holds(16, XL, XH)
      /\ PC = 1 => Compared1
      /\ PC = 2 => Compared2
      /\ PC = 3 => SignedWord(X) < SignedWord(Y)
      /\ PC = 4 => \/ SignedWord(X) >= SignedWord(Y) /\ Holds(16, XL, XH)
                   \/ SignedWord(X) < SignedWord(Y) /\ Holds(16, YL, YH)

(* Every step of max keeps this, whichever way the branch goes. *)
LEMMA MaxRuns ==
    ASSUME MaxRun, InputTyped, [Next]_vars
    PROVE  MaxRun'
  <1> SUFFICES ASSUME routine = "max" PROVE MaxRun'
    BY SameRun DEF MaxRun
  <1>1. /\ ProgramWord(0) = Reg2("CP", 16, 18) /\ ProgramWord(1) = Reg2("CPC", 17, 19)
        /\ ProgramWord(2) = If("BRBC", "S", 1) /\ ProgramWord(3) = Reg2("MOVW", 16, 18)
        /\ ProgramWord(4) = RET /\ PC_max = 5
    BY Program DEF Routines, PC_max, ProgramWord
  <1>2. /\ XL' = XL /\ XH' = XH /\ YL' = YL /\ YH' = YH /\ X' = X /\ Y' = Y
        /\ routine' = routine
    BY SameRun DEF XL, XH, YL, YH, X, Y
  <1> DEFINE Take == SignedWord(X) < SignedWord(Y)
             Keep == SignedWord(X) >= SignedWord(Y)
  <1>3. (Take' <=> Take) /\ (Keep' <=> Keep)
    BY <1>2
  <1> HIDE DEF Take, Keep
  <1>p. /\ DOMAIN gpwr = 0..31 /\ PC \in 0..4 /\ Holds(18, YL, YH)
        /\ PC \in 0..3 => Holds(16, XL, XH)
        /\ PC = 1 => Compared1
        /\ PC = 2 => Compared2
        /\ PC = 3 => Take
        /\ PC = 4 => (Keep /\ Holds(16, XL, XH)) \/ (Take /\ Holds(16, YL, YH))
    BY DEF MaxRun, Take, Keep
  <1>q. ASSUME /\ DOMAIN gpwr' = 0..31 /\ PC' \in 0..4 /\ Holds(18, YL, YH)'
               /\ PC' \in 0..3 => Holds(16, XL, XH)'
               /\ PC' = 1 => Compared1'
               /\ PC' = 2 => Compared2'
               /\ PC' = 3 => Take'
               /\ PC' = 4 => (Keep /\ Holds(16, XL, XH))' \/ (Take /\ Holds(16, YL, YH))'
        PROVE  MaxRun'
    BY <1>q DEF MaxRun, Take, Keep
  <1>4. CASE Paused
    <2>1. Holds(16, XL, XH)' <=> Holds(16, XL, XH)
      BY <1>2, <1>4 DEF Paused, Holds
    <2>2. /\ Holds(16, YL, YH)' <=> Holds(16, YL, YH)
          /\ Holds(18, YL, YH)' <=> Holds(18, YL, YH)
      BY <1>2, <1>4 DEF Paused, Holds
    <2>3. (Compared1' <=> Compared1) /\ (Compared2' <=> Compared2)
      BY <1>2, <1>4 DEF Paused, Compared1, Compared2, Shown, Carry
    <2>4. PC' = PC /\ gpwr' = gpwr
      BY <1>4 DEF Paused
    <2> QED BY <2>1, <2>2, <2>3, <2>4, <1>3, <1>p, <1>q
  <1>5. CASE ~Paused /\ PC = 0
    <2>1. Compares(XL, YL)
      BY <1>1, <1>5, <1>p, ComparisonsRun DEF Holds
    <2>2. PC' = 1 /\ gpwr' = gpwr
      BY <2>1, <1>1, <1>5 DEF Compares, Sets, Advances, AdjustPC
    <2>3. Compared1'
      BY <2>1, <1>2, Compared1After DEF Compared1
    <2>4. Holds(16, XL, XH)' /\ Holds(18, YL, YH)'
      BY <2>2, <1>2, <1>5, <1>p DEF Holds
    <2> QED BY <2>2, <2>3, <2>4, <1>p, <1>q
  <1>6. CASE ~Paused /\ PC = 1
    <2>1. ChainCompares(XH, YH) /\ Compared1
      BY <1>1, <1>6, <1>p, ComparisonsRun DEF Holds
    <2>2. PC' = 2 /\ gpwr' = gpwr
      BY <2>1, <1>1, <1>6 DEF ChainCompares, Sets, Advances, AdjustPC
    <2>3. Compared2'
      BY <2>1, Compared2After
    <2>4. Holds(16, XL, XH)' /\ Holds(18, YL, YH)'
      BY <2>2, <1>2, <1>6, <1>p DEF Holds
    <2> QED BY <2>2, <2>3, <2>4, <1>p, <1>q
  <1>7. CASE ~Paused /\ PC = 2
    <2>1. /\ "C" \in sreg <=> X < Y
          /\ "S" \in sreg <=> SignedWord(X) < SignedWord(Y)
      BY <1>7, <1>p, OrderTold
    <2>2. gpwr' = gpwr /\ IF "S" \notin sreg THEN PC' = 4 ELSE PC' = 3
      BY <1>1, <1>7, BranchesRun DEF Loads, Advances, AdjustPC
    <2>3. IF "S" \notin sreg THEN Keep ELSE Take
      BY <2>1, OrderTotal DEF Keep, Take
    <2>4. Holds(16, XL, XH)' /\ Holds(18, YL, YH)'
      BY <2>2, <1>2, <1>7, <1>p DEF Holds
    <2>5. CASE PC' = 4 /\ Keep
      <3>1. DOMAIN gpwr' = 0..31 /\ PC' \in 0..4 /\ PC' = 4
        BY <2>2, <2>5, <1>p
      <3> QED BY <3>1, <2>4, <2>5, <1>3, <1>q
    <2>6. CASE PC' = 3 /\ Take
      <3>1. DOMAIN gpwr' = 0..31 /\ PC' \in 0..4 /\ PC' = 3
        BY <2>2, <2>6, <1>p
      <3> QED BY <3>1, <2>4, <2>6, <1>3, <1>q
    <2> QED BY <2>2, <2>3, <2>5, <2>6
  <1>8. CASE ~Paused /\ PC = 3
    <2>1. Loads(WithPair(gpwr, 16, Pair(18)), 1, 1)
      BY <1>1, <1>8, MovesRun
    <2>2. PC' = 4 /\ gpwr' = WithPair(gpwr, 16, Pair(18))
      BY <2>1, <1>1, <1>8 DEF Loads, Advances, AdjustPC
    <2>3. Pair(18) % Byte = YL /\ Pair(18) \div Byte = YH
      BY <1>8, <1>p, PairIs DEF Holds, Pair
    <2>4. gpwr' = [gpwr EXCEPT ![16] = YL, ![16 + 1] = YH]
      BY <2>2, <2>3, Zenon DEF WithPair
    <2>5. DOMAIN gpwr' = 0..31 /\ Holds(16, YL, YH)' /\ Holds(18, YL, YH)'
      BY <2>4, <1>2, <1>p DEF Holds
    <2> QED BY <2>2, <2>5, <1>3, <1>8, <1>p, <1>q
  <1>9. CASE ~Paused /\ PC = 4
    BY <1>1, <1>9, ReturnStops
  <1> QED BY <1>4, <1>5, <1>6, <1>7, <1>8, <1>9, <1>p

(* min: the same with the branch on C. *)
MinRun ==
    routine = "min" =>
      /\ DOMAIN gpwr = 0..31 /\ PC \in 0..4 /\ Holds(18, YL, YH)
      /\ PC \in 0..3 => Holds(16, XL, XH)
      /\ PC = 1 => Compared1
      /\ PC = 2 => Compared2
      /\ PC = 3 => X >= Y
      /\ PC = 4 => \/ X < Y /\ Holds(16, XL, XH)
                   \/ X >= Y /\ Holds(16, YL, YH)

(* Every step of min keeps this, whichever way the branch goes. *)
LEMMA MinRuns ==
    ASSUME MinRun, InputTyped, [Next]_vars
    PROVE  MinRun'
  <1> SUFFICES ASSUME routine = "min" PROVE MinRun'
    BY SameRun DEF MinRun
  <1>1. /\ ProgramWord(0) = Reg2("CP", 16, 18) /\ ProgramWord(1) = Reg2("CPC", 17, 19)
        /\ ProgramWord(2) = If("BRBS", "C", 1) /\ ProgramWord(3) = Reg2("MOVW", 16, 18)
        /\ ProgramWord(4) = RET /\ PC_max = 5
    BY Program DEF Routines, PC_max, ProgramWord
  <1>2. /\ XL' = XL /\ XH' = XH /\ YL' = YL /\ YH' = YH /\ X' = X /\ Y' = Y
        /\ routine' = routine
    BY SameRun DEF XL, XH, YL, YH, X, Y
  <1> DEFINE Take == X >= Y
             Keep == X < Y
  <1>3. (Take' <=> Take) /\ (Keep' <=> Keep)
    BY <1>2
  <1> HIDE DEF Take, Keep
  <1>p. /\ DOMAIN gpwr = 0..31 /\ PC \in 0..4 /\ Holds(18, YL, YH)
        /\ PC \in 0..3 => Holds(16, XL, XH)
        /\ PC = 1 => Compared1
        /\ PC = 2 => Compared2
        /\ PC = 3 => Take
        /\ PC = 4 => (Keep /\ Holds(16, XL, XH)) \/ (Take /\ Holds(16, YL, YH))
    BY DEF MinRun, Take, Keep
  <1>q. ASSUME /\ DOMAIN gpwr' = 0..31 /\ PC' \in 0..4 /\ Holds(18, YL, YH)'
               /\ PC' \in 0..3 => Holds(16, XL, XH)'
               /\ PC' = 1 => Compared1'
               /\ PC' = 2 => Compared2'
               /\ PC' = 3 => Take'
               /\ PC' = 4 => (Keep /\ Holds(16, XL, XH))' \/ (Take /\ Holds(16, YL, YH))'
        PROVE  MinRun'
    BY <1>q DEF MinRun, Take, Keep
  <1>4. CASE Paused
    <2>1. Holds(16, XL, XH)' <=> Holds(16, XL, XH)
      BY <1>2, <1>4 DEF Paused, Holds
    <2>2. /\ Holds(16, YL, YH)' <=> Holds(16, YL, YH)
          /\ Holds(18, YL, YH)' <=> Holds(18, YL, YH)
      BY <1>2, <1>4 DEF Paused, Holds
    <2>3. (Compared1' <=> Compared1) /\ (Compared2' <=> Compared2)
      BY <1>2, <1>4 DEF Paused, Compared1, Compared2, Shown, Carry
    <2>4. PC' = PC /\ gpwr' = gpwr
      BY <1>4 DEF Paused
    <2> QED BY <2>1, <2>2, <2>3, <2>4, <1>3, <1>p, <1>q
  <1>5. CASE ~Paused /\ PC = 0
    <2>1. Compares(XL, YL)
      BY <1>1, <1>5, <1>p, ComparisonsRun DEF Holds
    <2>2. PC' = 1 /\ gpwr' = gpwr
      BY <2>1, <1>1, <1>5 DEF Compares, Sets, Advances, AdjustPC
    <2>3. Compared1'
      BY <2>1, <1>2, Compared1After DEF Compared1
    <2>4. Holds(16, XL, XH)' /\ Holds(18, YL, YH)'
      BY <2>2, <1>2, <1>5, <1>p DEF Holds
    <2> QED BY <2>2, <2>3, <2>4, <1>p, <1>q
  <1>6. CASE ~Paused /\ PC = 1
    <2>1. ChainCompares(XH, YH) /\ Compared1
      BY <1>1, <1>6, <1>p, ComparisonsRun DEF Holds
    <2>2. PC' = 2 /\ gpwr' = gpwr
      BY <2>1, <1>1, <1>6 DEF ChainCompares, Sets, Advances, AdjustPC
    <2>3. Compared2'
      BY <2>1, Compared2After
    <2>4. Holds(16, XL, XH)' /\ Holds(18, YL, YH)'
      BY <2>2, <1>2, <1>6, <1>p DEF Holds
    <2> QED BY <2>2, <2>3, <2>4, <1>p, <1>q
  <1>7. CASE ~Paused /\ PC = 2
    <2>1. /\ "C" \in sreg <=> X < Y
          /\ "S" \in sreg <=> SignedWord(X) < SignedWord(Y)
      BY <1>7, <1>p, OrderTold
    <2>2. gpwr' = gpwr /\ IF "C" \in sreg THEN PC' = 4 ELSE PC' = 3
      BY <1>1, <1>7, BranchesRun DEF Loads, Advances, AdjustPC
    <2>3. IF "C" \in sreg THEN Keep ELSE Take
      BY <2>1, OrderTotal DEF Keep, Take
    <2>4. Holds(16, XL, XH)' /\ Holds(18, YL, YH)'
      BY <2>2, <1>2, <1>7, <1>p DEF Holds
    <2>5. CASE PC' = 4 /\ Keep
      <3>1. DOMAIN gpwr' = 0..31 /\ PC' \in 0..4 /\ PC' = 4
        BY <2>2, <2>5, <1>p
      <3> QED BY <3>1, <2>4, <2>5, <1>3, <1>q
    <2>6. CASE PC' = 3 /\ Take
      <3>1. DOMAIN gpwr' = 0..31 /\ PC' \in 0..4 /\ PC' = 3
        BY <2>2, <2>6, <1>p
      <3> QED BY <3>1, <2>4, <2>6, <1>3, <1>q
    <2> QED BY <2>2, <2>3, <2>5, <2>6
  <1>8. CASE ~Paused /\ PC = 3
    <2>1. Loads(WithPair(gpwr, 16, Pair(18)), 1, 1)
      BY <1>1, <1>8, MovesRun
    <2>2. PC' = 4 /\ gpwr' = WithPair(gpwr, 16, Pair(18))
      BY <2>1, <1>1, <1>8 DEF Loads, Advances, AdjustPC
    <2>3. Pair(18) % Byte = YL /\ Pair(18) \div Byte = YH
      BY <1>8, <1>p, PairIs DEF Holds, Pair
    <2>4. gpwr' = [gpwr EXCEPT ![16] = YL, ![16 + 1] = YH]
      BY <2>2, <2>3, Zenon DEF WithPair
    <2>5. DOMAIN gpwr' = 0..31 /\ Holds(16, YL, YH)' /\ Holds(18, YL, YH)'
      BY <2>4, <1>2, <1>p DEF Holds
    <2> QED BY <2>2, <2>5, <1>3, <1>8, <1>p, <1>q
  <1>9. CASE ~Paused /\ PC = 4
    BY <1>1, <1>9, ReturnStops
  <1> QED BY <1>4, <1>5, <1>6, <1>7, <1>8, <1>9, <1>p

(* cmpi: CPI and CPC with a digit that had to be loaded. *)
CmpiRun ==
    routine = "cmpi" =>
      /\ DOMAIN gpwr = 0..31 /\ PC \in 0..3 /\ Holds(16, XL, XH)
      /\ PC \in {1, 2} => gpwr[20] = K \div Byte
      /\ PC = 2 => /\ Carry = BorrowOf(XL, K % Byte, 0)
                   /\ "Z" \in sreg <=> Diff(XL, K % Byte, 0) = 0
      /\ PC = 3 => LET h == Diff(XH, K \div Byte, BorrowOf(XL, K % Byte, 0))
                   IN /\ Shown(SubFlags(h, XH, K \div Byte))
                      /\ "Z" \in sreg <=> h = 0 /\ Diff(XL, K % Byte, 0) = 0

(* Every step of cmpi keeps this. *)
LEMMA CmpiRuns ==
    ASSUME CmpiRun, [Next]_vars
    PROVE  CmpiRun'
  <1> SUFFICES ASSUME routine = "cmpi" PROVE CmpiRun'
    BY SameRun DEF CmpiRun
  <1> DEFINE KL == K % Byte
             KH == K \div Byte
             l  == Diff(XL, KL, 0)
             c  == BorrowOf(XL, KL, 0)
             h  == Diff(XH, KH, c)
  <1>1. /\ ProgramWord(0) = RegK("LDI", 20, KH) /\ ProgramWord(1) = RegK("CPI", 16, KL)
        /\ ProgramWord(2) = Reg2("CPC", 17, 20) /\ ProgramWord(3) = RET /\ PC_max = 4
    BY Program DEF Routines, PC_max, ProgramWord
  <1>2. XL' = XL /\ XH' = XH /\ routine' = routine
    BY SameRun DEF XL, XH, X
  <1>3. CASE Paused
    BY <1>2, <1>3 DEF CmpiRun, Paused, Holds, Shown, Carry
  <1> HIDE DEF KL, KH
  <1>4. CASE ~Paused /\ PC = 0
    <2>1. Loads([gpwr EXCEPT ![20] = KH], 1, 1)
      BY <1>1, <1>4, MovesRun
    <2> QED BY <2>1, <1>1, <1>2, <1>4 DEF Loads, Advances, AdjustPC, CmpiRun, Holds, KH
  <1>5. CASE ~Paused /\ PC = 1
    <2>1. Compares(XL, KL)
      BY <1>1, <1>5, ComparisonsRun DEF CmpiRun, Holds
    <2>2. PC' = 2 /\ gpwr' = gpwr
      BY <2>1, <1>1, <1>5 DEF Compares, Sets, Advances, AdjustPC
    <2>3. Carry' = c /\ ("Z" \in sreg' <=> l = 0)
      BY <2>1, FlagsAfterSubtracting
    <2> QED BY <2>2, <2>3, <1>2, <1>5 DEF CmpiRun, Holds, KL
  <1>6. CASE ~Paused /\ PC = 2
    <2>1. ChainCompares(XH, KH) /\ Carry = c
      BY <1>1, <1>6, ComparisonsRun DEF CmpiRun, Holds, KL, KH
    <2>2. PC' = 3 /\ gpwr' = gpwr
      BY <2>1, <1>1, <1>6 DEF ChainCompares, Sets, Advances, AdjustPC
    <2>3. /\ \A f \in Results : f \in sreg' <=> f \in SubFlags(h, XH, KH)
          /\ "Z" \in sreg' <=> h = 0 /\ "Z" \in sreg
      BY <2>1, FlagsAfterChaining
    <2>4. "Z" \in sreg <=> l = 0
      BY <1>6 DEF CmpiRun, KL
    <2> QED BY <2>2, <2>3, <2>4, <1>2, <1>6 DEF CmpiRun, Holds, Shown, KL, KH
  <1>7. CASE ~Paused /\ PC = 3
    BY <1>1, <1>7, ReturnStops
  <1> QED BY <1>3, <1>4, <1>5, <1>6, <1>7 DEF CmpiRun

(* neg: the carry of NEG corrects the complement of the high digit. *)
NegRun ==
    routine = "neg" =>
      LET h == (Byte - 1) - XH
          l == Diff(0, XL, 0)
      IN /\ DOMAIN gpwr = 0..31 /\ PC \in 0..3
         /\ PC = 0 => Holds(16, XL, XH)
         /\ PC = 1 => Holds(16, XL, h)
         /\ PC = 2 => Holds(16, l, h) /\ Carry = IF l = 0 THEN 0 ELSE 1
         /\ PC = 3 => Holds(16, l, Diff(h, Byte - 1, IF l = 0 THEN 0 ELSE 1))

(* Every step of neg keeps this. *)
LEMMA NegRuns ==
    ASSUME NegRun, [Next]_vars
    PROVE  NegRun'
  <1> SUFFICES ASSUME routine = "neg" PROVE NegRun'
    BY SameRun DEF NegRun
  <1> DEFINE l == Diff(0, XL, 0)
             m == (Byte - 1) - XH
             c == IF l = 0 THEN 0 ELSE 1
             h == Diff(m, Byte - 1, c)
  <1>1. /\ ProgramWord(0) = Reg1("COM", 17) /\ ProgramWord(1) = Reg1("NEG", 16)
        /\ ProgramWord(2) = RegK("SBCI", 17, Byte - 1) /\ ProgramWord(3) = RET /\ PC_max = 4
    BY Program DEF Routines, PC_max, ProgramWord
  <1>2. XL' = XL /\ XH' = XH /\ routine' = routine
    BY SameRun DEF XL, XH, X
  <1>3. CASE Paused
    BY <1>2, <1>3 DEF NegRun, Paused, Holds, Carry
  <1>4. CASE ~Paused /\ PC = 0
    <2>1. Holds(16, XL, XH) /\ DOMAIN gpwr = 0..31
      BY <1>4 DEF NegRun
    <2>2. Writes(17, m, Shift, LogicFlags(m) \cup {"C"} \cup ZeroFlag(m))
      <3>1. gpwr[17] = XH /\ ProgramWord(PC) = Reg1("COM", 17)
        BY <2>1, <1>1, <1>4 DEF Holds
      <3> QED BY <3>1, <1>4, SinglesRun, Zenon
    <2> HIDE DEF m
    <2>3. PC' = 1
      BY <2>2, <1>1, <1>4 DEF Writes, Advances, AdjustPC
    <2>4. gpwr' = [gpwr EXCEPT ![17] = m]
      BY <2>2 DEF Writes
    <2>5. DOMAIN gpwr' = 0..31 /\ Holds(16, XL, m)'
      BY <2>1, <2>4, <1>2 DEF Holds, m
    <2> QED BY <2>3, <2>5, <1>2 DEF NegRun, m
  <1>5. CASE ~Paused /\ PC = 1
    <2>1. Holds(16, XL, m) /\ DOMAIN gpwr = 0..31
      BY <1>5 DEF NegRun
    <2> DEFINE F == SignFlags(Bit(l, Half), l = Half)
                    \cup On("H", Bit(l, HalfNibble) \/ Bit(XL, HalfNibble))
                    \cup On("C", l # 0) \cup ZeroFlag(l)
    <2>2. Writes(16, l, Arithmetic, F)
      BY <2>1, <1>1, <1>5, SinglesRun DEF Holds
    <2>3. PC' = 2 /\ gpwr' = [gpwr EXCEPT ![16] = l] /\ sreg' = (sreg \ Arithmetic) \cup F
      BY <2>2, <1>1, <1>5 DEF Writes, Advances, AdjustPC
    <2>4. "C" \in sreg' <=> l # 0
      BY <2>3 DEF Arithmetic, SignFlags, On, ZeroFlag
    <2> HIDE DEF l, m
    <2>5. Carry' = c
      BY <2>4 DEF Carry
    <2>6. DOMAIN gpwr' = 0..31 /\ Holds(16, l, m)'
      BY <2>1, <2>3, <1>2 DEF Holds, l, m
    <2> QED BY <2>3, <2>5, <2>6, <1>2 DEF NegRun, l, m
  <1>6. CASE ~Paused /\ PC = 2
    <2>1. Holds(16, l, m) /\ DOMAIN gpwr = 0..31 /\ Carry = c
      BY <1>6 DEF NegRun
    <2>2. ChainsTo(17, m, Byte - 1)
      BY <2>1, <1>1, <1>6, SubtractionsRun DEF Holds
    <2>3. PC' = 3 /\ gpwr' = [gpwr EXCEPT ![17] = h]
      BY <2>1, <2>2, <1>1, <1>6 DEF ChainsTo, Writes, Advances, AdjustPC
    <2>4. DOMAIN gpwr' = 0..31 /\ Holds(16, l, h)'
      BY <2>1, <2>3, <1>2 DEF Holds
    <2> QED BY <2>3, <2>4, <1>2 DEF NegRun
  <1>7. CASE ~Paused /\ PC = 3
    BY <1>1, <1>7, ReturnStops
  <1> QED BY <1>3, <1>4, <1>5, <1>6, <1>7 DEF NegRun

(* ADIW and SBIW: with a constant below half a word, the flags are those of *)
(* the exact sum and difference of words.                                   *)
LEMMA WordFlagsAre ==
    ASSUME NEW res, NEW overflow, NEW carry
    PROVE  LET F == WordFlags(res, overflow, carry) \cup ZeroFlag(res)
           IN /\ "C" \in F <=> carry
              /\ "V" \in F <=> overflow
              /\ "N" \in F <=> Bit(res, Byte * Half)
              /\ "S" \in F <=> Bit(res, Byte * Half) # overflow
              /\ "Z" \in F <=> res = 0
  BY DEF WordFlags, SignFlags, On, ZeroFlag

(* The highest bits of a word and of its high register are the same. *)
LEMMA WordBits ==
    ASSUME NEW x \in 0..(Word - 1)
    PROVE  /\ Bit(x, Byte * Half) <=> x >= Word \div 2
           /\ Bit(x \div Byte, Half) <=> x >= Word \div 2
  <1>1. Bit(x, Byte * Half) <=> x >= Word \div 2
    <2>1. x % Word = x
      BY WordIs
    <2>2. 2 * (Byte * Half) = Word /\ Byte * Half = Word \div 2
      BY WordIs
    <2> QED BY <2>1, <2>2 DEF Bit
  <1>2. Bit(x \div Byte, Half) <=> x >= Word \div 2
    <2>1. /\ x % Byte \in Bytes /\ x \div Byte \in Bytes
          /\ x = (x % Byte) + Byte * (x \div Byte)
      BY Digits
    <2>2. Bit(x \div Byte, Half) <=> x \div Byte >= Half
      BY <2>1, TopBit
    <2> DEFINE l == x % Byte
               h == x \div Byte
    <2> HIDE DEF l, h
    <2>3. l + Byte * h >= Word \div 2 <=> h >= Half
      BY <2>1, TwoDigits DEF l, h
    <2>4. x = l + Byte * h /\ (Bit(h, Half) <=> h >= Half)
      BY <2>1, <2>2 DEF l, h
    <2>5. Bit(h, Half) <=> x >= Word \div 2
      BY <2>3, <2>4
    <2> QED BY <2>5 DEF h
  <1> QED BY <1>1, <1>2

(* adiw: the register pair as one number. *)
AdiwRun ==
    routine = "adiw" =>
      /\ DOMAIN gpwr = 0..31 /\ PC \in 0..2
      /\ PC = 0 => Holds(16, XL, XH)
      /\ PC = 1 => Holds(24, XL, XH)
      /\ PC = 2 => LET res == (X + 3) % Word
                       r7  == Bit(XH, Half)
                       r15 == Bit(res, Byte * Half)
                       F   == WordFlags(res, ~r7 /\ r15, ~r15 /\ r7) \cup ZeroFlag(res)
                   IN /\ Holds(24, res % Byte, res \div Byte)
                      /\ \A f \in Shift : f \in sreg <=> f \in F

(* Every step of adiw keeps this. *)
LEMMA AdiwRuns ==
    ASSUME AdiwRun, InputTyped, [Next]_vars
    PROVE  AdiwRun'
  <1> SUFFICES ASSUME routine = "adiw" PROVE AdiwRun'
    BY SameRun DEF AdiwRun
  <1> DEFINE res == (X + 3) % Word
             r7  == Bit(XH, Half)
             r15 == Bit(res, Byte * Half)
             F   == WordFlags(res, ~r7 /\ r15, ~r15 /\ r7) \cup ZeroFlag(res)
  <1>1. /\ ProgramWord(0) = Reg2("MOVW", 24, 16) /\ ProgramWord(1) = RegK("ADIW", 24, 3)
        /\ ProgramWord(2) = RET /\ PC_max = 3
    BY Program DEF Routines, PC_max, ProgramWord
  <1>2. XL' = XL /\ XH' = XH /\ X' = X /\ routine' = routine
    BY SameRun DEF XL, XH, X
  <1>p. /\ DOMAIN gpwr = 0..31 /\ PC \in 0..2
        /\ PC = 0 => Holds(16, XL, XH)
        /\ PC = 1 => Holds(24, XL, XH)
        /\ PC = 2 => /\ Holds(24, res % Byte, res \div Byte)
                     /\ \A f \in Shift : f \in sreg <=> f \in F
    BY DEF AdiwRun
  <1>q. ASSUME /\ DOMAIN gpwr' = 0..31 /\ PC' \in 0..2
               /\ PC' = 0 => Holds(16, XL, XH)'
               /\ PC' = 1 => Holds(24, XL, XH)'
               /\ PC' = 2 => /\ Holds(24, res % Byte, res \div Byte)'
                             /\ \A f \in Shift : f \in sreg' <=> f \in F
        PROVE  AdiwRun'
    BY <1>2, <1>q, Zenon DEF AdiwRun
  <1> HIDE DEF F
  <1>3. CASE Paused
    <2>1. /\ Holds(16, XL, XH)' <=> Holds(16, XL, XH)
          /\ Holds(24, XL, XH)' <=> Holds(24, XL, XH)
          /\ Holds(24, res % Byte, res \div Byte)' <=> Holds(24, res % Byte, res \div Byte)
      BY <1>2, <1>3, Zenon DEF Paused, Holds
    <2>2. PC' = PC /\ gpwr' = gpwr /\ sreg' = sreg
      BY <1>3 DEF Paused
    <2> QED BY <2>1, <2>2, <1>p, <1>q, Zenon
  <1>4. CASE ~Paused /\ PC = 0
    <2>1. Loads(WithPair(gpwr, 24, Pair(16)), 1, 1)
      BY <1>1, <1>4, MovesRun
    <2>2. PC' = 1 /\ gpwr' = WithPair(gpwr, 24, Pair(16))
      BY <2>1, <1>1, <1>4 DEF Loads, Advances, AdjustPC
    <2>3. Pair(16) % Byte = XL /\ Pair(16) \div Byte = XH
      BY <1>4, <1>p, PairIs DEF Holds, Pair
    <2>4. gpwr' = [gpwr EXCEPT ![24] = XL, ![24 + 1] = XH]
      BY <2>2, <2>3, Zenon DEF WithPair
    <2>5. DOMAIN gpwr' = 0..31 /\ Holds(24, XL, XH)'
      BY <2>4, <1>2, <1>p DEF Holds
    <2> QED BY <2>2, <2>5, <1>q
  <1>5. CASE ~Paused /\ PC = 1
    <2>1. Pair(24) = X /\ gpwr[24 + 1] = XH
      BY <1>5, <1>p, PairIs DEF Holds, Pair
    <2>2. /\ gpwr' = WithPair(gpwr, 24, res)
          /\ sreg' = (sreg \ Shift) \cup F
          /\ Advances(1, 2)
      BY <2>1, <1>1, <1>5, WordsRun, Zenon DEF F
    <2>3. PC' = 2
      BY <2>2, <1>1, <1>5 DEF Advances, AdjustPC
    <2> DEFINE l == res % Byte
               h == res \div Byte
    <2>4. gpwr' = [gpwr EXCEPT ![24] = l, ![24 + 1] = h]
      BY <2>2, Zenon DEF WithPair
    <2> HIDE DEF l, h
    <2>5. DOMAIN gpwr' = 0..31 /\ gpwr'[24] = l /\ gpwr'[24 + 1] = h
      BY <2>4, <1>p
    <2>6. l' = l /\ h' = h
      BY <1>2, Zenon DEF l, h
    <2>7. Holds(24, l, h)'
      BY <2>5, <2>6, Zenon DEF Holds
    <2>8. F \subseteq Shift
      BY DEF F, WordFlags, SignFlags, On, ZeroFlag, Shift
    <2>9. \A f \in Shift : f \in sreg' <=> f \in F
      BY <2>2, <2>8
    <2> QED BY <2>3, <2>5, <2>7, <2>9, <1>q DEF l, h
  <1>6. CASE ~Paused /\ PC = 2
    BY <1>1, <1>6, ReturnStops
  <1> QED BY <1>3, <1>4, <1>5, <1>6, <1>p

(* sbiw: the register pair as one number. *)
SbiwRun ==
    routine = "sbiw" =>
      /\ DOMAIN gpwr = 0..31 /\ PC \in 0..2
      /\ PC = 0 => Holds(16, XL, XH)
      /\ PC = 1 => Holds(24, XL, XH)
      /\ PC = 2 => LET res == (X - 3) % Word
                       r7  == Bit(XH, Half)
                       r15 == Bit(res, Byte * Half)
                       F   == WordFlags(res, r7 /\ ~r15, r15 /\ ~r7) \cup ZeroFlag(res)
                   IN /\ Holds(24, res % Byte, res \div Byte)
                      /\ \A f \in Shift : f \in sreg <=> f \in F

(* Every step of sbiw keeps this. *)
LEMMA SbiwRuns ==
    ASSUME SbiwRun, InputTyped, [Next]_vars
    PROVE  SbiwRun'
  <1> SUFFICES ASSUME routine = "sbiw" PROVE SbiwRun'
    BY SameRun DEF SbiwRun
  <1> DEFINE res == (X - 3) % Word
             r7  == Bit(XH, Half)
             r15 == Bit(res, Byte * Half)
             F   == WordFlags(res, r7 /\ ~r15, r15 /\ ~r7) \cup ZeroFlag(res)
  <1>1. /\ ProgramWord(0) = Reg2("MOVW", 24, 16) /\ ProgramWord(1) = RegK("SBIW", 24, 3)
        /\ ProgramWord(2) = RET /\ PC_max = 3
    BY Program DEF Routines, PC_max, ProgramWord
  <1>2. XL' = XL /\ XH' = XH /\ X' = X /\ routine' = routine
    BY SameRun DEF XL, XH, X
  <1>p. /\ DOMAIN gpwr = 0..31 /\ PC \in 0..2
        /\ PC = 0 => Holds(16, XL, XH)
        /\ PC = 1 => Holds(24, XL, XH)
        /\ PC = 2 => /\ Holds(24, res % Byte, res \div Byte)
                     /\ \A f \in Shift : f \in sreg <=> f \in F
    BY DEF SbiwRun
  <1>q. ASSUME /\ DOMAIN gpwr' = 0..31 /\ PC' \in 0..2
               /\ PC' = 0 => Holds(16, XL, XH)'
               /\ PC' = 1 => Holds(24, XL, XH)'
               /\ PC' = 2 => /\ Holds(24, res % Byte, res \div Byte)'
                             /\ \A f \in Shift : f \in sreg' <=> f \in F
        PROVE  SbiwRun'
    BY <1>2, <1>q, Zenon DEF SbiwRun
  <1> HIDE DEF F
  <1>3. CASE Paused
    <2>1. /\ Holds(16, XL, XH)' <=> Holds(16, XL, XH)
          /\ Holds(24, XL, XH)' <=> Holds(24, XL, XH)
          /\ Holds(24, res % Byte, res \div Byte)' <=> Holds(24, res % Byte, res \div Byte)
      BY <1>2, <1>3, Zenon DEF Paused, Holds
    <2>2. PC' = PC /\ gpwr' = gpwr /\ sreg' = sreg
      BY <1>3 DEF Paused
    <2> QED BY <2>1, <2>2, <1>p, <1>q, Zenon
  <1>4. CASE ~Paused /\ PC = 0
    <2>1. Loads(WithPair(gpwr, 24, Pair(16)), 1, 1)
      BY <1>1, <1>4, MovesRun
    <2>2. PC' = 1 /\ gpwr' = WithPair(gpwr, 24, Pair(16))
      BY <2>1, <1>1, <1>4 DEF Loads, Advances, AdjustPC
    <2>3. Pair(16) % Byte = XL /\ Pair(16) \div Byte = XH
      BY <1>4, <1>p, PairIs DEF Holds, Pair
    <2>4. gpwr' = [gpwr EXCEPT ![24] = XL, ![24 + 1] = XH]
      BY <2>2, <2>3, Zenon DEF WithPair
    <2>5. DOMAIN gpwr' = 0..31 /\ Holds(24, XL, XH)'
      BY <2>4, <1>2, <1>p DEF Holds
    <2> QED BY <2>2, <2>5, <1>q
  <1>5. CASE ~Paused /\ PC = 1
    <2>1. Pair(24) = X /\ gpwr[24 + 1] = XH
      BY <1>5, <1>p, PairIs DEF Holds, Pair
    <2>2. /\ gpwr' = WithPair(gpwr, 24, res)
          /\ sreg' = (sreg \ Shift) \cup F
          /\ Advances(1, 2)
      BY <2>1, <1>1, <1>5, WordsRun, Zenon DEF F
    <2>3. PC' = 2
      BY <2>2, <1>1, <1>5 DEF Advances, AdjustPC
    <2> DEFINE l == res % Byte
               h == res \div Byte
    <2>4. gpwr' = [gpwr EXCEPT ![24] = l, ![24 + 1] = h]
      BY <2>2, Zenon DEF WithPair
    <2> HIDE DEF l, h
    <2>5. DOMAIN gpwr' = 0..31 /\ gpwr'[24] = l /\ gpwr'[24 + 1] = h
      BY <2>4, <1>p
    <2>6. l' = l /\ h' = h
      BY <1>2, Zenon DEF l, h
    <2>7. Holds(24, l, h)'
      BY <2>5, <2>6, Zenon DEF Holds
    <2>8. F \subseteq Shift
      BY DEF F, WordFlags, SignFlags, On, ZeroFlag, Shift
    <2>9. \A f \in Shift : f \in sreg' <=> f \in F
      BY <2>2, <2>8
    <2> QED BY <2>3, <2>5, <2>7, <2>9, <1>q DEF l, h
  <1>6. CASE ~Paused /\ PC = 2
    BY <1>1, <1>6, ReturnStops
  <1> QED BY <1>3, <1>4, <1>5, <1>6, <1>p

----------------------------------------------------------------------------
(* What a routine shows at its RET                                          *)

(* Flags of additions and of subtractions, with the two registers of the    *)
(* result, are those Shows asks for.                                        *)
LEMMA SumShown ==
    ASSUME NEW x \in 0..(Word - 1), NEW y \in 0..(Word - 1), NEW c \in {0, 1},
           NEW l, l = Sum(x % Byte, y % Byte, c),
           NEW d, d = CarryOf(x % Byte, y % Byte, c),
           NEW h, h = Sum(x \div Byte, y \div Byte, d),
           NEW v, v = l + Byte * h,
           NEW exact, exact = x + y + c,
           NEW signed, signed = SignedWord(x) + SignedWord(y) + c,
           Shown(AddFlags(h, x \div Byte, y \div Byte))
    PROVE  Shows(v, exact, signed)
  <1> DEFINE F == AddFlags(h, x \div Byte, y \div Byte)
  <1>1. /\ v = exact % Word
        /\ "C" \in F <=> exact \notin 0..(Word - 1)
        /\ "N" \in F <=> v >= Word \div 2
        /\ "S" \in F <=> signed < 0
        /\ "V" \in F <=> ~FitsWord(signed)
    <2> DEFINE u == l + Byte * h
               e == SignedWord(x) + SignedWord(y) + c
    <2>1. /\ u = (x + y + c) % Word
          /\ "C" \in F <=> x + y + c \notin 0..(Word - 1)
          /\ "N" \in F <=> u >= Word \div 2
          /\ "S" \in F <=> e < 0
          /\ "V" \in F <=> ~FitsWord(e)
      BY WordsAdd
    <2> QED BY <2>1, Zenon
  <1>2. /\ "C" \in sreg <=> "C" \in F
        /\ "N" \in sreg <=> "N" \in F
        /\ "S" \in sreg <=> "S" \in F
        /\ "V" \in sreg <=> "V" \in F
    BY DEF Shown, Results
  <1> HIDE DEF F
  <1> QED BY <1>1, <1>2 DEF Shows

(* A word is zero when its registers are.                                   *)
LEMMA WordZero ==
    ASSUME NEW l \in Bytes, NEW h \in Bytes
    PROVE  l + Byte * h = 0 <=> h = 0 /\ l = 0
  <1>1. Byte \in Nat \ {0} /\ l \in 0..(Byte - 1) /\ h \in 0..(Byte - 1)
    BY Widths DEF Bytes
  <1> DEFINE m == Byte * h
  <1>2. m \in Int /\ (h = 0 => m = 0)
    BY <1>1
  <1>3. h >= 1 => Byte * 1 <= m
    BY <1>1, Ordered
  <1> HIDE DEF m
  <1>4. l + m = 0 <=> h = 0 /\ l = 0
    BY <1>1, <1>2, <1>3
  <1> QED BY <1>4 DEF m

(* Of subtractions. *)
LEMMA DifferenceShown ==
    ASSUME NEW x \in 0..(Word - 1), NEW y \in 0..(Word - 1),
           NEW l, l = Diff(x % Byte, y % Byte, 0),
           NEW d, d = BorrowOf(x % Byte, y % Byte, 0),
           NEW h, h = Diff(x \div Byte, y \div Byte, d),
           NEW v, v = l + Byte * h,
           NEW exact, exact = x - y,
           NEW signed, signed = SignedWord(x) - SignedWord(y),
           Shown(SubFlags(h, x \div Byte, y \div Byte)),
           "Z" \in sreg <=> h = 0 /\ l = 0
    PROVE  Shows(v, exact, signed) /\ v = exact % Word /\ ShowsZero(exact)
  <1> DEFINE F == SubFlags(h, x \div Byte, y \div Byte)
  <1>1. exact = x - y - 0 /\ signed = SignedWord(x) - SignedWord(y) - 0 /\ 0 \in {0, 1}
    <2>1. x \in Int /\ y \in Int /\ Word \in Int
      BY WordIs
    <2>2. SignedWord(x) \in Int /\ SignedWord(y) \in Int
      BY <2>1, WordIs DEF SignedWord
    <2> QED BY <2>1, <2>2
  <1>2. /\ l \in Bytes /\ h \in Bytes
        /\ v = exact % Word
        /\ "C" \in F <=> exact \notin 0..(Word - 1)
        /\ "N" \in F <=> v >= Word \div 2
        /\ "S" \in F <=> signed < 0
        /\ "V" \in F <=> ~FitsWord(signed)
    <2> DEFINE u == l + Byte * h
               e == SignedWord(x) - SignedWord(y) - 0
    <2>1. /\ l \in Bytes /\ h \in Bytes
          /\ u = (x - y - 0) % Word
          /\ "C" \in F <=> x - y - 0 \notin 0..(Word - 1)
          /\ "N" \in F <=> u >= Word \div 2
          /\ "S" \in F <=> e < 0
          /\ "V" \in F <=> ~FitsWord(e)
      BY <1>1, WordsSub
    <2> QED BY <1>1, <2>1, Zenon
  <1>3. /\ "C" \in sreg <=> "C" \in F
        /\ "N" \in sreg <=> "N" \in F
        /\ "S" \in sreg <=> "S" \in F
        /\ "V" \in sreg <=> "V" \in F
    BY DEF Shown, Results
  <1> HIDE DEF F
  <1>4. Shows(v, exact, signed)
    BY <1>2, <1>3 DEF Shows
  <1>5. v = 0 <=> h = 0 /\ l = 0
    BY <1>2, WordZero
  <1>6. ShowsZero(exact)
    BY <1>2, <1>5 DEF ShowsZero
  <1> QED BY <1>2, <1>4, <1>6

(* Small numbers are words, positive also when read as signed.              *)
LEMMA SmallWords ==
    /\ Word \div 2 >= 128 /\ Word = 2 * (Word \div 2) /\ Word \div 2 \in Nat
    /\ \A n \in 0..127 : n \in 0..(Word - 1) /\ SignedWord(n) = n
  <1>1. Byte \in Nat /\ Byte >= 16 /\ Half \in Nat /\ Half >= 8
    BY Widths, RoutinesAssumed DEF RoutinesAssumption
  <1>2. Byte * 8 <= Byte * Half
    BY <1>1, Ordered
  <1>3. Word \div 2 >= 128 /\ Word = 2 * (Word \div 2) /\ Word \div 2 \in Nat
    BY <1>1, <1>2, WordIs
  <1> QED BY <1>3 DEF SignedWord

(* Nothing added, nothing taken away. *)
LEMMA ExactAsIs ==
    ASSUME InputTyped
    PROVE  /\ X + Y = X + Y + 0
           /\ SignedWord(X) + SignedWord(Y) = SignedWord(X) + SignedWord(Y) + 0
  <1>1. X \in Int /\ Y \in Int
    BY WordIs DEF InputTyped
  <1>2. SignedWord(X) \in Int /\ SignedWord(Y) \in Int
    BY <1>1, WordIs DEF SignedWord
  <1> QED BY <1>1, <1>2

(* ADD and ADC. *)
LEMMA AddEnds ==
    ASSUME InputTyped, AddRun, Finished("add")
    PROVE  /\ Shows(Pair(16), X + Y, SignedWord(X) + SignedWord(Y))
           /\ ("H" \in sreg) = (LowPart(X) + LowPart(Y) >= LowHalf)
  <1> DEFINE l == Sum(XL, YL, 0)
             d == CarryOf(XL, YL, 0)
             h == Sum(XH, YH, d)
  <1>1. routine = "add" /\ PC = 2
    <2>1. /\ ProgramWord(0) = Reg2("ADD", 16, 18) /\ ProgramWord(1) = Reg2("ADC", 17, 19)
          /\ routine = "add" /\ ProgramWord(PC) = RET
      BY Program DEF Routines, ProgramWord, Finished
    <2>2. PC \in 0..2
      BY <2>1 DEF AddRun
    <2> QED BY <2>1, <2>2 DEF Reg2, RET, Plain
  <1>2. Holds(16, l, h) /\ Shown(AddFlags(h, XH, YH))
    BY <1>1 DEF AddRun
  <1>3. /\ X \in 0..(Word - 1) /\ Y \in 0..(Word - 1) /\ 0 \in {0, 1}
        /\ X + Y = X + Y + 0
        /\ SignedWord(X) + SignedWord(Y) = SignedWord(X) + SignedWord(Y) + 0
    BY ExactAsIs DEF InputTyped
  <1>4. Pair(16) = l + Byte * h
    BY <1>2, Zenon DEF Pair, Holds
  <1>5. Shows(Pair(16), X + Y, SignedWord(X) + SignedWord(Y))
    BY <1>2, <1>3, <1>4, SumShown DEF XL, XH, YL, YH
  <1>6. "H" \in sreg <=> get_add_carry(h, XH, YH, HalfNibble)
    BY <1>2, FlagsAre DEF Shown, Results
  <1>7. get_add_carry(h, XH, YH, HalfNibble) <=> LowPart(X) + LowPart(Y) >= LowHalf
    BY <1>3, WordsHalfCarry DEF XL, XH, YL, YH
  <1> HIDE DEF h
  <1> QED BY <1>5, <1>6, <1>7

(* ADC of zero and the carry set by hand. *)
LEMMA Plus1Ends ==
    ASSUME InputTyped, Plus1Run, Finished("plus1")
    PROVE  Shows(Pair(16), X + 1, SignedWord(X) + 1)
  <1> DEFINE l == Sum(XL, 0, 1)
             d == CarryOf(XL, 0, 1)
             h == Sum(XH, 0, d)
  <1>1. routine = "plus1" /\ PC = 4
    <2>1. /\ ProgramWord(0) = RegK("LDI", 20, 0) /\ ProgramWord(1) = Flag("BSET", "C")
          /\ ProgramWord(2) = Reg2("ADC", 16, 20) /\ ProgramWord(3) = Reg2("ADC", 17, 20)
          /\ routine = "plus1" /\ ProgramWord(PC) = RET
      BY Program DEF Routines, ProgramWord, Finished
    <2>2. PC \in 0..4
      BY <2>1 DEF Plus1Run
    <2> QED BY <2>1, <2>2 DEF RegK, Flag, Reg2, RET, Plain
  <1>2. Holds(16, l, h) /\ Shown(AddFlags(h, XH, 0))
    BY <1>1 DEF Plus1Run
  <1>3. /\ X \in 0..(Word - 1) /\ 0 \in 0..(Word - 1) /\ 1 \in {0, 1}
        /\ 0 % Byte = 0 /\ 0 \div Byte = 0
        /\ X + 1 = X + 0 + 1
        /\ SignedWord(X) + 1 = SignedWord(X) + SignedWord(0) + 1
    <2>1. X \in Int /\ SignedWord(X) \in Int /\ SignedWord(0) = 0 /\ 0 \in 0..(Word - 1)
      BY SmallWords, WordIs DEF InputTyped, SignedWord
    <2> QED BY <2>1, Widths DEF InputTyped
  <1>4. Pair(16) = l + Byte * h
    BY <1>2, Zenon DEF Pair, Holds
  <1> QED BY <1>2, <1>3, <1>4, SumShown DEF XL, XH

(* SUB and SBC. *)
LEMMA SubEnds ==
    ASSUME InputTyped, SubRun, Finished("sub")
    PROVE  /\ Shows(Pair(16), X - Y, SignedWord(X) - SignedWord(Y))
           /\ ShowsZero(X - Y)
           /\ ("H" \in sreg) = (LowPart(X) < LowPart(Y))
  <1> DEFINE l == Diff(XL, YL, 0)
             d == BorrowOf(XL, YL, 0)
             h == Diff(XH, YH, d)
  <1>1. routine = "sub" /\ PC = 2
    <2>1. /\ ProgramWord(0) = Reg2("SUB", 16, 18) /\ ProgramWord(1) = Reg2("SBC", 17, 19)
          /\ routine = "sub" /\ ProgramWord(PC) = RET
      BY Program DEF Routines, ProgramWord, Finished
    <2>2. PC \in 0..2
      BY <2>1 DEF SubRun
    <2> QED BY <2>1, <2>2 DEF Reg2, RET, Plain
  <1>2. Holds(16, l, h) /\ Shown(SubFlags(h, XH, YH)) /\ ("Z" \in sreg <=> h = 0 /\ l = 0)
    BY <1>1 DEF SubRun
  <1>3. X \in 0..(Word - 1) /\ Y \in 0..(Word - 1)
    BY DEF InputTyped
  <1>4. Pair(16) = l + Byte * h
    BY <1>2, Zenon DEF Pair, Holds
  <1>5. Shows(Pair(16), X - Y, SignedWord(X) - SignedWord(Y)) /\ ShowsZero(X - Y)
    BY <1>2, <1>3, <1>4, DifferenceShown DEF XL, XH, YL, YH
  <1>6. "H" \in sreg <=> get_sub_carry(h, XH, YH, HalfNibble)
    BY <1>2, FlagsAre DEF Shown, Results
  <1>7. get_sub_carry(h, XH, YH, HalfNibble) <=> LowPart(X) < LowPart(Y)
    BY <1>3, WordsHalfCarry DEF XL, XH, YL, YH
  <1> HIDE DEF h
  <1> QED BY <1>5, <1>6, <1>7

(* SUBI and SBCI. *)
LEMMA SubiEnds ==
    ASSUME InputTyped, SubiRun, Finished("subi")
    PROVE  Shows(Pair(16), X - K, SignedWord(X) - K) /\ ShowsZero(X - K)
  <1> DEFINE KL == K % Byte
             KH == K \div Byte
             l == Diff(XL, KL, 0)
             d == BorrowOf(XL, KL, 0)
             h == Diff(XH, KH, d)
  <1>1. routine = "subi" /\ PC = 2
    <2>1. /\ ProgramWord(0) = RegK("SUBI", 16, KL) /\ ProgramWord(1) = RegK("SBCI", 17, KH)
          /\ routine = "subi" /\ ProgramWord(PC) = RET
      BY Program DEF Routines, ProgramWord, Finished
    <2>2. PC \in 0..2
      BY <2>1 DEF SubiRun
    <2> HIDE DEF KL, KH
    <2> QED BY <2>1, <2>2 DEF RegK, RET, Plain
  <1>2. Holds(16, l, h) /\ Shown(SubFlags(h, XH, KH)) /\ ("Z" \in sreg <=> h = 0 /\ l = 0)
    BY <1>1, Zenon DEF SubiRun
  <1>3. X \in 0..(Word - 1) /\ K \in 0..(Word - 1) /\ SignedWord(K) = K
    BY SmallWords DEF InputTyped, K
  <1>4. Pair(16) = l + Byte * h
    BY <1>2, Zenon DEF Pair, Holds
  <1> QED BY <1>2, <1>3, <1>4, DifferenceShown DEF XL, XH

(* CP and CPC leave the operands alone. *)
LEMMA CmpEnds ==
    ASSUME InputTyped, CmpRun, Finished("cmp")
    PROVE  /\ Shows((X - Y) % Word, X - Y, SignedWord(X) - SignedWord(Y))
           /\ ShowsZero(X - Y)
           /\ Pair(16) = X /\ Pair(18) = Y
  <1> DEFINE l == Diff(XL, YL, 0)
             d == BorrowOf(XL, YL, 0)
             h == Diff(XH, YH, d)
             v == l + Byte * h
  <1>1. routine = "cmp" /\ PC = 2
    <2>1. /\ ProgramWord(0) = Reg2("CP", 16, 18) /\ ProgramWord(1) = Reg2("CPC", 17, 19)
          /\ routine = "cmp" /\ ProgramWord(PC) = RET
      BY Program DEF Routines, ProgramWord, Finished
    <2>2. PC \in 0..2
      BY <2>1 DEF CmpRun
    <2> QED BY <2>1, <2>2 DEF Reg2, RET, Plain
  <1>2. /\ Holds(16, XL, XH) /\ Holds(18, YL, YH)
        /\ Shown(SubFlags(h, XH, YH)) /\ ("Z" \in sreg <=> h = 0 /\ l = 0)
    BY <1>1 DEF CmpRun, Compared2
  <1>3. X \in 0..(Word - 1) /\ Y \in 0..(Word - 1)
    BY DEF InputTyped
  <1>4. /\ Shows(v, X - Y, SignedWord(X) - SignedWord(Y))
        /\ v = (X - Y) % Word /\ ShowsZero(X - Y)
    BY <1>2, <1>3, DifferenceShown DEF XL, XH, YL, YH
  <1> HIDE DEF v
  <1>5. Pair(16) = X /\ Pair(18) = Y
    BY <1>2, PairIs DEF Pair, Holds
  <1> QED BY <1>4, <1>5, Zenon

(* CPI and CPC, with the high register of the constant in a register. *)
LEMMA CmpiEnds ==
    ASSUME InputTyped, CmpiRun, Finished("cmpi")
    PROVE  ("C" \in sreg) = (X < K) /\ ShowsZero(X - K)
  <1> DEFINE KL == K % Byte
             KH == K \div Byte
             l == Diff(XL, KL, 0)
             d == BorrowOf(XL, KL, 0)
             h == Diff(XH, KH, d)
             v == l + Byte * h
  <1>1. routine = "cmpi" /\ PC = 3
    <2>1. /\ ProgramWord(0) = RegK("LDI", 20, KH) /\ ProgramWord(1) = RegK("CPI", 16, KL)
          /\ ProgramWord(2) = Reg2("CPC", 17, 20)
          /\ routine = "cmpi" /\ ProgramWord(PC) = RET
      BY Program DEF Routines, ProgramWord, Finished
    <2>2. PC \in 0..3
      BY <2>1 DEF CmpiRun
    <2> HIDE DEF KL, KH
    <2> QED BY <2>1, <2>2 DEF RegK, Reg2, RET, Plain
  <1>2. Shown(SubFlags(h, XH, KH)) /\ ("Z" \in sreg <=> h = 0 /\ l = 0)
    BY <1>1, Zenon DEF CmpiRun
  <1>3. X \in 0..(Word - 1) /\ K \in 0..(Word - 1)
    BY SmallWords DEF InputTyped, K
  <1>4. Shows(v, X - K, SignedWord(X) - SignedWord(K)) /\ ShowsZero(X - K)
    BY <1>2, <1>3, DifferenceShown DEF XL, XH
  <1> HIDE DEF v
  <1>5. ("C" \in sreg) = (X - K \notin 0..(Word - 1))
    BY <1>4 DEF Shows
  <1>6. X - K \notin 0..(Word - 1) <=> X < K
    BY <1>3, WordIs
  <1> QED BY <1>4, <1>5, <1>6

(* The branches on S and C. *)
LEMMA MaxEnds ==
    ASSUME InputTyped, MaxRun, Finished("max")
    PROVE  Pair(16) = IF SignedWord(X) >= SignedWord(Y) THEN X ELSE Y
  <1>1. routine = "max" /\ PC = 4
    <2>1. /\ ProgramWord(0) = Reg2("CP", 16, 18) /\ ProgramWord(1) = Reg2("CPC", 17, 19)
          /\ ProgramWord(2) = If("BRBC", "S", 1) /\ ProgramWord(3) = Reg2("MOVW", 16, 18)
          /\ routine = "max" /\ ProgramWord(PC) = RET
      BY Program DEF Routines, ProgramWord, Finished
    <2>2. PC \in 0..4
      BY <2>1 DEF MaxRun
    <2> QED BY <2>1, <2>2 DEF Reg2, If, RET, Plain
  <1>2. \/ SignedWord(X) >= SignedWord(Y) /\ Holds(16, XL, XH)
        \/ SignedWord(X) < SignedWord(Y) /\ Holds(16, YL, YH)
    BY <1>1 DEF MaxRun
  <1>3. SignedWord(X) \in Int /\ SignedWord(Y) \in Int
    BY WordIs DEF InputTyped, SignedWord
  <1>4. /\ Holds(16, XL, XH) => Pair(16) = X
        /\ Holds(16, YL, YH) => Pair(16) = Y
    BY PairIs DEF Holds, Pair
  <1> QED BY <1>2, <1>3, <1>4

(* min ends with the smaller number, unsigned. *)
LEMMA MinEnds ==
    ASSUME InputTyped, MinRun, Finished("min")
    PROVE  Pair(16) = IF X < Y THEN X ELSE Y
  <1>1. routine = "min" /\ PC = 4
    <2>1. /\ ProgramWord(0) = Reg2("CP", 16, 18) /\ ProgramWord(1) = Reg2("CPC", 17, 19)
          /\ ProgramWord(2) = If("BRBS", "C", 1) /\ ProgramWord(3) = Reg2("MOVW", 16, 18)
          /\ routine = "min" /\ ProgramWord(PC) = RET
      BY Program DEF Routines, ProgramWord, Finished
    <2>2. PC \in 0..4
      BY <2>1 DEF MinRun
    <2> QED BY <2>1, <2>2 DEF Reg2, If, RET, Plain
  <1>2. \/ X < Y /\ Holds(16, XL, XH)
        \/ X >= Y /\ Holds(16, YL, YH)
    BY <1>1 DEF MinRun
  <1>3. X \in Int /\ Y \in Int
    BY WordIs DEF InputTyped
  <1>4. /\ Holds(16, XL, XH) => Pair(16) = X
        /\ Holds(16, YL, YH) => Pair(16) = Y
    BY PairIs DEF Holds, Pair
  <1> QED BY <1>2, <1>3, <1>4

(* COM, NEG and SBCI of the highest number: NEG borrows when its result is  *)
(* not zero, and COM makes up for the number that SBCI takes away.          *)
LEMMA NegEnds ==
    ASSUME InputTyped, NegRun, Finished("neg")
    PROVE  Pair(16) = (0 - X) % Word
  <1> DEFINE l == Diff(0, XL, 0)
             c == IF l = 0 THEN 0 ELSE 1
             m == (Byte - 1) - XH
             h == Diff(m, Byte - 1, c)
  <1>1. routine = "neg" /\ PC = 3
    <2>1. /\ ProgramWord(0) = Reg1("COM", 17) /\ ProgramWord(1) = Reg1("NEG", 16)
          /\ ProgramWord(2) = RegK("SBCI", 17, Byte - 1)
          /\ routine = "neg" /\ ProgramWord(PC) = RET
      BY Program DEF Routines, ProgramWord, Finished
    <2>2. PC \in 0..3
      BY <2>1 DEF NegRun
    <2> QED BY <2>1, <2>2 DEF Reg1, RegK, RET, Plain
  <1>2. Holds(16, l, h)
    BY <1>1, Zenon DEF NegRun
  <1>3. X \in 0..(Word - 1) /\ 0 \in 0..(Word - 1) /\ 0 \in {0, 1} /\ X \in Int
    BY WordIs DEF InputTyped
  <1>4. 0 % Byte = 0 /\ 0 \div Byte = 0 /\ 0 \in Bytes /\ Byte \in Nat \ {0}
    BY Widths DEF Bytes
  <1>5. XL \in Bytes /\ XH \in Bytes
    BY <1>3, Digits DEF XL, XH
  <1>6. c = BorrowOf(0, XL, 0)
    <2> DEFINE borrow == get_sub_carry(l, 0, XL, Half)
    <2>1. l - (IF borrow THEN Byte ELSE 0) = 0 - XL - 0
      BY <1>3, <1>4, <1>5, SubIsExact
    <2>2. l \in Bytes
      BY <1>3, <1>4, <1>5, DiffIs
    <2>3. BorrowOf(0, XL, 0) = IF borrow THEN 1 ELSE 0
      BY DEF BorrowOf
    <2> HIDE DEF l, borrow
    <2> QED BY <2>1, <2>2, <2>3, <1>4, <1>5 DEF Bytes
  <1>7. h = Diff(0, XH, c)
    <2>1. c \in Int /\ XH \in Int
      BY <1>5 DEF Bytes
    <2> HIDE DEF c
    <2>2. m - (Byte - 1) - c = 0 - XH - c
      BY <2>1, <1>4
    <2> HIDE DEF m
    <2> QED BY <2>2, Zenon DEF Diff
  <1> HIDE DEF h, c
  <1>8. l + Byte * h = (0 - X - 0) % Word
    BY <1>3, <1>4, <1>6, <1>7, WordsSub DEF XL, XH
  <1> HIDE DEF l
  <1>9. 0 - X - 0 = 0 - X
    BY <1>3
  <1> QED BY <1>2, <1>8, <1>9, Zenon DEF Pair, Holds

(* ADIW and SBIW tell the carry from the highest bits before and after.     *)
LEMMA AdiwEnds ==
    ASSUME InputTyped, AdiwRun, Finished("adiw")
    PROVE  Shows(Pair(24), X + 3, SignedWord(X) + 3) /\ ShowsZero(Pair(24))
  <1> DEFINE res == (X + 3) % Word
             r7  == Bit(XH, Half)
             r15 == Bit(res, Byte * Half)
             F   == WordFlags(res, ~r7 /\ r15, ~r15 /\ r7) \cup ZeroFlag(res)
             H   == Word \div 2
  <1>1. routine = "adiw" /\ PC = 2
    <2>1. /\ ProgramWord(0) = Reg2("MOVW", 24, 16) /\ ProgramWord(1) = RegK("ADIW", 24, 3)
          /\ routine = "adiw" /\ ProgramWord(PC) = RET
      BY Program DEF Routines, ProgramWord, Finished
    <2>2. PC \in 0..2
      BY <2>1 DEF AdiwRun
    <2> QED BY <2>1, <2>2 DEF Reg2, RegK, RET, Plain
  <1>2. Holds(24, res % Byte, res \div Byte) /\ \A f \in Shift : f \in sreg <=> f \in F
    BY <1>1, Zenon DEF AdiwRun
  <1>3. /\ X \in 0..(Word - 1) /\ Word = 2 * H /\ H \in Nat /\ H >= 128
    BY SmallWords DEF InputTyped
  <1>4. res \in 0..(Word - 1)
    BY <1>3
  <1>5. Pair(24) = res
    BY <1>2, <1>4, Digits DEF Pair, Holds
  <1>6. /\ r7 <=> X >= H
        /\ r15 <=> res >= H
    BY <1>3, <1>4, WordBits DEF XH
  <1>7. /\ "C" \in sreg <=> ~r15 /\ r7
        /\ "V" \in sreg <=> ~r7 /\ r15
        /\ "N" \in sreg <=> r15
        /\ "S" \in sreg <=> r15 /\ r7
        /\ "Z" \in sreg <=> res = 0
    <2>1. /\ "C" \in F <=> ~r15 /\ r7
          /\ "V" \in F <=> ~r7 /\ r15
          /\ "N" \in F <=> r15
          /\ "S" \in F <=> r15 # (~r7 /\ r15)
          /\ "Z" \in F <=> res = 0
      BY WordFlagsAre
    <2> HIDE DEF F
    <2>2. r15 # (~r7 /\ r15) <=> r15 /\ r7
      BY DEF Bit
    <2> QED BY <1>2, <2>1, <2>2, Zenon DEF Shift
  <1>8. res = IF X + 3 < Word THEN X + 3 ELSE X + 3 - Word
    BY <1>3
  <1> DEFINE s == SignedWord(X) + 3
             e == X + 3
  <1>9. e \in Int /\ e = X + 3 /\ s \in Int /\ s = IF X >= H THEN e - Word ELSE e
    BY <1>3 DEF SignedWord
  <1>10. FitsWord(s) <=> s >= 0 - H /\ s <= H - 1
    BY <1>3, <1>9 DEF FitsWord
  <1>11. res = e % Word
    OBVIOUS
  <1> HIDE DEF res, r7, r15, s, e, H
  <1>12. /\ r15 /\ r7 <=> s < 0
         /\ ~r15 /\ r7 <=> e \notin 0..(Word - 1)
         /\ ~r7 /\ r15 <=> ~FitsWord(s)
    BY <1>3, <1>4, <1>6, <1>8, <1>9, <1>10
  <1>13. Shows(res, e, s)
    BY <1>6, <1>7, <1>11, <1>12 DEF Shows, H
  <1>14. ShowsZero(res)
    BY <1>3, <1>4, <1>7 DEF ShowsZero
  <1> QED BY <1>5, <1>13, <1>14 DEF s, e

(* SBIW tells the borrow from the same two bits. *)
LEMMA SbiwEnds ==
    ASSUME InputTyped, SbiwRun, Finished("sbiw")
    PROVE  Shows(Pair(24), X - 3, SignedWord(X) - 3) /\ ShowsZero(X - 3)
  <1> DEFINE res == (X - 3) % Word
             r7  == Bit(XH, Half)
             r15 == Bit(res, Byte * Half)
             F   == WordFlags(res, r7 /\ ~r15, r15 /\ ~r7) \cup ZeroFlag(res)
             H   == Word \div 2
  <1>1. routine = "sbiw" /\ PC = 2
    <2>1. /\ ProgramWord(0) = Reg2("MOVW", 24, 16) /\ ProgramWord(1) = RegK("SBIW", 24, 3)
          /\ routine = "sbiw" /\ ProgramWord(PC) = RET
      BY Program DEF Routines, ProgramWord, Finished
    <2>2. PC \in 0..2
      BY <2>1 DEF SbiwRun
    <2> QED BY <2>1, <2>2 DEF Reg2, RegK, RET, Plain
  <1>2. Holds(24, res % Byte, res \div Byte) /\ \A f \in Shift : f \in sreg <=> f \in F
    BY <1>1, Zenon DEF SbiwRun
  <1>3. /\ X \in 0..(Word - 1) /\ Word = 2 * H /\ H \in Nat /\ H >= 128
    BY SmallWords DEF InputTyped
  <1>4. res \in 0..(Word - 1)
    BY <1>3
  <1>5. Pair(24) = res
    BY <1>2, <1>4, Digits DEF Pair, Holds
  <1>6. /\ r7 <=> X >= H
        /\ r15 <=> res >= H
    BY <1>3, <1>4, WordBits DEF XH
  <1>7. /\ "C" \in sreg <=> r15 /\ ~r7
        /\ "V" \in sreg <=> r7 /\ ~r15
        /\ "N" \in sreg <=> r15
        /\ "S" \in sreg <=> r15 \/ r7
        /\ "Z" \in sreg <=> res = 0
    <2>1. /\ "C" \in F <=> r15 /\ ~r7
          /\ "V" \in F <=> r7 /\ ~r15
          /\ "N" \in F <=> r15
          /\ "S" \in F <=> r15 # (r7 /\ ~r15)
          /\ "Z" \in F <=> res = 0
      BY WordFlagsAre
    <2> HIDE DEF F
    <2>2. r15 # (r7 /\ ~r15) <=> r15 \/ r7
      BY DEF Bit
    <2> QED BY <1>2, <2>1, <2>2, Zenon DEF Shift
  <1>8. res = IF X - 3 >= 0 THEN X - 3 ELSE X - 3 + Word
    BY <1>3
  <1> DEFINE s == SignedWord(X) - 3
             e == X - 3
  <1>9. e \in Int /\ e = X - 3 /\ s \in Int /\ s = IF X >= H THEN e - Word ELSE e
    BY <1>3 DEF SignedWord
  <1>10. FitsWord(s) <=> s >= 0 - H /\ s <= H - 1
    BY <1>3, <1>9 DEF FitsWord
  <1>11. res = e % Word
    OBVIOUS
  <1> HIDE DEF res, r7, r15, s, e, H
  <1>12. /\ r15 \/ r7 <=> s < 0
         /\ r15 /\ ~r7 <=> e \notin 0..(Word - 1)
         /\ r7 /\ ~r15 <=> ~FitsWord(s)
    BY <1>3, <1>4, <1>6, <1>8, <1>9, <1>10
  <1>13. Shows(res, e, s)
    BY <1>6, <1>7, <1>11, <1>12 DEF Shows, H
  <1>14. ShowsZero(e)
    BY <1>7, <1>11 DEF ShowsZero
  <1> QED BY <1>5, <1>13, <1>14 DEF s, e

----------------------------------------------------------------------------
(* The loop over memory                                                     *)

(* The accesses through pointers that do not point at registers. *)
LEMMA PointersRun ==
    ASSUME [Next]_vars, ~Paused, NEW d, NEW p, NEW q
    PROVE  /\ ProgramWord(PC) = Mem("LD_incr", d, p) =>
                Loads(WithPair([gpwr EXCEPT ![d] = MemRead(gpwr, Pair(p))],
                               p, Wrapped(Pair(p) + 1)), 1, 2)
           /\ ProgramWord(PC) = MemQ("LDD", d, p, q) =>
                Loads([gpwr EXCEPT ![d] = MemRead(gpwr, Pair(p) + q)], 1, 2)
           /\ ProgramWord(PC) = Mem("ST_incr", d, p) /\ Pair(p) \notin 0..31 =>
                /\ gpwr' = WithPair(gpwr, p, Wrapped(Pair(p) + 1))
                /\ sram' = IF Pair(p) \in Sram THEN [sram EXCEPT ![Pair(p)] = gpwr[d]] ELSE sram
                /\ Advances(1, 2) /\ sreg' = sreg
  <1>1. I = ProgramWord(PC) /\ Dispatched
    BY StepRuns
  <1>2. ASSUME I = Mem("LD_incr", d, p) PROVE avr_op_LD_incr /\ I.d = d /\ I.p = p
    BY <1>1, <1>2 DEF Dispatched, Mem
  <1>3. ASSUME I = MemQ("LDD", d, p, q) PROVE avr_op_LDD /\ I.d = d /\ I.p = p /\ I.q = q
    BY <1>1, <1>3 DEF Dispatched, MemQ
  <1>4. ASSUME I = Mem("ST_incr", d, p) PROVE avr_op_ST_incr /\ I.d = d /\ I.p = p
    BY <1>1, <1>4 DEF Dispatched, Mem
  <1>5. ASSUME I = Mem("LD_incr", d, p)
        PROVE  Loads(WithPair([gpwr EXCEPT ![d] = MemRead(gpwr, Pair(p))],
                              p, Wrapped(Pair(p) + 1)), 1, 2)
    BY <1>2, <1>5, Zenon DEF avr_op_LD_incr, MoveOp, Continue, Loads, Advances
  <1>6. ASSUME I = MemQ("LDD", d, p, q)
        PROVE  Loads([gpwr EXCEPT ![d] = MemRead(gpwr, Pair(p) + q)], 1, 2)
    BY <1>3, <1>6, Zenon DEF avr_op_LDD, Load, MoveOp, Continue, Loads, Advances
  <1>7. ASSUME I = Mem("ST_incr", d, p), Pair(p) \notin 0..31
        PROVE  /\ gpwr' = WithPair(gpwr, p, Wrapped(Pair(p) + 1))
               /\ sram' = IF Pair(p) \in Sram THEN [sram EXCEPT ![Pair(p)] = gpwr[d]] ELSE sram
               /\ Advances(1, 2) /\ sreg' = sreg
    BY <1>4, <1>7, Zenon DEF avr_op_ST_incr, Store, Stored, Continue, Advances
  <1> QED BY <1>1, <1>5, <1>6, <1>7, Zenon

(* Registers that hold the address a, as Low and High leave them. *)
At(regs, p, a) == regs[p] = a % Byte /\ regs[p + 1] = a \div Byte

(* One turn of the loop over memory, which adds x, y and the carry c, with  *)
(* n turns to go: the pointers step, and DEC leaves the carry alone.        *)
Turn(n, x, y, c, regs, flags, pc) ==
    /\ DOMAIN regs = 0..31
    /\ At(regs, 26, IF pc = 6 THEN 98 - n ELSE 99 - n)
    /\ At(regs, 28, IF pc \in 6..9 THEN 100 - n ELSE 101 - n)
    /\ pc \in 6..10 => regs[20] = n
    /\ pc \in 6..8 => ("C" \in flags <=> c = 1)
    /\ pc \in {7, 8} => regs[0] = x
    /\ pc = 8 => regs[1] = y
    /\ pc = 9 => regs[0] = Sum(x, y, c)
    /\ pc \in 9..11 => ("C" \in flags <=> CarryOf(x, y, c) = 1)
    /\ pc = 11 => regs[20] = n - 1 /\ ("Z" \in flags <=> n = 1)

(* A pointer, and its neighbours. *)
LEMMA PointerIs ==
    ASSUME NEW p, NEW a \in 1..126, At(gpwr, p, a)
    PROVE  Pair(p) = a /\ Wrapped(Pair(p) + 1) = a + 1 /\ Wrapped(Pair(p) - 1) = a - 1
  <1>1. a \in 0..(Word - 1) /\ a + 1 \in 0..(Word - 1) /\ a - 1 \in 0..(Word - 1)
    BY SmallWords
  <1>2. a = (a % Byte) + Byte * (a \div Byte)
    BY <1>1, Digits
  <1>3. Pair(p) = a
    BY <1>2, Zenon DEF Pair, At
  <1>4. (a + 1) % Word = a + 1 /\ (a - 1) % Word = a - 1
    BY <1>1, WordIs
  <1> QED BY <1>3, <1>4 DEF Wrapped

(* The words of the loop. *)
LEMMA AddmWords ==
    ASSUME routine = "addm"
    PROVE  /\ ProgramWord(0) = RegK("LDI", 26, 96 % Byte)
           /\ ProgramWord(1) = RegK("LDI", 27, 96 \div Byte)
           /\ ProgramWord(2) = RegK("LDI", 28, 98 % Byte)
           /\ ProgramWord(3) = RegK("LDI", 29, 98 \div Byte)
           /\ ProgramWord(4) = RegK("LDI", 20, 2) /\ ProgramWord(5) = Flag("BCLR", "C")
           /\ ProgramWord(6) = Mem("LD_incr", 0, 26) /\ ProgramWord(7) = MemQ("LDD", 1, 28, 0)
           /\ ProgramWord(8) = Reg2("ADC", 0, 1) /\ ProgramWord(9) = Mem("ST_incr", 0, 28)
           /\ ProgramWord(10) = Reg1("DEC", 20) /\ ProgramWord(11) = If("BRBC", "Z", -6)
           /\ ProgramWord(12) = RET /\ PC_max = 13
  <1>1. /\ ProgramWord(0) = Low(26, 96) /\ ProgramWord(1) = High(26, 96)
        /\ ProgramWord(2) = Low(28, 98) /\ ProgramWord(3) = High(28, 98)
        /\ ProgramWord(4) = RegK("LDI", 20, 2) /\ ProgramWord(5) = Flag("BCLR", "C")
        /\ ProgramWord(6) = Mem("LD_incr", 0, 26) /\ ProgramWord(7) = MemQ("LDD", 1, 28, 0)
        /\ ProgramWord(8) = Reg2("ADC", 0, 1) /\ ProgramWord(9) = Mem("ST_incr", 0, 28)
        /\ ProgramWord(10) = Reg1("DEC", 20) /\ ProgramWord(11) = If("BRBC", "Z", -6)
        /\ ProgramWord(12) = RET /\ PC_max = 13
    BY Program DEF Routines, ProgramWord, PC_max
  <1> QED BY <1>1 DEF Low, High

(* A step inside a turn of the loop: the next part of Turn, and at ST the sum. *)
LEMMA TurnRuns ==
    ASSUME [Next]_vars, ~Paused, routine = "addm", DOMAIN sram = Sram,
           NEW n \in {1, 2}, NEW x, NEW y, NEW c \in {0, 1}, PC \in 6..10,
           Turn(n, x, y, c, gpwr, sreg, PC),
           sram[98 - n] = x, PC \in 6..9 => sram[100 - n] = y
    PROVE  /\ PC' = PC + 1 /\ Turn(n, x, y, c, gpwr', sreg', PC + 1)
           /\ sram' = IF PC = 9 THEN [sram EXCEPT ![100 - n] = Sum(x, y, c)] ELSE sram
  <1>1. routine = "addm" /\ PC_max = 13
    BY AddmWords
  <1>2. /\ 98 - n \in Sram /\ 98 - n \in 32..126 /\ 98 - n \notin 0..31
        /\ 100 - n \in Sram /\ 100 - n \in 32..126 /\ 100 - n \notin 0..31
        /\ 98 - n + 1 = 99 - n /\ 100 - n + 1 = 101 - n
    BY RoutinesAssumed DEF RoutinesAssumption
  <1>3. CASE PC = 6
    <2>1. At(gpwr, 26, 98 - n) /\ At(gpwr, 28, 100 - n) /\ gpwr[20] = n /\ DOMAIN gpwr = 0..31
          /\ ("C" \in sreg <=> c = 1)
      BY <1>3 DEF Turn
    <2>2. Pair(26) = 98 - n /\ Wrapped(Pair(26) + 1) = 99 - n
      BY <2>1, <1>2, PointerIs
    <2>3. MemRead(gpwr, 98 - n) = x
      BY <1>2 DEF MemRead
    <2>4. Loads(WithPair([gpwr EXCEPT ![0] = x], 26, 99 - n), 1, 2)
      <3>1. ProgramWord(PC) = Mem("LD_incr", 0, 26)
        BY <1>3, AddmWords
      <3> QED BY <3>1, <2>2, <2>3, PointersRun, Zenon
    <2>5. PC' = 7 /\ sreg' = sreg /\ sram' = sram
      BY <2>4, <1>1, <1>3 DEF Loads, Advances, AdjustPC
    <2> DEFINE l == (99 - n) % Byte
               h == (99 - n) \div Byte
    <2>6. gpwr' = [[gpwr EXCEPT ![0] = x] EXCEPT ![26] = l, ![26 + 1] = h]
      BY <2>4, Zenon DEF Loads, WithPair
    <2> HIDE DEF l, h
    <2>7. /\ DOMAIN gpwr' = 0..31 /\ gpwr'[26] = l /\ gpwr'[26 + 1] = h /\ gpwr'[0] = x
          /\ gpwr'[20] = gpwr[20] /\ gpwr'[28] = gpwr[28] /\ gpwr'[28 + 1] = gpwr[28 + 1]
      BY <2>1, <2>6
    <2>8. At(gpwr', 26, 99 - n) /\ At(gpwr', 28, 100 - n)
      BY <2>1, <2>7, Zenon DEF At, l, h
    <2> QED BY <2>1, <2>5, <2>7, <2>8, <1>3 DEF Turn
  <1>4. CASE PC = 7
    <2>1. At(gpwr, 26, 99 - n) /\ At(gpwr, 28, 100 - n) /\ gpwr[20] = n /\ DOMAIN gpwr = 0..31
          /\ ("C" \in sreg <=> c = 1) /\ gpwr[0] = x
      BY <1>4 DEF Turn
    <2>2. Pair(28) + 0 = 100 - n
      BY <2>1, <1>2, PointerIs
    <2>3. MemRead(gpwr, 100 - n) = y
      BY <1>2, <1>4 DEF MemRead
    <2>4. Loads([gpwr EXCEPT ![1] = y], 1, 2)
      <3>1. ProgramWord(PC) = MemQ("LDD", 1, 28, 0)
        BY <1>4, AddmWords
      <3> QED BY <3>1, <2>2, <2>3, PointersRun, Zenon
    <2>5. PC' = 8 /\ sreg' = sreg /\ sram' = sram /\ gpwr' = [gpwr EXCEPT ![1] = y]
      BY <2>4, <1>1, <1>4 DEF Loads, Advances, AdjustPC
    <2>6. /\ DOMAIN gpwr' = 0..31 /\ gpwr'[1] = y /\ gpwr'[0] = x /\ gpwr'[20] = n
          /\ At(gpwr', 26, 99 - n) /\ At(gpwr', 28, 100 - n)
      BY <2>1, <2>5 DEF At
    <2> QED BY <2>1, <2>5, <2>6, <1>4 DEF Turn
  <1>5. CASE PC = 8
    <2>1. At(gpwr, 26, 99 - n) /\ At(gpwr, 28, 100 - n) /\ gpwr[20] = n /\ DOMAIN gpwr = 0..31
          /\ ("C" \in sreg <=> c = 1) /\ gpwr[0] = x /\ gpwr[1] = y
      BY <1>5 DEF Turn
    <2>2. Carry = c
      BY <2>1 DEF Carry
    <2>3. AddsTo(0, x, y, c)
      <3>1. ProgramWord(PC) = Reg2("ADC", 0, 1)
        BY <1>5, AddmWords
      <3> QED BY <3>1, <2>1, <2>2, AdditionsRun, Zenon
    <2>4. Carry' = CarryOf(x, y, c)
      BY <2>3, FlagsAfterAdding
    <2>5. "C" \in sreg' <=> CarryOf(x, y, c) = 1
      BY <2>4 DEF Carry
    <2>6. PC' = 9 /\ sram' = sram /\ gpwr' = [gpwr EXCEPT ![0] = Sum(x, y, c)]
      BY <2>3, <1>1, <1>5 DEF AddsTo, Writes, Advances, AdjustPC
    <2>7. /\ DOMAIN gpwr' = 0..31 /\ gpwr'[0] = Sum(x, y, c) /\ gpwr'[20] = n
          /\ At(gpwr', 26, 99 - n) /\ At(gpwr', 28, 100 - n)
      BY <2>1, <2>6 DEF At
    <2> QED BY <2>5, <2>6, <2>7, <1>5 DEF Turn
  <1>6. CASE PC = 9
    <2>1. At(gpwr, 26, 99 - n) /\ At(gpwr, 28, 100 - n) /\ gpwr[20] = n /\ DOMAIN gpwr = 0..31
          /\ ("C" \in sreg <=> CarryOf(x, y, c) = 1) /\ gpwr[0] = Sum(x, y, c)
      BY <1>6 DEF Turn
    <2>2. Pair(28) = 100 - n /\ Wrapped(Pair(28) + 1) = 101 - n
      BY <2>1, <1>2, PointerIs
    <2>3. /\ gpwr' = WithPair(gpwr, 28, 101 - n)
          /\ sram' = [sram EXCEPT ![100 - n] = Sum(x, y, c)]
          /\ Advances(1, 2) /\ sreg' = sreg
      <3>1. ProgramWord(PC) = Mem("ST_incr", 0, 28)
        BY <1>6, AddmWords
      <3>2. Pair(28) \notin 0..31 /\ Pair(28) \in Sram
        BY <2>2, <1>2
      <3>3. /\ gpwr' = WithPair(gpwr, 28, Wrapped(Pair(28) + 1))
            /\ sram' = IF Pair(28) \in Sram THEN [sram EXCEPT ![Pair(28)] = gpwr[0]] ELSE sram
            /\ Advances(1, 2) /\ sreg' = sreg
        BY <3>1, <3>2, PointersRun, Zenon
      <3>4. sram' = [sram EXCEPT ![Pair(28)] = gpwr[0]]
        BY <3>2, <3>3
      <3>5. gpwr' = WithPair(gpwr, 28, 101 - n)
        BY <3>3, <2>2, Zenon
      <3>6. sram' = [sram EXCEPT ![100 - n] = Sum(x, y, c)]
        BY <3>4, <2>1, <2>2, Zenon
      <3> QED BY <3>3, <3>5, <3>6, Zenon
    <2>4. PC' = 10
      BY <2>3, <1>1, <1>6 DEF Advances, AdjustPC
    <2> DEFINE l == (101 - n) % Byte
               h == (101 - n) \div Byte
    <2>5. gpwr' = [gpwr EXCEPT ![28] = l, ![28 + 1] = h]
      BY <2>3, Zenon DEF WithPair
    <2> HIDE DEF l, h
    <2>6. /\ DOMAIN gpwr' = 0..31 /\ gpwr'[28] = l /\ gpwr'[28 + 1] = h
          /\ gpwr'[20] = n /\ gpwr'[26] = gpwr[26] /\ gpwr'[26 + 1] = gpwr[26 + 1]
      BY <2>1, <2>5
    <2>7. At(gpwr', 26, 99 - n) /\ At(gpwr', 28, 101 - n)
      BY <2>1, <2>6, Zenon DEF At, l, h
    <2> QED BY <2>1, <2>3, <2>4, <2>6, <2>7, <1>6 DEF Turn
  <1>7. CASE PC = 10
    <2>1. At(gpwr, 26, 99 - n) /\ At(gpwr, 28, 101 - n) /\ gpwr[20] = n /\ DOMAIN gpwr = 0..31
          /\ ("C" \in sreg <=> CarryOf(x, y, c) = 1)
      BY <1>7 DEF Turn
    <2>2. Diff(n, 1, 0) = n - 1
      <3>1. n - 1 - 0 = n - 1 /\ n - 1 \in 0..1 /\ Byte \in Nat /\ Byte > 1
        BY Widths
      <3> QED BY <3>1 DEF Diff
    <2> DEFINE F == SignFlags(Bit(n - 1, Half), n = Half) \cup ZeroFlag(n - 1)
    <2>3. Writes(20, n - 1, Logic, F)
      <3>1. ProgramWord(PC) = Reg1("DEC", 20)
        BY <1>7, AddmWords
      <3>2. Writes(20, Diff(gpwr[20], 1, 0), Logic,
                   SignFlags(Bit(Diff(gpwr[20], 1, 0), Half), gpwr[20] = Half)
                   \cup ZeroFlag(Diff(gpwr[20], 1, 0)))
        BY <3>1, SinglesRun, Zenon
      <3>3. gpwr[20] = n
        BY <2>1
      <3> QED BY <3>2, <3>3, <2>2, Zenon
    <2>4. /\ PC' = 11 /\ sram' = sram /\ gpwr' = [gpwr EXCEPT ![20] = n - 1]
          /\ sreg' = (sreg \ Logic) \cup F
      BY <2>3, <1>1, <1>7 DEF Writes, Advances, AdjustPC
    <2>5. "C" \notin F /\ ("Z" \in F <=> n - 1 = 0)
      BY DEF SignFlags, ZeroFlag, On
    <2> HIDE DEF F
    <2>6. ("C" \in sreg' <=> "C" \in sreg) /\ ("Z" \in sreg' <=> n = 1)
      BY <2>4, <2>5 DEF Logic
    <2>7. /\ DOMAIN gpwr' = 0..31 /\ gpwr'[20] = n - 1
          /\ At(gpwr', 26, 99 - n) /\ At(gpwr', 28, 101 - n)
      BY <2>1, <2>4 DEF At
    <2> QED BY <2>1, <2>4, <2>6, <2>7, <1>7 DEF Turn
  <1> QED BY <1>3, <1>4, <1>5, <1>6, <1>7


(* The pointers and the counter being loaded, up to address pc. *)
Prepared(regs, pc) ==
    /\ pc \in 1..5 => regs[26] = 96 % Byte
    /\ pc \in 2..5 => regs[27] = 96 \div Byte
    /\ pc \in 3..5 => regs[28] = 98 % Byte
    /\ pc \in 4..5 => regs[29] = 98 \div Byte
    /\ pc = 5 => regs[20] = 2

(* The sum in memory, with the carry from its first digit to its second. *)
LowSum   == Sum(XL, YL, 0)
Carried  == CarryOf(XL, YL, 0)
HighSum  == Sum(XH, YH, Carried)

(* The loop of addm: X at 96 stays, Y at 98 becomes the sum digit by digit.  *)
AddmAt(regs, mem, flags, pc) ==
    /\ DOMAIN regs = 0..31 /\ DOMAIN mem = Sram /\ pc \in 0..12
    /\ mem[96] = XL /\ mem[97] = XH
    /\ pc \in 0..5 => Prepared(regs, pc) /\ mem[98] = YL /\ mem[99] = YH
    /\ pc \in 6..11 =>
         \/ /\ Turn(2, XL, YL, 0, regs, flags, pc)
            /\ mem[98] = (IF pc \in 10..11 THEN LowSum ELSE YL) /\ mem[99] = YH
         \/ /\ Turn(1, XH, YH, Carried, regs, flags, pc)
            /\ mem[98] = LowSum /\ mem[99] = (IF pc \in 10..11 THEN HighSum ELSE YH)
    /\ pc = 12 => /\ mem[98] = LowSum /\ mem[99] = HighSum
                  /\ "C" \in flags <=> CarryOf(XH, YH, Carried) = 1

(* addm: the loop at each of its addresses. *)
AddmRun == routine = "addm" => AddmAt(gpwr, sram, sreg, PC)

(* The first six words. *)
LEMMA AddmPrepares ==
    ASSUME AddmAt(gpwr, sram, sreg, PC), routine = "addm", [Next]_vars, ~Paused, PC \in 0..5
    PROVE  AddmAt(gpwr', sram', sreg', PC')
  <1>1. /\ DOMAIN gpwr = 0..31 /\ DOMAIN sram = Sram
        /\ sram[96] = XL /\ sram[97] = XH /\ sram[98] = YL /\ sram[99] = YH
        /\ Prepared(gpwr, PC)
    BY DEF AddmAt
  <1>2. PC_max = 13
    BY AddmWords
  <1>3. ASSUME NEW d \in 0..31, NEW k, ProgramWord(PC) = RegK("LDI", d, k)
        PROVE  PC' = PC + 1 /\ sram' = sram /\ gpwr' = [gpwr EXCEPT ![d] = k]
    <2>1. Loads([gpwr EXCEPT ![d] = k], 1, 1)
      BY <1>3, MovesRun
    <2> QED BY <2>1, <1>2 DEF Loads, Advances, AdjustPC
  <1>4. ASSUME PC' \in 1..5, sram' = sram, DOMAIN gpwr' = 0..31, Prepared(gpwr', PC')
        PROVE  AddmAt(gpwr', sram', sreg', PC')
    BY <1>1, <1>4 DEF AddmAt
  <1>5. CASE PC = 0
    <2> DEFINE k == 96 % Byte
    <2>1. PC' = 1 /\ sram' = sram /\ gpwr' = [gpwr EXCEPT ![26] = k]
      BY <1>3, <1>5, AddmWords
    <2> HIDE DEF k
    <2>2. DOMAIN gpwr' = 0..31 /\ gpwr'[26] = k
      BY <2>1, <1>1
    <2> QED BY <2>1, <2>2, <1>4 DEF Prepared, k
  <1>6. CASE PC = 1
    <2> DEFINE k == 96 \div Byte
    <2>1. PC' = 2 /\ sram' = sram /\ gpwr' = [gpwr EXCEPT ![27] = k]
      BY <1>3, <1>6, AddmWords
    <2>2. gpwr[26] = 96 % Byte
      BY <1>1, <1>6 DEF Prepared
    <2> HIDE DEF k
    <2>3. DOMAIN gpwr' = 0..31 /\ gpwr'[27] = k /\ gpwr'[26] = gpwr[26]
      BY <2>1, <1>1
    <2> QED BY <2>1, <2>2, <2>3, <1>4 DEF Prepared, k
  <1>7. CASE PC = 2
    <2> DEFINE k == 98 % Byte
    <2>1. PC' = 3 /\ sram' = sram /\ gpwr' = [gpwr EXCEPT ![28] = k]
      BY <1>3, <1>7, AddmWords
    <2>2. gpwr[26] = 96 % Byte /\ gpwr[27] = 96 \div Byte
      BY <1>1, <1>7 DEF Prepared
    <2> HIDE DEF k
    <2>3. DOMAIN gpwr' = 0..31 /\ gpwr'[28] = k /\ gpwr'[26] = gpwr[26] /\ gpwr'[27] = gpwr[27]
      BY <2>1, <1>1
    <2> QED BY <2>1, <2>2, <2>3, <1>4 DEF Prepared, k
  <1>8. CASE PC = 3
    <2> DEFINE k == 98 \div Byte
    <2>1. PC' = 4 /\ sram' = sram /\ gpwr' = [gpwr EXCEPT ![29] = k]
      BY <1>3, <1>8, AddmWords
    <2>2. gpwr[26] = 96 % Byte /\ gpwr[27] = 96 \div Byte /\ gpwr[28] = 98 % Byte
      BY <1>1, <1>8 DEF Prepared
    <2> HIDE DEF k
    <2>3. /\ DOMAIN gpwr' = 0..31 /\ gpwr'[29] = k
          /\ gpwr'[26] = gpwr[26] /\ gpwr'[27] = gpwr[27] /\ gpwr'[28] = gpwr[28]
      BY <2>1, <1>1
    <2> QED BY <2>1, <2>2, <2>3, <1>4 DEF Prepared, k
  <1>9. CASE PC = 4
    <2>1. PC' = 5 /\ sram' = sram /\ gpwr' = [gpwr EXCEPT ![20] = 2]
      BY <1>3, <1>9, AddmWords
    <2>2. /\ gpwr[26] = 96 % Byte /\ gpwr[27] = 96 \div Byte
          /\ gpwr[28] = 98 % Byte /\ gpwr[29] = 98 \div Byte
      BY <1>1, <1>9 DEF Prepared
    <2>3. /\ DOMAIN gpwr' = 0..31 /\ gpwr'[20] = 2
          /\ gpwr'[26] = gpwr[26] /\ gpwr'[27] = gpwr[27]
          /\ gpwr'[28] = gpwr[28] /\ gpwr'[29] = gpwr[29]
      BY <2>1, <1>1
    <2> QED BY <2>1, <2>2, <2>3, <1>4 DEF Prepared
  <1>10. CASE PC = 5
    <2>1. Sets({"C"}, {})
      BY <1>10, AddmWords, MovesRun
    <2>2. PC' = 6 /\ sram' = sram /\ gpwr' = gpwr /\ "C" \notin sreg'
      BY <2>1, <1>2, <1>10 DEF Sets, Advances, AdjustPC
    <2>3. /\ gpwr[26] = 96 % Byte /\ gpwr[27] = 96 \div Byte
          /\ gpwr[28] = 98 % Byte /\ gpwr[29] = 98 \div Byte /\ gpwr[20] = 2
      BY <1>1, <1>10 DEF Prepared
    <2>4. 98 - 2 = 96 /\ 100 - 2 = 98 /\ 26 + 1 = 27 /\ 28 + 1 = 29
      OBVIOUS
    <2>5. At(gpwr', 26, 98 - 2) /\ At(gpwr', 28, 100 - 2)
      BY <2>2, <2>3, <2>4 DEF At
    <2>6. Turn(2, XL, YL, 0, gpwr', sreg', 6)
      BY <2>2, <2>3, <2>5, <1>1 DEF Turn
    <2> QED BY <2>2, <2>6, <1>1 DEF AddmAt
  <1> QED BY <1>5, <1>6, <1>7, <1>8, <1>9, <1>10


(* In the loop: a turn leaves the other digits alone. *)
LEMMA AddmTurns ==
    ASSUME AddmAt(gpwr, sram, sreg, PC), routine = "addm", [Next]_vars, ~Paused, PC \in 6..10
    PROVE  AddmAt(gpwr', sram', sreg', PC')
  <1>1. /\ DOMAIN sram = Sram /\ sram[96] = XL /\ sram[97] = XH
        /\ 96 \in Sram /\ 97 \in Sram /\ 98 \in Sram /\ 99 \in Sram
    BY RoutinesAssumed DEF AddmAt, RoutinesAssumption
  <1>2. /\ 98 - 2 = 96 /\ 98 - 1 = 97 /\ 100 - 2 = 98 /\ 100 - 1 = 99
        /\ 2 \in {1, 2} /\ 1 \in {1, 2} /\ 0 \in {0, 1}
    OBVIOUS
  <1>3. Carried \in {0, 1}
    BY DEF Carried, CarryOf
  <1>4. ASSUME Turn(2, XL, YL, 0, gpwr, sreg, PC),
               sram[98] = (IF PC \in 10..11 THEN LowSum ELSE YL), sram[99] = YH
        PROVE  AddmAt(gpwr', sram', sreg', PC')
    <2>1. PC \in 6..9 => sram[98] = YL
      BY <1>4
    <2>2. /\ PC' = PC + 1 /\ Turn(2, XL, YL, 0, gpwr', sreg', PC + 1)
          /\ sram' = IF PC = 9 THEN [sram EXCEPT ![98] = LowSum] ELSE sram
      <3>1. sram[98 - 2] = XL /\ (PC \in 6..9 => sram[100 - 2] = YL)
        BY <1>1, <1>2, <2>1, Zenon
      <3>2. 2 \in {1, 2} /\ 0 \in {0, 1} /\ DOMAIN sram = Sram /\ Turn(2, XL, YL, 0, gpwr, sreg, PC)
        BY <1>1, <1>2, <1>3, <1>4, Zenon
      <3>3. /\ PC' = PC + 1 /\ Turn(2, XL, YL, 0, gpwr', sreg', PC + 1)
            /\ sram' = IF PC = 9 THEN [sram EXCEPT ![100 - 2] = LowSum] ELSE sram
        BY <3>1, <3>2, TurnRuns DEF LowSum
      <3> QED BY <3>3
    <2>3. /\ DOMAIN sram' = Sram /\ sram'[96] = XL /\ sram'[97] = XH /\ sram'[99] = YH
          /\ sram'[98] = (IF PC + 1 \in 10..11 THEN LowSum ELSE YL)
      <3>1. CASE PC = 9
        BY <3>1, <2>2, <1>1, <1>4
      <3>2. CASE PC # 9
        BY <3>2, <2>2, <1>1, <1>4
      <3> QED BY <3>1, <3>2
    <2>4. DOMAIN gpwr' = 0..31 /\ PC' \in 7..11 /\ PC' \notin 0..5
      BY <2>2 DEF Turn
    <2> QED BY <2>2, <2>3, <2>4 DEF AddmAt
  <1>5. ASSUME Turn(1, XH, YH, Carried, gpwr, sreg, PC),
               sram[98] = LowSum, sram[99] = (IF PC \in 10..11 THEN HighSum ELSE YH)
        PROVE  AddmAt(gpwr', sram', sreg', PC')
    <2>1. PC \in 6..9 => sram[99] = YH
      BY <1>5
    <2>2. /\ PC' = PC + 1 /\ Turn(1, XH, YH, Carried, gpwr', sreg', PC + 1)
          /\ sram' = IF PC = 9 THEN [sram EXCEPT ![99] = HighSum] ELSE sram
      <3>1. sram[98 - 1] = XH /\ (PC \in 6..9 => sram[100 - 1] = YH)
        BY <1>1, <1>2, <2>1, Zenon
      <3>2. /\ 1 \in {1, 2} /\ Carried \in {0, 1} /\ DOMAIN sram = Sram
            /\ Turn(1, XH, YH, Carried, gpwr, sreg, PC)
        BY <1>1, <1>2, <1>3, <1>5, Zenon
      <3>3. /\ PC' = PC + 1 /\ Turn(1, XH, YH, Carried, gpwr', sreg', PC + 1)
            /\ sram' = IF PC = 9 THEN [sram EXCEPT ![100 - 1] = HighSum] ELSE sram
        BY <3>1, <3>2, TurnRuns DEF HighSum
      <3> QED BY <3>3
    <2>3. /\ DOMAIN sram' = Sram /\ sram'[96] = XL /\ sram'[97] = XH /\ sram'[98] = LowSum
          /\ sram'[99] = (IF PC + 1 \in 10..11 THEN HighSum ELSE YH)
      <3>1. CASE PC = 9
        BY <3>1, <2>2, <1>1, <1>5
      <3>2. CASE PC # 9
        BY <3>2, <2>2, <1>1, <1>5
      <3> QED BY <3>1, <3>2
    <2>4. DOMAIN gpwr' = 0..31 /\ PC' \in 7..11 /\ PC' \notin 0..5
      BY <2>2 DEF Turn
    <2> QED BY <2>2, <2>3, <2>4 DEF AddmAt
  <1> QED BY <1>4, <1>5 DEF AddmAt

(* At the branch: after the low digits once more, after the high ones on. *)
LEMMA AddmBranches ==
    ASSUME AddmAt(gpwr, sram, sreg, PC), routine = "addm", [Next]_vars, ~Paused, PC = 11
    PROVE  AddmAt(gpwr', sram', sreg', PC')
  <1>1. IF "Z" \notin sreg THEN Loads(gpwr, -6 + 1, 2) ELSE Loads(gpwr, 1, 1)
    BY AddmWords, BranchesRun
  <1>2. PC_max = 13
    BY AddmWords
  <1>3. /\ sram' = sram /\ gpwr' = gpwr /\ sreg' = sreg
        /\ PC' = IF "Z" \notin sreg THEN 6 ELSE 12
    BY <1>1, <1>2 DEF Loads, Advances, AdjustPC
  <1>4. /\ DOMAIN gpwr = 0..31 /\ DOMAIN sram = Sram /\ sram[96] = XL /\ sram[97] = XH
    BY DEF AddmAt
  <1>5. ASSUME Turn(2, XL, YL, 0, gpwr, sreg, PC), sram[98] = LowSum, sram[99] = YH
        PROVE  AddmAt(gpwr', sram', sreg', PC')
    <2>1. /\ At(gpwr, 26, 99 - 2) /\ At(gpwr, 28, 101 - 2) /\ gpwr[20] = 2 - 1
          /\ "Z" \notin sreg /\ ("C" \in sreg <=> Carried = 1)
      BY <1>5 DEF Turn, Carried
    <2>2. At(gpwr, 26, 98 - 1) /\ At(gpwr, 28, 100 - 1) /\ gpwr[20] = 1
      <3>1. 99 - 2 = 98 - 1 /\ 101 - 2 = 100 - 1
        OBVIOUS
      <3> QED BY <2>1, <3>1
    <2>3. Turn(1, XH, YH, Carried, gpwr, sreg, 6)
      BY <2>1, <2>2, <1>4 DEF Turn
    <2> QED BY <2>1, <2>3, <1>3, <1>4, <1>5 DEF AddmAt
  <1>6. ASSUME Turn(1, XH, YH, Carried, gpwr, sreg, PC), sram[98] = LowSum, sram[99] = HighSum
        PROVE  AddmAt(gpwr', sram', sreg', PC')
    <2>1. "Z" \in sreg /\ ("C" \in sreg <=> CarryOf(XH, YH, Carried) = 1)
      BY <1>6 DEF Turn
    <2> QED BY <2>1, <1>3, <1>4, <1>6 DEF AddmAt
  <1> QED BY <1>5, <1>6 DEF AddmAt

(* Every step of addm keeps this. *)
LEMMA AddmRuns ==
    ASSUME AddmRun, [Next]_vars
    PROVE  AddmRun'
  <1> SUFFICES ASSUME routine = "addm" PROVE AddmRun'
    BY SameRun DEF AddmRun
  <1>1. AddmAt(gpwr, sram, sreg, PC)
    BY DEF AddmRun
  <1>2. /\ XL' = XL /\ XH' = XH /\ YL' = YL /\ YH' = YH
        /\ LowSum' = LowSum /\ Carried' = Carried /\ HighSum' = HighSum
    BY SameRun DEF XL, XH, YL, YH, X, Y, LowSum, Carried, HighSum
  <1>3. AddmAt(gpwr', sram', sreg', PC') => AddmAt(gpwr, sram, sreg, PC)'
    BY <1>2, Zenon DEF AddmAt
  <1>4. CASE Paused
    <2>1. gpwr' = gpwr /\ sram' = sram /\ sreg' = sreg /\ PC' = PC
      BY <1>4 DEF Paused
    <2> QED BY <2>1, <1>1, <1>3, Zenon DEF AddmRun
  <1>5. CASE ~Paused /\ PC \in 0..5
    BY <1>1, <1>3, <1>5, AddmPrepares DEF AddmRun
  <1>6. CASE ~Paused /\ PC \in 6..10
    BY <1>1, <1>3, <1>6, AddmTurns DEF AddmRun
  <1>7. CASE ~Paused /\ PC = 11
    BY <1>1, <1>3, <1>7, AddmBranches DEF AddmRun
  <1>8. CASE ~Paused /\ PC = 12
    BY <1>8, AddmWords, ReturnStops
  <1>9. PC \in 0..12
    BY <1>1 DEF AddmAt
  <1> QED BY <1>4, <1>5, <1>6, <1>7, <1>8, <1>9

(* addm ends with the sum in memory and its carry in C. *)
LEMMA AddmEnds ==
    ASSUME InputTyped, AddmRun, Finished("addm")
    PROVE  Copied(98) = (X + Y) % Word /\ ("C" \in sreg) = (X + Y >= Word)
  <1>1. routine = "addm" /\ PC = 12
    <2>1. routine = "addm" /\ ProgramWord(PC) = RET
      BY DEF Finished
    <2>2. PC \in 0..12
      BY <2>1 DEF AddmRun, AddmAt
    <2> QED BY <2>1, <2>2, AddmWords
            DEF Reg1, Reg2, RegK, Mem, MemQ, If, Flag, RET, Plain
  <1>2. /\ sram[98] = LowSum /\ sram[99] = HighSum
        /\ "C" \in sreg <=> CarryOf(XH, YH, Carried) = 1
    BY <1>1 DEF AddmRun, AddmAt
  <1>3. /\ X \in 0..(Word - 1) /\ Y \in 0..(Word - 1) /\ 0 \in {0, 1}
        /\ X + Y = X + Y + 0
    BY ExactAsIs DEF InputTyped
  <1>4. /\ LowSum \in Bytes /\ HighSum \in Bytes
        /\ LowSum + Byte * HighSum = (X + Y + 0) % Word
        /\ "C" \in AddFlags(HighSum, XH, YH) <=> X + Y + 0 \notin 0..(Word - 1)
    BY <1>3, WordsAdd DEF LowSum, HighSum, Carried, XL, XH, YL, YH
  <1>5. "C" \in AddFlags(HighSum, XH, YH) <=> CarryOf(XH, YH, Carried) = 1
    <2>1. "C" \in AddFlags(HighSum, XH, YH) <=> get_add_carry(HighSum, XH, YH, Half)
      BY FlagsAre
    <2> QED BY <2>1 DEF CarryOf, HighSum
  <1>6. Copied(98) = (X + Y) % Word
    <2>1. Copied(98) = Byte * HighSum + LowSum
      <3>1. 98 + 1 = 99
        OBVIOUS
      <3> QED BY <3>1, <1>2, Zenon DEF Copied
    <2>2. Byte * HighSum + LowSum = LowSum + Byte * HighSum
      <3>1. HighSum \in Int /\ LowSum \in Int /\ Byte \in Int
        BY <1>4, Widths DEF Bytes
      <3> DEFINE p == Byte * HighSum
      <3>2. p \in Int
        BY <3>1
      <3> HIDE DEF p
      <3>3. p + LowSum = LowSum + p
        BY <3>1, <3>2
      <3> QED BY <3>3 DEF p
    <2> QED BY <2>1, <2>2, <1>3, <1>4, Zenon
  <1>7. X + Y \notin 0..(Word - 1) <=> X + Y >= Word
    BY <1>3, WordIs
  <1>8. "C" \in sreg <=> X + Y >= Word
    BY <1>2, <1>3, <1>4, <1>5, <1>7, Zenon
  <1> QED BY <1>6, <1>8

----------------------------------------------------------------------------
(* The whole run                                                            *)

(* A routine starts with X and Y in registers. *)
LEMMA Starting ==
    ASSUME Init
    PROVE  /\ InputTyped
           /\ DOMAIN gpwr = 0..31 /\ PC = 0
           /\ Holds(16, XL, XH) /\ Holds(18, YL, YH)
           /\ DOMAIN sram = Sram
           /\ sram[96] = XL /\ sram[97] = XH /\ sram[98] = YL /\ sram[99] = YH
  <1>1. InputTyped
    BY DecoderAssumed DEF DecoderAssumption, InputTyped, Init, X, Y
  <1>2. gpwr = [r \in 0..31 |->
                 CASE r = 16 -> XL [] r = 17 -> XH [] r = 18 -> YL [] r = 19 -> YH
                   [] OTHER  -> Byte - 1]
    BY Zenon DEF Init, XL, XH, YL, YH, X, Y
  <1>3. DOMAIN gpwr = 0..31
    BY <1>2, Zenon
  <1>4. gpwr[16] = XL /\ gpwr[17] = XH /\ gpwr[18] = YL /\ gpwr[19] = YH
    BY <1>2
  <1>5. PC = 0
    BY DEF Init
  <1>6. /\ DOMAIN sram = Sram
        /\ \A a \in 96..99 : sram[a] = input.mem[a]
    BY RoutinesAssumed DEF Init, RoutinesAssumption
  <1>7. /\ input.mem[96] = XL /\ input.mem[97] = XH
        /\ input.mem[98] = YL /\ input.mem[99] = YH
    BY RoutinesAssumed DEF RoutinesAssumption, Init, XL, XH, YL, YH, X, Y
  <1> QED BY <1>1, <1>3, <1>4, <1>5, <1>6, <1>7 DEF Holds

(* What holds while a routine runs. *)
RunsInv ==
    /\ InputTyped
    /\ AddRun /\ Plus1Run /\ AdiwRun /\ AddmRun
    /\ SubRun /\ SubiRun /\ NegRun /\ SbiwRun
    /\ CmpRun /\ CmpiRun /\ MaxRun /\ MinRun

(* It holds at the first instruction. *)
LEMMA RunsStart == Init => RunsInv
  <1> SUFFICES ASSUME Init PROVE RunsInv
    OBVIOUS
  <1>1. /\ InputTyped
        /\ DOMAIN gpwr = 0..31 /\ PC = 0
        /\ Holds(16, XL, XH) /\ Holds(18, YL, YH)
        /\ DOMAIN sram = Sram
        /\ sram[96] = XL /\ sram[97] = XH /\ sram[98] = YL /\ sram[99] = YH
    BY Starting
  <1>2. AddRun /\ Plus1Run /\ AdiwRun /\ AddmRun
    BY <1>1 DEF AddRun, Plus1Run, AdiwRun, AddmRun, AddmAt, Prepared
  <1>3. SubRun /\ SubiRun /\ NegRun /\ SbiwRun
    BY <1>1 DEF SubRun, SubiRun, NegRun, SbiwRun
  <1>4. CmpRun /\ CmpiRun /\ MaxRun /\ MinRun
    BY <1>1 DEF CmpRun, CmpiRun, MaxRun, MinRun
  <1> QED BY <1>1, <1>2, <1>3, <1>4 DEF RunsInv

(* Every step keeps it: the invariant of the routine that runs. *)
LEMMA RunsStep == RunsInv /\ [Next]_vars => RunsInv'
  <1> SUFFICES ASSUME RunsInv, [Next]_vars PROVE RunsInv'
    OBVIOUS
  <1>1. InputTyped
    BY DEF RunsInv
  <1>2. InputTyped'
    BY <1>1, SameRun DEF InputTyped, X, Y
  <1>3. AddRun' /\ Plus1Run' /\ AdiwRun' /\ AddmRun'
    BY <1>1, AddRuns, Plus1Runs, AdiwRuns, AddmRuns DEF RunsInv
  <1>4. SubRun' /\ SubiRun' /\ NegRun' /\ SbiwRun'
    BY <1>1, SubRuns, SubiRuns, NegRuns, SbiwRuns DEF RunsInv
  <1>5. CmpRun' /\ CmpiRun' /\ MaxRun' /\ MinRun'
    BY <1>1, CmpRuns, CmpiRuns, MaxRuns, MinRuns DEF RunsInv
  <1> QED BY <1>2, <1>3, <1>4, <1>5 DEF RunsInv

(* At its RET a routine has the sum of the integers, with all flags: the     *)
(* carry goes from each instruction of a chain to the next, over the step   *)
(* of the pointers and the DEC of the counter too.                          *)
THEOREM SumsAreRight == Spec => []SumsRight
  <1>1. RunsInv => SumsRight
    <2> SUFFICES ASSUME RunsInv PROVE SumsRight
      OBVIOUS
    <2>1. InputTyped /\ AddRun /\ Plus1Run /\ AdiwRun /\ AddmRun
      BY DEF RunsInv
    <2> QED BY <2>1, AddEnds, Plus1Ends, AdiwEnds, AddmEnds, Zenon DEF SumsRight
  <1> QED BY <1>1, RunsStart, RunsStep, PTL DEF Spec

(* At its RET a routine has the difference of the integers, with all flags: *)
(* each instruction of a chain takes the borrow and the Z of those before,  *)
(* for every width of the registers.                                        *)
THEOREM DifferencesAreRight == Spec => []DifferencesRight
  <1>1. RunsInv => DifferencesRight
    <2> SUFFICES ASSUME RunsInv PROVE DifferencesRight
      OBVIOUS
    <2>1. InputTyped /\ SubRun /\ SubiRun /\ NegRun /\ SbiwRun
      BY DEF RunsInv
    <2> QED BY <2>1, SubEnds, SubiEnds, NegEnds, SbiwEnds, Zenon DEF DifferencesRight
  <1> QED BY <1>1, RunsStart, RunsStep, PTL DEF Spec

(* CP and CPC give every relation between the two words, and the branches   *)
(* on S and C choose the larger and the smaller.                            *)
THEOREM ComparisonsAreRight == Spec => []ComparisonsRight
  <1>1. RunsInv => ComparisonsRight
    <2> SUFFICES ASSUME RunsInv PROVE ComparisonsRight
      OBVIOUS
    <2>1. InputTyped /\ CmpRun /\ CmpiRun /\ MaxRun /\ MinRun
      BY DEF RunsInv
    <2> QED BY <2>1, CmpEnds, CmpiEnds, MaxEnds, MinEnds, Zenon DEF ComparisonsRight
  <1> QED BY <1>1, RunsStart, RunsStep, PTL DEF Spec

----------------------------------------------------------------------------
(* Where the program counter goes                                           *)

(* The opcodes that do not go on to the next word in every case. *)
TwoWords == {"CALL", "JMP", "LDS", "STS"}
Control  == TwoWords \cup Skips \cup {"IJMP", "RJMP", "BRBS", "BRBC"}

(* The next address by the word in the program; what a skip jumps over is    *)
(* read through the breakpoints.                                            *)
LEMMA FlowRuns ==
    ASSUME [Next]_vars, ~Paused
    PROVE  LET w == ProgramWord(PC)
           IN /\ w.op \notin Control => PC' = AdjustPC(PC + 1)
              /\ w.op \in {"LDS", "STS"} => PC' = AdjustPC(PC + 2)
              /\ w.op = "JMP" => PC' = AdjustPC(Operand)
              /\ w.op = "IJMP" => PC' = AdjustPC(Pair(30)) /\ gpwr' = gpwr
              /\ w.op = "RJMP" => PC' = AdjustPC(PC + (w.k + 1))
              /\ w.op \in {"BRBS", "BRBC"} =>
                    PC' = AdjustPC(PC + (w.k + 1)) \/ PC' = AdjustPC(PC + 1)
              /\ w.op \in Skips =>
                    /\ gpwr' = gpwr /\ PC + 1 < PC_max
                    /\ \/ PC' = AdjustPC(PC + 1)
                       \/ PC' = AdjustPC(PC + IF is_next_inst_2_words THEN 3 ELSE 2)
              /\ w.op \notin {"CALL", "RET", "data"}
  <1>1. I = ProgramWord(PC) /\ Dispatched
    BY StepRuns
  <1> DEFINE w == ProgramWord(PC)
  <1>2. CASE w.op \notin Control
    <2> DEFINE Straight ==
            \/ avr_op_ADD \/ avr_op_ADC \/ avr_op_SUB \/ avr_op_SUBI \/ avr_op_SBC
            \/ avr_op_SBCI \/ avr_op_CP \/ avr_op_CPC \/ avr_op_CPI \/ avr_op_NEG
            \/ avr_op_INC \/ avr_op_DEC \/ avr_op_ADIW \/ avr_op_SBIW \/ avr_op_MUL
            \/ avr_op_MULS \/ avr_op_MULSU \/ avr_op_FMUL \/ avr_op_FMULS
            \/ avr_op_FMULSU \/ avr_op_AND \/ avr_op_ANDI \/ avr_op_OR \/ avr_op_ORI
            \/ avr_op_EOR \/ avr_op_COM \/ avr_op_LSR \/ avr_op_ASR \/ avr_op_ROR
            \/ avr_op_SWAP \/ avr_op_BSET \/ avr_op_BCLR \/ avr_op_BST \/ avr_op_BLD
            \/ avr_op_NOP \/ avr_op_MOV \/ avr_op_MOVW \/ avr_op_LDI \/ avr_op_LD_X
            \/ avr_op_LDD \/ avr_op_LD_incr \/ avr_op_LD_decr \/ avr_op_ST_X
            \/ avr_op_STD \/ avr_op_ST_incr \/ avr_op_ST_decr
    <2>1. Straight \/ avr_op_BREAK
      BY <1>1, <1>2 DEF Dispatched, Control, TwoWords, Skips
    <2>2. avr_op_BREAK => Paused
      BY DEF avr_op_BREAK, Paused
    <2>3. Straight => PC' = AdjustPC(PC + 1)
      BY Zenon DEF avr_op_ADD, avr_op_ADC, avr_op_SUB, avr_op_SUBI,
         avr_op_SBC, avr_op_SBCI, avr_op_CP, avr_op_CPC, avr_op_CPI, avr_op_NEG,
         avr_op_INC, avr_op_DEC, avr_op_ADIW, avr_op_SBIW, avr_op_MUL, avr_op_MULS,
         avr_op_MULSU, avr_op_FMUL, avr_op_FMULS, avr_op_FMULSU, avr_op_AND, avr_op_ANDI,
         avr_op_OR, avr_op_ORI, avr_op_EOR, avr_op_COM, avr_op_LSR, avr_op_ASR,
         avr_op_ROR, avr_op_SWAP, avr_op_BSET, avr_op_BCLR, avr_op_BST, avr_op_BLD,
         avr_op_NOP, avr_op_MOV, avr_op_MOVW, avr_op_LDI, avr_op_LD_X, avr_op_LDD,
         avr_op_LD_incr, avr_op_LD_decr, avr_op_ST_X, avr_op_STD, avr_op_ST_incr,
         avr_op_ST_decr, MoveOp, Load, Store, Product, Fraction, Multiply, RegisterOp,
         FlagOp, WordOp, LogicOp, ShiftOp, Continue
    <2>4. w.op \notin {"CALL", "RET", "data"}
      BY <1>1 DEF Dispatched
    <2> QED BY <1>2, <2>1, <2>2, <2>3, <2>4 DEF Control, TwoWords, Skips
  <1>3. ASSUME w.op \in Control
        PROVE  \/ (w.op = "LDS" /\ avr_op_LDS) \/ (w.op = "STS" /\ avr_op_STS)
               \/ (w.op = "JMP" /\ avr_op_JMP) \/ (w.op = "IJMP" /\ avr_op_IJMP)
               \/ (w.op = "RJMP" /\ avr_op_RJMP) \/ (w.op = "BRBS" /\ avr_op_BRBS)
               \/ (w.op = "BRBC" /\ avr_op_BRBC) \/ (w.op = "CPSE" /\ avr_op_CPSE)
               \/ (w.op = "SBRC" /\ avr_op_SBRC) \/ (w.op = "SBRS" /\ avr_op_SBRS)
    BY <1>1, <1>3 DEF Dispatched, Control, TwoWords, Skips
  <1>4. avr_op_LDS \/ avr_op_STS => PC' = AdjustPC(PC + 2)
    BY Zenon DEF avr_op_LDS, avr_op_STS, Load, Store, MoveOp, Continue
  <1>5. /\ avr_op_JMP => PC' = AdjustPC(Operand)
        /\ avr_op_IJMP => PC' = AdjustPC(Pair(30)) /\ gpwr' = gpwr
    BY Zenon DEF avr_op_JMP, avr_op_IJMP, Jump
  <1>6. /\ avr_op_RJMP => PC' = AdjustPC(PC + (w.k + 1))
        /\ avr_op_BRBS \/ avr_op_BRBC =>
              PC' = AdjustPC(PC + (w.k + 1)) \/ PC' = AdjustPC(PC + 1)
    BY <1>1, Zenon DEF avr_op_RJMP, avr_op_BRBS, avr_op_BRBC, Branch, Continue
  <1>7. avr_op_CPSE \/ avr_op_SBRC \/ avr_op_SBRS =>
           /\ gpwr' = gpwr /\ PC + 1 < PC_max
           /\ \/ PC' = AdjustPC(PC + 1)
              \/ PC' = AdjustPC(PC + IF is_next_inst_2_words THEN 3 ELSE 2)
    BY Zenon DEF avr_op_CPSE, avr_op_SBRC, avr_op_SBRS, Skip, Continue, NextWordInFlash
  <1>8. CASE w.op \in Control
    BY <1>3, <1>4, <1>5, <1>6, <1>7, <1>8 DEF Skips
  <1> QED BY <1>2, <1>8

(* The first words of the instructions of the routine that runs. *)
Start(a) == a \in 0..(PC_max - 1) /\ ProgramWord(a).op # "data"

(* What a program must be like: after each instruction, and at each target   *)
(* that is in the program, an instruction begins.                           *)
SoundAt(a) ==
    LET w == ProgramWord(a)
    IN /\ w.op \notin Control \cup {"RET"} => Start(AdjustPC(a + 1))
       /\ w.op \in Skips \cup {"BRBS", "BRBC"} => Start(AdjustPC(a + 1))
       /\ w.op \in TwoWords => ~Start(a + 1)
       /\ w.op \in {"LDS", "STS"} => Start(AdjustPC(a + 2))
       /\ w.op = "JMP" => Start(AdjustPC(ProgramWord(a + 1).k))
       /\ w.op = "IJMP" => routine = "jump" /\ a = 5
       /\ w.op \in {"RJMP", "BRBS", "BRBC"} => Start(AdjustPC(a + (w.k + 1)))
       /\ w.op \in Skips /\ a + 1 < PC_max =>
             Start(AdjustPC(a + IF ProgramWord(a + 1).op \in TwoWords THEN 3 ELSE 2))

(* And it begins with one. *)
Sound ==
    /\ PC_max \in Nat \ {0}
    /\ Start(0)
    /\ \A a \in 0..(PC_max - 1) : Start(a) => SoundAt(a)

(* A program without two words, jumps, branches and skips is. *)
LEMMA StraightIsSound ==
    ASSUME PC_max \in Nat \ {0},
           \A a \in 0..(PC_max - 1) : ProgramWord(a).op \notin Control \cup {"data"}
    PROVE  Sound
  <1>0. Start(0)
    BY DEF Start
  <1> SUFFICES ASSUME NEW a \in 0..(PC_max - 1) PROVE SoundAt(a)
    BY <1>0 DEF Sound
  <1>1. AdjustPC(a + 1) \in 0..(PC_max - 1)
    BY DEF AdjustPC
  <1>2. Start(AdjustPC(a + 1))
    BY <1>1 DEF Start
  <1>3. ProgramWord(a).op \notin Control
    OBVIOUS
  <1> HIDE DEF Control
  <1>4. ProgramWord(a).op \notin TwoWords \cup Skips \cup {"BRBS", "BRBC", "RJMP", "IJMP"}
    BY <1>3 DEF Control
  <1> QED BY <1>2, <1>4 DEF SoundAt, TwoWords

(* The opcode of a word. *)
LEMMA OpOf ==
    /\ \A op, d, r : Reg2(op, d, r).op = op
    /\ \A op, d, v : RegK(op, d, v).op = op
    /\ \A op, d : Reg1(op, d).op = op
    /\ \A op, d, b : RegB(op, d, b).op = op
    /\ \A op, d, p : Mem(op, d, p).op = op
    /\ \A op, d, p, q : MemQ(op, d, p, q).op = op
    /\ \A op, f, k : If(op, f, k).op = op
    /\ \A op, f : Flag(op, f).op = op
    /\ \A op : Plain(op).op = op
    /\ \A k : Data(k).op = "data"
  BY DEF Reg2, RegK, Reg1, RegB, Mem, MemQ, If, Flag, Plain, Data

(* The routines that have no jumps, branches and skips. *)
LEMMA StraightRoutines ==
    ASSUME routine \in {"add", "plus1", "adiw", "sub", "subi", "neg", "sbiw", "cmp", "cmpi",
                        "mul", "muls", "fmuls", "lsr", "asr", "ror", "shl", "mask", "regs",
                        "badptr"}
    PROVE  Sound
  <1> DEFINE Plainly == PC_max \in Nat \ {0} /\ \A a \in 0..(PC_max - 1) :
                          ProgramWord(a).op \notin Control \cup {"data"}
  <1>1. SUFFICES Plainly
    BY StraightIsSound
  <1>2. CASE routine = "add"
    <2>1. PC_max = 3 /\ \A a \in 0..2 : ProgramWord(a).op \in {"ADD", "ADC", "RET"}
      BY <1>2, Program, OpOf DEF Routines, ProgramWord, PC_max, RET
    <2> QED BY <2>1 DEF Control, TwoWords, Skips
  <1>3. CASE routine = "plus1"
    <2>1. PC_max = 5 /\ \A a \in 0..4 : ProgramWord(a).op \in {"LDI", "BSET", "ADC", "RET"}
      BY <1>3, Program, OpOf DEF Routines, ProgramWord, PC_max, RET
    <2> QED BY <2>1 DEF Control, TwoWords, Skips
  <1>4. CASE routine = "adiw"
    <2>1. PC_max = 3 /\ \A a \in 0..2 : ProgramWord(a).op \in {"MOVW", "ADIW", "RET"}
      BY <1>4, Program, OpOf DEF Routines, ProgramWord, PC_max, RET
    <2> QED BY <2>1 DEF Control, TwoWords, Skips
  <1>5. CASE routine = "sub"
    <2>1. PC_max = 3 /\ \A a \in 0..2 : ProgramWord(a).op \in {"SUB", "SBC", "RET"}
      BY <1>5, Program, OpOf DEF Routines, ProgramWord, PC_max, RET
    <2> QED BY <2>1 DEF Control, TwoWords, Skips
  <1>6. CASE routine = "subi"
    <2>1. PC_max = 3 /\ \A a \in 0..2 : ProgramWord(a).op \in {"SUBI", "SBCI", "RET"}
      BY <1>6, Program, OpOf DEF Routines, ProgramWord, PC_max, RET
    <2> QED BY <2>1 DEF Control, TwoWords, Skips
  <1>7. CASE routine = "neg"
    <2>1. PC_max = 4 /\ \A a \in 0..3 : ProgramWord(a).op \in {"COM", "NEG", "SBCI", "RET"}
      BY <1>7, Program, OpOf DEF Routines, ProgramWord, PC_max, RET
    <2> QED BY <2>1 DEF Control, TwoWords, Skips
  <1>8. CASE routine = "sbiw"
    <2>1. PC_max = 3 /\ \A a \in 0..2 : ProgramWord(a).op \in {"MOVW", "SBIW", "RET"}
      BY <1>8, Program, OpOf DEF Routines, ProgramWord, PC_max, RET
    <2> QED BY <2>1 DEF Control, TwoWords, Skips
  <1>9. CASE routine = "cmp"
    <2>1. PC_max = 3 /\ \A a \in 0..2 : ProgramWord(a).op \in {"CP", "CPC", "RET"}
      BY <1>9, Program, OpOf DEF Routines, ProgramWord, PC_max, RET
    <2> QED BY <2>1 DEF Control, TwoWords, Skips
  <1>10. CASE routine = "cmpi"
    <2>1. PC_max = 4 /\ \A a \in 0..3 : ProgramWord(a).op \in {"LDI", "CPI", "CPC", "RET"}
      BY <1>10, Program, OpOf DEF Routines, ProgramWord, PC_max, RET
    <2> QED BY <2>1 DEF Control, TwoWords, Skips
  <1>11. CASE routine = "mul"
    <2>1. PC_max = 14 /\ \A a \in 0..13 : ProgramWord(a).op \in {"EOR", "MUL", "MOVW", "ADD", "ADC", "RET"}
      BY <1>11, Program, OpOf DEF Routines, ProgramWord, PC_max, RET
    <2> QED BY <2>1 DEF Control, TwoWords, Skips
  <1>12. CASE routine = "muls"
    <2>1. PC_max = 16 /\ \A a \in 0..15 : ProgramWord(a).op \in {"EOR", "MULS", "MOVW", "MUL", "MULSU", "SBC", "ADD", "ADC", "RET"}
      BY <1>12, Program, OpOf DEF Routines, ProgramWord, PC_max, RET
    <2> QED BY <2>1 DEF Control, TwoWords, Skips
  <1>13. CASE routine = "fmuls"
    <2>1. PC_max = 17 /\ \A a \in 0..16 : ProgramWord(a).op \in {"EOR", "FMULS", "MOVW", "FMUL", "ADC", "FMULSU", "SBC", "ADD", "RET"}
      BY <1>13, Program, OpOf DEF Routines, ProgramWord, PC_max, RET
    <2> QED BY <2>1 DEF Control, TwoWords, Skips
  <1>14. CASE routine = "lsr"
    <2>1. PC_max = 3 /\ \A a \in 0..2 : ProgramWord(a).op \in {"LSR", "ROR", "RET"}
      BY <1>14, Program, OpOf DEF Routines, ProgramWord, PC_max, RET
    <2> QED BY <2>1 DEF Control, TwoWords, Skips
  <1>15. CASE routine = "asr"
    <2>1. PC_max = 3 /\ \A a \in 0..2 : ProgramWord(a).op \in {"ASR", "ROR", "RET"}
      BY <1>15, Program, OpOf DEF Routines, ProgramWord, PC_max, RET
    <2> QED BY <2>1 DEF Control, TwoWords, Skips
  <1>16. CASE routine = "ror"
    <2>1. PC_max = 5 /\ \A a \in 0..4 : ProgramWord(a).op \in {"BST", "LSR", "ROR", "BLD", "RET"}
      BY <1>16, Program, OpOf DEF Routines, ProgramWord, PC_max, RET
    <2> QED BY <2>1 DEF Control, TwoWords, Skips
  <1>17. CASE routine = "shl"
    <2>1. PC_max = 7 /\ \A a \in 0..6 : ProgramWord(a).op \in {"SWAP", "ANDI", "EOR", "RET"}
      BY <1>17, Program, OpOf DEF Routines, ProgramWord, PC_max, RET
    <2> QED BY <2>1 DEF Control, TwoWords, Skips
  <1>18. CASE routine = "mask"
    <2>1. PC_max = 6 /\ \A a \in 0..5 : ProgramWord(a).op \in {"AND", "COM", "OR", "ORI", "RET"}
      BY <1>18, Program, OpOf DEF Routines, ProgramWord, PC_max, RET
    <2> QED BY <2>1 DEF Control, TwoWords, Skips
  <1>19. CASE routine = "regs"
    <2>1. PC_max = 5 /\ \A a \in 0..4 : ProgramWord(a).op \in {"LDI", "LD_incr", "ST_X", "RET"}
      BY <1>19, Program, OpOf DEF Routines, ProgramWord, PC_max, Low, High, RET
    <2> QED BY <2>1 DEF Control, TwoWords, Skips
  <1>20. CASE routine = "badptr"
    <2>1. PC_max = 4 /\ \A a \in 0..3 : ProgramWord(a).op \in {"LDI", "LD_incr", "RET"}
      BY <1>20, Program, OpOf DEF Routines, ProgramWord, PC_max, Low, High, RET
    <2> QED BY <2>1 DEF Control, TwoWords, Skips
  <1> QED BY <1>1, <1>2, <1>3, <1>4, <1>5, <1>6, <1>7, <1>8, <1>9, <1>10, <1>11, <1>12, <1>13, <1>14, <1>15, <1>16, <1>17, <1>18, <1>19, <1>20


(* With branches into the program, and a skip at its end only. *)
LEMMA BranchesAreSound ==
    ASSUME PC_max \in Nat \ {0},
           \A a \in 0..(PC_max - 1) :
              LET w == ProgramWord(a)
              IN /\ w.op \notin TwoWords \cup {"IJMP", "data"}
                 /\ w.op \in Skips => a + 1 = PC_max
                 /\ w.op \in {"RJMP", "BRBS", "BRBC"} => a + (w.k + 1) \in 0..(PC_max - 1)
    PROVE  Sound
  <1>0. Start(0)
    BY DEF Start
  <1> SUFFICES ASSUME NEW a \in 0..(PC_max - 1) PROVE SoundAt(a)
    BY <1>0 DEF Sound
  <1>1. \A b \in 0..(PC_max - 1) : Start(b) /\ AdjustPC(b) = b
    BY DEF Start, AdjustPC
  <1>2. AdjustPC(a + 1) \in 0..(PC_max - 1)
    BY DEF AdjustPC
  <1>3. Start(AdjustPC(a + 1))
    BY <1>1, <1>2
  <1> DEFINE w == ProgramWord(a)
             next == a + (w.k + 1)
  <1>4. /\ w.op \notin TwoWords \cup {"IJMP"}
        /\ w.op \in Skips => a + 1 = PC_max
        /\ w.op \in {"RJMP", "BRBS", "BRBC"} => next \in 0..(PC_max - 1)
    OBVIOUS
  <1>5. w.op \in {"RJMP", "BRBS", "BRBC"} => Start(AdjustPC(next))
    BY <1>1, <1>4
  <1>6. ~(w.op \in Skips /\ a + 1 < PC_max)
    BY <1>4
  <1> HIDE DEF w, next
  <1>7. w.op \notin {"LDS", "STS", "JMP", "IJMP"} /\ w.op \notin TwoWords
    BY <1>4 DEF TwoWords
  <1> QED BY <1>3, <1>5, <1>6, <1>7 DEF SoundAt, w, next

(* Those that have one branch, and badend, whose skip is its last word. *)
LEMMA BranchingRoutines ==
    ASSUME routine \in {"addm", "max", "min", "copy", "badend"}
    PROVE  Sound
  <1>1. CASE routine = "addm"
    <2>1. /\ PC_max = 13 /\ ProgramWord(11) = If("BRBC", "Z", -6)
          /\ \A a \in 0..12 : a # 11 =>
                ProgramWord(a).op \in {"LDI", "BCLR", "LD_incr", "LDD", "ADC", "ST_incr", "DEC", "RET"}
      BY <1>1, Program, OpOf DEF Routines, ProgramWord, PC_max, Low, High, RET
    <2>2. ProgramWord(11).op = "BRBC" /\ ProgramWord(11).k = -6
      BY <2>1 DEF If
    <2> QED BY <2>1, <2>2, BranchesAreSound DEF TwoWords, Skips
  <1>2. CASE routine = "max"
    <2>1. /\ PC_max = 5 /\ ProgramWord(2) = If("BRBC", "S", 1)
          /\ \A a \in 0..4 : a # 2 =>
                ProgramWord(a).op \in {"CP", "CPC", "MOVW", "RET"}
      BY <1>2, Program, OpOf DEF Routines, ProgramWord, PC_max, RET
    <2>2. ProgramWord(2).op = "BRBC" /\ ProgramWord(2).k = 1
      BY <2>1 DEF If
    <2> QED BY <2>1, <2>2, BranchesAreSound DEF TwoWords, Skips
  <1>3. CASE routine = "min"
    <2>1. /\ PC_max = 5 /\ ProgramWord(2) = If("BRBS", "C", 1)
          /\ \A a \in 0..4 : a # 2 =>
                ProgramWord(a).op \in {"CP", "CPC", "MOVW", "RET"}
      BY <1>3, Program, OpOf DEF Routines, ProgramWord, PC_max, RET
    <2>2. ProgramWord(2).op = "BRBS" /\ ProgramWord(2).k = 1
      BY <2>1 DEF If
    <2> QED BY <2>1, <2>2, BranchesAreSound DEF TwoWords, Skips
  <1>4. CASE routine = "copy"
    <2>1. /\ PC_max = 10 /\ ProgramWord(8) = If("BRBC", "Z", -4)
          /\ \A a \in 0..9 : a # 8 =>
                ProgramWord(a).op \in {"LDI", "LD_decr", "ST_decr", "INC", "RET"}
      BY <1>4, Program, OpOf DEF Routines, ProgramWord, PC_max, Low, High, RET
    <2>2. ProgramWord(8).op = "BRBC" /\ ProgramWord(8).k = -4
      BY <2>1 DEF If
    <2> QED BY <2>1, <2>2, BranchesAreSound DEF TwoWords, Skips
  <1>5. CASE routine = "badend"
    <2>1. PC_max = 2 /\ ProgramWord(0).op = "NOP" /\ ProgramWord(1).op = "SBRS"
      BY <1>5, Program, OpOf DEF Routines, ProgramWord, PC_max
    <2> QED BY <2>1, BranchesAreSound DEF TwoWords, Skips
  <1> QED BY <1>1, <1>2, <1>3, <1>4, <1>5

(* flip has two instructions of two words. *)
LEMMA FlipIsSound ==
    ASSUME routine = "flip"
    PROVE  Sound
  <1>1. /\ PC_max = 15
        /\ \A a \in 0..14 : ProgramWord(a).op = "data" <=> a \in {10, 12}
        /\ \A a \in 0..14 : a \notin 9..12 => ProgramWord(a).op \in {"LDI", "LDD", "STD", "LD_X", "ST_X", "RET"}
        /\ ProgramWord(9).op = "LDS" /\ ProgramWord(11).op = "STS"
    BY Program, OpOf DEF Routines, ProgramWord, PC_max, Low, High, RET
  <1>2. \A a : Start(a) <=> a \in 0..14 /\ a \notin {10, 12}
    BY <1>1 DEF Start
  <1>3. \A a \in 0..13 : AdjustPC(a) = a
    BY <1>1 DEF AdjustPC
  <1>4. ASSUME NEW a \in 0..14, Start(a) PROVE SoundAt(a)
    <2>1. CASE a \in {9, 11}
      BY <1>1, <1>2, <1>3, <2>1 DEF SoundAt, Control, TwoWords, Skips
    <2>2. CASE a \notin 9..12
      <3>1. ProgramWord(a).op \notin Control
        BY <1>1, <2>2 DEF Control, TwoWords, Skips
      <3>2. ProgramWord(a).op \notin TwoWords \cup Skips \cup {"BRBS", "BRBC", "RJMP", "IJMP", "LDS", "STS", "JMP"}
        BY <3>1 DEF Control, TwoWords
      <3>3. Start(AdjustPC(a + 1))
        BY <1>1, <1>2, <2>2 DEF AdjustPC
      <3> QED BY <3>2, <3>3 DEF SoundAt
    <2> QED BY <1>2, <1>4, <2>1, <2>2
  <1> QED BY <1>1, <1>2, <1>4 DEF Sound


(* The words of skip. *)
LEMMA SkipWords ==
    ASSUME routine = "skip"
    PROVE  /\ PC_max = 14
           /\ \A a \in 0..13 : ProgramWord(a).op = "data" <=> a \in {2, 5, 8}
           /\ ProgramWord(0).op = "SBRC" /\ ProgramWord(1).op = "STS"
           /\ ProgramWord(3).op = "SBRS" /\ ProgramWord(4).op = "STS"
           /\ ProgramWord(6).op = "CPSE" /\ ProgramWord(7).op = "LDS"
           /\ ProgramWord(9).op = "MOV" /\ ProgramWord(10).op = "SBRC"
           /\ ProgramWord(11).op = "MOV" /\ ProgramWord(12).op = "NOP"
           /\ ProgramWord(13) = RET /\ ProgramWord(13).op = "RET"
  BY Program, OpOf DEF Routines, ProgramWord, PC_max, RET

(* skip jumps over instructions of two words, and of one. *)
LEMMA SkipIsSound ==
    ASSUME routine = "skip"
    PROVE  Sound
  <1>1. /\ PC_max = 14
        /\ \A a \in 0..13 : ProgramWord(a).op = "data" <=> a \in {2, 5, 8}
        /\ ProgramWord(0).op = "SBRC" /\ ProgramWord(1).op = "STS"
        /\ ProgramWord(3).op = "SBRS" /\ ProgramWord(4).op = "STS"
        /\ ProgramWord(6).op = "CPSE" /\ ProgramWord(7).op = "LDS"
        /\ ProgramWord(9).op = "MOV" /\ ProgramWord(10).op = "SBRC"
        /\ ProgramWord(11).op = "MOV" /\ ProgramWord(12).op = "NOP"
        /\ ProgramWord(13).op = "RET"
    BY SkipWords
  <1>2. \A a : Start(a) <=> a \in 0..13 /\ a \notin {2, 5, 8}
    BY <1>1 DEF Start
  <1>3. \A a \in 0..13 : AdjustPC(a) = a
    BY <1>1 DEF AdjustPC
  <1>4. \A a \in {0, 3, 6, 10} : SoundAt(a)
    BY <1>1, <1>2, <1>3 DEF SoundAt, TwoWords, Skips, Control
  <1>5. \A a \in {1, 4, 7} : SoundAt(a)
    BY <1>1, <1>2, <1>3 DEF SoundAt, TwoWords, Skips, Control
  <1>6. \A a \in {9, 11, 12, 13} : SoundAt(a)
    BY <1>1, <1>2, <1>3 DEF SoundAt, TwoWords, Skips, Control
  <1>7. \A a \in 0..13 : Start(a) => a \in {0, 3, 6, 10} \cup {1, 4, 7} \cup {9, 11, 12, 13}
    BY <1>2
  <1> QED BY <1>1, <1>2, <1>4, <1>5, <1>6, <1>7 DEF Sound

(* The words of jump. *)
LEMMA JumpWords ==
    ASSUME routine = "jump"
    PROVE  /\ PC_max = 12
           /\ \A a \in 0..11 : ProgramWord(a).op = "data" <=> a = 2
           /\ ProgramWord(0).op = "CPSE" /\ ProgramWord(1).op = "JMP"
           /\ ProgramWord(2) = Data(7)
           /\ ProgramWord(3) = Low(30, 10) /\ ProgramWord(4) = High(30, 10)
           /\ ProgramWord(5).op = "IJMP"
           /\ ProgramWord(6).op = "NOP" /\ ProgramWord(7).op = "LDI"
           /\ ProgramWord(8) = If("RJMP", "C", 2)
           /\ ProgramWord(9).op = "NOP" /\ ProgramWord(10).op = "LDI"
           /\ ProgramWord(11) = RET
  <1>1. /\ PC_max = 12
        /\ ProgramWord(0).op = "CPSE" /\ ProgramWord(1).op = "JMP"
        /\ ProgramWord(2) = Data(7)
        /\ ProgramWord(3) = Low(30, 10) /\ ProgramWord(4) = High(30, 10)
        /\ ProgramWord(5).op = "IJMP"
        /\ ProgramWord(6).op = "NOP" /\ ProgramWord(7).op = "LDI"
        /\ ProgramWord(8) = If("RJMP", "C", 2)
        /\ ProgramWord(9).op = "NOP" /\ ProgramWord(10).op = "LDI"
        /\ ProgramWord(11) = RET
    BY Program, OpOf DEF Routines, ProgramWord, PC_max
  <1>2. /\ ProgramWord(2).op = "data" /\ ProgramWord(3).op = "LDI" /\ ProgramWord(4).op = "LDI"
        /\ ProgramWord(8).op = "RJMP" /\ ProgramWord(11).op = "RET"
    BY <1>1, OpOf DEF Low, High, RET
  <1> QED BY <1>1, <1>2

(* jump, but for its IJMP, whose target the registers have. *)
LEMMA JumpIsSound ==
    ASSUME routine = "jump"
    PROVE  Sound
  <1>1. /\ PC_max = 12
        /\ ProgramWord(0).op = "CPSE" /\ ProgramWord(1).op = "JMP" /\ ProgramWord(2).k = 7
        /\ ProgramWord(3).op = "LDI" /\ ProgramWord(4).op = "LDI" /\ ProgramWord(5).op = "IJMP"
        /\ ProgramWord(6).op = "NOP" /\ ProgramWord(7).op = "LDI"
        /\ ProgramWord(8).op = "RJMP" /\ ProgramWord(8).k = 2
        /\ ProgramWord(9).op = "NOP" /\ ProgramWord(10).op = "LDI" /\ ProgramWord(11).op = "RET"
    BY JumpWords DEF Data, Low, High, RegK, If, RET, Plain
  <1>2. \A a : Start(a) <=> a \in 0..11 /\ a # 2
    BY <1>1, JumpWords DEF Start
  <1>3. \A a \in 0..11 : AdjustPC(a) = a
    BY <1>1 DEF AdjustPC
  <1>4. \A a \in {0, 1} : SoundAt(a)
    BY <1>1, <1>2, <1>3 DEF SoundAt, TwoWords, Skips, Control
  <1>5. \A a \in {5, 8, 11} : SoundAt(a)
    BY <1>1, <1>2, <1>3 DEF SoundAt, TwoWords, Skips, Control
  <1>6. \A a \in {3, 4, 6, 7, 9, 10} : SoundAt(a)
    BY <1>1, <1>2, <1>3 DEF SoundAt, TwoWords, Skips, Control
  <1>7. \A a \in 0..11 : Start(a) => a \in {0, 1} \cup {5, 8, 11} \cup {3, 4, 6, 7, 9, 10}
    BY <1>2
  <1> QED BY <1>1, <1>2, <1>4, <1>5, <1>6, <1>7 DEF Sound

(* Every routine is. *)
LEMMA RoutinesAreSound ==
    ASSUME routine \in DOMAIN Routines
    PROVE  Sound
  <1>1. \/ routine \in {"add", "plus1", "adiw", "sub", "subi", "neg", "sbiw", "cmp", "cmpi",
                        "mul", "muls", "fmuls", "lsr", "asr", "ror", "shl", "mask", "regs",
                        "badptr"}
        \/ routine \in {"addm", "max", "min", "copy", "badend"}
        \/ routine \in {"flip", "skip", "jump"}
    BY DEF Routines
  <1> QED BY <1>1, StraightRoutines, BranchingRoutines, FlipIsSound, SkipIsSound, JumpIsSound


(* The addresses a debugger may replace, in terms of the routine that runs. *)
LEMMA StartsAre ==
    ASSUME NEW a
    PROVE  /\ a \in Starts(routine) <=> Start(a)
           /\ a \in SkippedOver(routine) <=>
                 Start(a) /\ a # 0 /\ Routines[routine][a].op \in Skips /\ ~Start(a + 1)
  <1>1. \A b : b \in Starts(routine) <=> Start(b)
    BY Program, Zenon DEF Starts, Start, ProgramWord, PC_max
  <1> QED BY <1>1, Zenon DEF SkippedOver

(* The address that jump loads for IJMP. *)
JumpRun ==
    routine = "jump" =>
      /\ PC \in {0, 3, 4} => DOMAIN gpwr = 0..31
      /\ PC = 4 => gpwr[30] = 10 % Byte
      /\ PC = 5 => Pair(30) = 10

(* The program counter is at an instruction, and the debugger has replaced   *)
(* none that a skip would then take for one of one word.                    *)
FlowInv ==
    /\ routine \in DOMAIN Routines
    /\ Start(PC)
    /\ breakpoints \subseteq Starts(routine) \ SkippedOver(routine)
    /\ JumpRun

(* A skip sees of the next instruction what the program has there. *)
LEMMA SkipSees ==
    ASSUME FlowInv, Sound, ProgramWord(PC).op \in Skips, PC + 1 < PC_max
    PROVE  is_next_inst_2_words <=> ProgramWord(PC + 1).op \in TwoWords
  <1>1. PC \in Nat /\ PC + 1 \in 0..(PC_max - 1) /\ PC_max \in Nat
    BY DEF FlowInv, Start, Sound
  <1>2. CASE PC + 1 \notin breakpoints
    <2>1. FlashRead(PC + 1) = ProgramWord(PC + 1)
      BY <1>2 DEF FlashRead
    <2> QED BY <2>1 DEF is_next_inst_2_words, TwoWords
  <1>3. CASE PC + 1 \in breakpoints
    <2>1. FlashRead(PC + 1).op = "BREAK"
      BY <1>3 DEF FlashRead
    <2>2. Start(PC + 1) /\ PC + 1 \notin SkippedOver(routine)
      BY <1>3, StartsAre DEF FlowInv
    <2>3. Routines[routine][PC + 1] = ProgramWord(PC)
      BY Program DEF ProgramWord
    <2>4. PC + 1 # 0 /\ Start((PC + 1) + 1)
      BY <1>1, <2>2, <2>3, StartsAre
    <2>5. SoundAt(PC + 1)
      BY <1>1, <2>2 DEF Sound
    <2>6. ProgramWord(PC + 1).op \notin TwoWords
      BY <2>4, <2>5 DEF SoundAt
    <2> QED BY <2>1, <2>6 DEF is_next_inst_2_words
  <1> QED BY <1>2, <1>3

(* An instruction of two words reads its own operand. *)
LEMMA OperandIs ==
    ASSUME FlowInv, Sound, ProgramWord(PC).op \in TwoWords
    PROVE  Operand = ProgramWord(PC + 1).k
  <1>1. PC \in 0..(PC_max - 1) /\ Start(PC)
    BY DEF FlowInv, Start
  <1>2. ~Start(PC + 1)
    BY <1>1 DEF Sound, SoundAt
  <1>3. PC + 1 \notin breakpoints
    BY <1>2, StartsAre DEF FlowInv
  <1> QED BY <1>3 DEF Operand, FlashRead

(* The next address is an instruction's. *)
LEMMA NextStarts ==
    ASSUME FlowInv, Sound, [Next]_vars, ~Paused
    PROVE  Start(PC')
  <1> DEFINE w == ProgramWord(PC)
  <1>1. PC \in 0..(PC_max - 1) /\ Start(PC) /\ SoundAt(PC)
    BY DEF FlowInv, Start, Sound
  <1>2. CASE w.op \notin Control
    BY <1>1, <1>2, FlowRuns DEF SoundAt
  <1>3. CASE w.op \in {"LDS", "STS"}
    BY <1>1, <1>3, FlowRuns DEF SoundAt
  <1>4. CASE w.op = "JMP"
    BY <1>1, <1>4, FlowRuns, OperandIs DEF SoundAt, TwoWords
  <1>5. CASE w.op = "IJMP"
    <2>1. routine = "jump" /\ PC = 5
      BY <1>1, <1>5 DEF SoundAt
    <2>2. Pair(30) = 10
      BY <2>1 DEF FlowInv, JumpRun
    <2>3. PC' = AdjustPC(10)
      BY <1>5, <2>2, FlowRuns
    <2> QED BY <2>1, <2>3, JumpWords DEF AdjustPC, Start
  <1>6. CASE w.op \in {"RJMP", "BRBS", "BRBC"}
    BY <1>1, <1>6, FlowRuns DEF SoundAt
  <1>7. CASE w.op \in Skips
    <2>1. /\ PC + 1 < PC_max
          /\ \/ PC' = AdjustPC(PC + 1)
             \/ PC' = AdjustPC(PC + IF is_next_inst_2_words THEN 3 ELSE 2)
      BY <1>7, FlowRuns
    <2>2. is_next_inst_2_words <=> ProgramWord(PC + 1).op \in TwoWords
      BY <1>7, <2>1, SkipSees
    <2> QED BY <1>1, <1>7, <2>1, <2>2 DEF SoundAt
  <1>8. w.op # "CALL"
    BY FlowRuns
  <1> QED BY <1>2, <1>3, <1>4, <1>5, <1>6, <1>7, <1>8 DEF Control, TwoWords


(* Every step of jump keeps the address for IJMP. *)
LEMMA JumpRuns ==
    ASSUME FlowInv, Sound, [Next]_vars
    PROVE  JumpRun'
  <1> SUFFICES ASSUME routine = "jump" PROVE JumpRun'
    BY SameRun DEF JumpRun
  <1>1. JumpRun /\ PC_max = 12 /\ Start(PC)
    BY JumpWords DEF FlowInv
  <1>2. PC \in 0..11 /\ PC # 2
    BY <1>1, JumpWords DEF Start
  <1>3. \A a \in 0..11 : AdjustPC(a) = a
    BY <1>1 DEF AdjustPC
  <1>4. /\ ProgramWord(0).op = "CPSE" /\ ProgramWord(1).op = "JMP" /\ ProgramWord(2).k = 7
        /\ ProgramWord(5).op = "IJMP" /\ ProgramWord(6).op = "NOP" /\ ProgramWord(7).op = "LDI"
        /\ ProgramWord(8).op = "RJMP" /\ ProgramWord(8).k = 2
        /\ ProgramWord(9).op = "NOP" /\ ProgramWord(10).op = "LDI" /\ ProgramWord(11) = RET
    BY JumpWords DEF Data, If
  <1>5. CASE Paused
    BY <1>1, <1>5 DEF Paused, JumpRun, Pair
  <1>6. CASE ~Paused /\ PC = 0
    <2>1. gpwr' = gpwr /\ (PC' = 1 \/ PC' = AdjustPC(IF is_next_inst_2_words THEN 3 ELSE 2))
      BY <1>3, <1>4, <1>6, FlowRuns DEF Skips
    <2>2. is_next_inst_2_words
      <3>1. PC + 1 < PC_max /\ ProgramWord(PC).op \in Skips
        BY <1>1, <1>4, <1>6 DEF Skips
      <3>2. ProgramWord(PC + 1).op \in TwoWords
        BY <1>4, <1>6 DEF TwoWords
      <3> QED BY <3>1, <3>2, SkipSees
    <2>3. PC' \in {1, 3}
      BY <2>1, <2>2, <1>3
    <2> QED BY <2>1, <2>3, <1>1, <1>6 DEF JumpRun
  <1>7. CASE ~Paused /\ PC = 3
    <2> DEFINE k == 10 % Byte
    <2>1. Loads([gpwr EXCEPT ![30] = k], 1, 1)
      BY <1>7, JumpWords, MovesRun DEF Low
    <2>2. PC' = 4 /\ gpwr' = [gpwr EXCEPT ![30] = k]
      BY <2>1, <1>1, <1>7 DEF Loads, Advances, AdjustPC
    <2> HIDE DEF k
    <2>3. DOMAIN gpwr' = 0..31 /\ gpwr'[30] = k
      BY <2>2, <1>1, <1>7 DEF JumpRun
    <2> QED BY <2>2, <2>3 DEF JumpRun, k
  <1>8. CASE ~Paused /\ PC = 4
    <2> DEFINE k == 10 \div Byte
               m == 10 % Byte
    <2>1. Loads([gpwr EXCEPT ![30 + 1] = k], 1, 1)
      BY <1>8, JumpWords, MovesRun DEF High
    <2>2. PC' = 5 /\ gpwr' = [gpwr EXCEPT ![30 + 1] = k]
      BY <2>1, <1>1, <1>8 DEF Loads, Advances, AdjustPC
    <2>3. DOMAIN gpwr = 0..31 /\ gpwr[30] = m
      BY <1>1, <1>8 DEF JumpRun
    <2> HIDE DEF k, m
    <2>4. gpwr'[30] = m /\ gpwr'[30 + 1] = k
      BY <2>2, <2>3
    <2>5. m + Byte * k = 10
      <3>1. 10 \in 0..(Word - 1)
        BY SmallWords
      <3> QED BY <3>1, Digits DEF k, m
    <2>6. Pair(30)' = 10
      BY <2>4, <2>5, Zenon DEF Pair
    <2> QED BY <2>2, <2>6 DEF JumpRun
  <1>9. CASE ~Paused /\ PC = 1
    <2>1. PC' = AdjustPC(7)
      BY <1>4, <1>9, FlowRuns, OperandIs DEF TwoWords
    <2> QED BY <2>1, <1>3 DEF JumpRun
  <1>10. CASE ~Paused /\ PC = 5
    <2>1. PC' = AdjustPC(10)
      BY <1>1, <1>4, <1>10, FlowRuns DEF JumpRun
    <2> QED BY <2>1, <1>3 DEF JumpRun
  <1>11. CASE ~Paused /\ PC \in {6, 7, 9, 10}
    <2>1. ProgramWord(PC).op \notin Control
      BY <1>4, <1>11 DEF Control, TwoWords, Skips
    <2>2. PC' = AdjustPC(PC + 1)
      BY <2>1, <1>11, FlowRuns
    <2> QED BY <2>2, <1>3, <1>11 DEF JumpRun
  <1>12. CASE ~Paused /\ PC = 8
    <2>1. PC' = AdjustPC(11)
      BY <1>4, <1>12, FlowRuns
    <2> QED BY <2>1, <1>3 DEF JumpRun
  <1>13. CASE ~Paused /\ PC = 11
    BY <1>4, <1>13, ReturnStops
  <1> QED BY <1>2, <1>5, <1>6, <1>7, <1>8, <1>9, <1>10, <1>11, <1>12, <1>13

(* The debugger sets no breakpoints while a routine runs, and may lose them. *)
LEMMA BreakpointsGo ==
    ASSUME [Next]_vars
    PROVE  breakpoints' \subseteq breakpoints
  <1>1. ASSUME Next PROVE Same \/ avr_op_BREAK \/ Exits
    BY <1>1, SameOrBreak
  <1> QED BY <1>1 DEF Same, avr_op_BREAK, Exits, vars

(* It holds at the first instruction. *)
LEMMA FlowStart == Init => FlowInv
  <1> SUFFICES ASSUME Init PROVE FlowInv
    OBVIOUS
  <1>1. routine \in DOMAIN Routines
    BY Program DEF Init
  <1>2. Sound
    BY <1>1, RoutinesAreSound
  <1>3. breakpoints \subseteq Starts(routine) \ SkippedOver(routine)
    BY <1>1, BreakpointsAssumed DEF BreakpointsAssumption, Init
  <1>4. PC = 0 /\ DOMAIN gpwr = 0..31
    BY Starting
  <1>5. Start(0)
    BY <1>2 DEF Sound
  <1> QED BY <1>1, <1>3, <1>4, <1>5 DEF FlowInv, JumpRun

(* Every step keeps it. *)
LEMMA FlowStep == FlowInv /\ [Next]_vars => FlowInv'
  <1> SUFFICES ASSUME FlowInv, [Next]_vars PROVE FlowInv'
    OBVIOUS
  <1>1. routine' = routine /\ routine \in DOMAIN Routines
    BY SameRun DEF FlowInv
  <1>2. Sound
    BY <1>1, RoutinesAreSound
  <1>3. Start(PC')
    <2>1. CASE Paused
      BY <2>1 DEF Paused, FlowInv
    <2>2. CASE ~Paused
      BY <2>2, <1>2, NextStarts
    <2> QED BY <2>1, <2>2
  <1>4. Start(PC)'
    BY <1>1, <1>3, Zenon DEF Start, PC_max, ProgramWord
  <1>5. breakpoints' \subseteq Starts(routine) \ SkippedOver(routine)
    BY BreakpointsGo DEF FlowInv
  <1>6. (breakpoints \subseteq Starts(routine) \ SkippedOver(routine))'
    BY <1>1, <1>5, Zenon DEF Starts, SkippedOver
  <1> QED BY <1>1, <1>2, <1>4, <1>6, JumpRuns DEF FlowInv

(* Whatever the input and the width, and wherever the debugger may have its  *)
(* breakpoints, a routine never runs into the second word of an instruction.*)
THEOREM ProgramsStayOnInstructions == Spec => []NeverInOperand
  <1>1. FlowInv => NeverInOperand
    BY DEF FlowInv, Start, NeverInOperand
  <1> QED BY <1>1, FlowStart, FlowStep, PTL DEF Spec

----------------------------------------------------------------------------
(* Moves, stores and skips                                                  *)

(* A store of v at address a, by an instruction of n words. *)
Stores(regs, a, v, n) ==
    /\ gpwr' = regs
    /\ sram' = IF a \in Sram THEN [sram EXCEPT ![a] = v] ELSE sram
    /\ sreg' = sreg
    /\ Advances(n, 2)

(* The other accesses to memory: pointers that step down before, with a     *)
(* displacement, as they are, and addresses in the program.                 *)
LEMMA AccessesRun ==
    ASSUME [Next]_vars, ~Paused, NEW d, NEW p, NEW q
    PROVE  LET down == Wrapped(Pair(p) - 1)
               regs == WithPair(gpwr, p, down)
           IN /\ ProgramWord(PC) = Mem("LD_decr", d, p) =>
                    Loads([regs EXCEPT ![d] = MemRead(regs, down)], 1, 2)
              /\ ProgramWord(PC) = Mem("ST_decr", d, p) /\ down \notin 0..31 =>
                    Stores(regs, down, gpwr[d], 1)
              /\ ProgramWord(PC) = MemQ("STD", d, p, q) /\ Pair(p) + q \notin 0..31 =>
                    Stores(gpwr, Pair(p) + q, gpwr[d], 1)
              /\ ProgramWord(PC) = Reg1("LD_X", d) =>
                    Loads([gpwr EXCEPT ![d] = MemRead(gpwr, Pair(26))], 1, 2)
              /\ ProgramWord(PC) = Reg1("ST_X", d) =>
                    Stores(IF Pair(26) \in 0..31 THEN [gpwr EXCEPT ![Pair(26)] = gpwr[d]]
                                                 ELSE gpwr, Pair(26), gpwr[d], 1)
              /\ ProgramWord(PC) = Reg1("LDS", d) =>
                    Loads([gpwr EXCEPT ![d] = MemRead(gpwr, Operand)], 2, 2)
              /\ ProgramWord(PC) = Reg1("STS", d) /\ Operand \notin 0..31 =>
                    Stores(gpwr, Operand, gpwr[d], 2)
  <1>1. I = ProgramWord(PC) /\ Dispatched
    BY StepRuns
  <1> DEFINE down == Wrapped(Pair(p) - 1)
             regs == WithPair(gpwr, p, down)
  <1>2. ASSUME I = Mem("LD_decr", d, p)
        PROVE  Loads([regs EXCEPT ![d] = MemRead(regs, down)], 1, 2)
    <2>1. avr_op_LD_decr /\ I.d = d /\ I.p = p
      BY <1>1, <1>2 DEF Dispatched, Mem
    <2> QED BY <2>1, Zenon DEF avr_op_LD_decr, Load, MoveOp, Continue, Loads, Advances
  <1>3. ASSUME I = Mem("ST_decr", d, p), down \notin 0..31 PROVE Stores(regs, down, gpwr[d], 1)
    <2>1. avr_op_ST_decr /\ I.d = d /\ I.p = p
      BY <1>1, <1>3 DEF Dispatched, Mem
    <2> QED BY <1>3, <2>1, Zenon DEF avr_op_ST_decr, Store, Stored, Continue, Stores, Advances
  <1>4. ASSUME I = MemQ("STD", d, p, q), Pair(p) + q \notin 0..31
        PROVE  Stores(gpwr, Pair(p) + q, gpwr[d], 1)
    <2>1. avr_op_STD /\ I.d = d /\ I.p = p /\ I.q = q
      BY <1>1, <1>4 DEF Dispatched, MemQ
    <2> QED BY <1>4, <2>1, Zenon DEF avr_op_STD, Store, Stored, Continue, Stores, Advances
  <1>5. ASSUME I = Reg1("LD_X", d)
        PROVE  Loads([gpwr EXCEPT ![d] = MemRead(gpwr, Pair(26))], 1, 2)
    <2>1. avr_op_LD_X /\ I.d = d
      BY <1>1, <1>5 DEF Dispatched, Reg1
    <2> QED BY <2>1, Zenon DEF avr_op_LD_X, Load, MoveOp, Continue, Loads, Advances
  <1>6. ASSUME I = Reg1("ST_X", d)
        PROVE  Stores(IF Pair(26) \in 0..31 THEN [gpwr EXCEPT ![Pair(26)] = gpwr[d]]
                                            ELSE gpwr, Pair(26), gpwr[d], 1)
    <2>1. avr_op_ST_X /\ I.d = d
      BY <1>1, <1>6 DEF Dispatched, Reg1
    <2> QED BY <2>1, Zenon DEF avr_op_ST_X, Store, Stored, Continue, Stores, Advances
  <1>7. ASSUME I = Reg1("LDS", d)
        PROVE  Loads([gpwr EXCEPT ![d] = MemRead(gpwr, Operand)], 2, 2)
    <2>1. avr_op_LDS /\ I.d = d
      BY <1>1, <1>7 DEF Dispatched, Reg1
    <2> QED BY <2>1, Zenon DEF avr_op_LDS, Load, MoveOp, Continue, Loads, Advances
  <1>8. ASSUME I = Reg1("STS", d), Operand \notin 0..31 PROVE Stores(gpwr, Operand, gpwr[d], 2)
    <2>1. avr_op_STS /\ I.d = d
      BY <1>1, <1>8 DEF Dispatched, Reg1
    <2> QED BY <1>8, <2>1, Zenon DEF avr_op_STS, Store, Stored, Continue, Stores, Advances
  <1> QED BY <1>1, <1>2, <1>3, <1>4, <1>5, <1>6, <1>7, <1>8, Zenon

(* What a store changes. *)
LEMMA StoredOnly ==
    ASSUME NEW regs, NEW a \in Sram, NEW v, NEW n, Stores(regs, a, v, n), DOMAIN sram = Sram
    PROVE  /\ DOMAIN sram' = Sram /\ sram'[a] = v
           /\ \A b \in Sram : b # a => sram'[b] = sram[b]
  <1>1. sram' = [sram EXCEPT ![a] = v]
    BY DEF Stores
  <1> QED BY <1>1

(* A constant loaded into a register. *)
LEMMA LoadsConstant ==
    ASSUME [Next]_vars, ~Paused, NEW d, NEW k, ProgramWord(PC) = RegK("LDI", d, k),
           PC \in Nat, PC_max \in Nat, PC + 1 < PC_max
    PROVE  /\ PC' = PC + 1 /\ CK' = CK + 1 /\ sram' = sram /\ sreg' = sreg
           /\ gpwr' = [gpwr EXCEPT ![d] = k]
           /\ DOMAIN gpwr = 0..31 /\ d \in 0..31 =>
                 /\ DOMAIN gpwr' = 0..31 /\ gpwr'[d] = k
                 /\ \A r \in 0..31 : r # d => gpwr'[r] = gpwr[r]
  <1>1. Loads([gpwr EXCEPT ![d] = k], 1, 1)
    BY MovesRun
  <1>2. /\ PC' = PC + 1 /\ CK' = CK + 1 /\ sram' = sram /\ sreg' = sreg
        /\ gpwr' = [gpwr EXCEPT ![d] = k]
    BY <1>1 DEF Loads, Advances, AdjustPC
  <1> QED BY <1>2

(* INC and MOV. *)
LEMMA CountsRun ==
    ASSUME [Next]_vars, ~Paused, NEW d, NEW r
    PROVE  /\ ProgramWord(PC) = Reg1("INC", d) =>
                LET res == Sum(gpwr[d], 1, 0)
                IN Writes(d, res, Logic,
                       SignFlags(Bit(res, Half), gpwr[d] = Half - 1) \cup ZeroFlag(res))
           /\ ProgramWord(PC) = Reg2("MOV", d, r) => Loads([gpwr EXCEPT ![d] = gpwr[r]], 1, 1)
  <1>1. I = ProgramWord(PC) /\ Dispatched
    BY StepRuns
  <1>2. ASSUME I = Reg1("INC", d) PROVE avr_op_INC /\ I.d = d
    BY <1>1, <1>2 DEF Dispatched, Reg1
  <1>3. ASSUME I = Reg2("MOV", d, r) PROVE avr_op_MOV /\ I.d = d /\ I.r = r
    BY <1>1, <1>3 DEF Dispatched, Reg2
  <1> QED BY <1>1, <1>2, <1>3, Zenon
          DEF avr_op_INC, avr_op_MOV, RegisterOp, MoveOp, SetFlags, Continue, Writes, Loads,
              Advances, Rd, Rr

(* A skip over the next instruction when taken, in as many clocks as words. *)
SkipsIf(taken) ==
    LET skip == IF is_next_inst_2_words THEN 3 ELSE 2
    IN IF taken THEN Loads(gpwr, skip, skip) ELSE Loads(gpwr, 1, 1)

(* CPSE on equality, SBRC on a clear bit, SBRS on a set one. *)
LEMMA SkipsRun ==
    ASSUME [Next]_vars, ~Paused, NEW d, NEW r
    PROVE  /\ ProgramWord(PC) = Reg2("CPSE", d, r) => SkipsIf(gpwr[d] = gpwr[r])
           /\ ProgramWord(PC) = RegB("SBRC", d, r) => SkipsIf(~Bit(gpwr[d], r))
           /\ ProgramWord(PC) = RegB("SBRS", d, r) => SkipsIf(Bit(gpwr[d], r))
  <1>1. I = ProgramWord(PC) /\ Dispatched
    BY StepRuns
  <1>2. ASSUME I = Reg2("CPSE", d, r) PROVE avr_op_CPSE /\ I.d = d /\ I.r = r
    BY <1>1, <1>2 DEF Dispatched, Reg2
  <1>3. ASSUME I = RegB("SBRC", d, r) PROVE avr_op_SBRC /\ I.d = d /\ I.w = r
    BY <1>1, <1>3 DEF Dispatched, RegB
  <1>4. ASSUME I = RegB("SBRS", d, r) PROVE avr_op_SBRS /\ I.d = d /\ I.w = r
    BY <1>1, <1>4 DEF Dispatched, RegB
  <1> QED BY <1>1, <1>2, <1>3, <1>4, Zenon
          DEF avr_op_CPSE, avr_op_SBRC, avr_op_SBRS, Skip, Continue, SkipsIf, Loads, Advances,
              Rd, Rr

----------------------------------------------------------------------------
(* Copies                                                                   *)

(* The two registers of an address, one after the other. *)
AtLow(regs, p, a)  == regs[p] = a % Byte
AtHigh(regs, p, a) == regs[p + 1] = a \div Byte

(* A step to the next word that writes only register d. *)
Keeps(d) ==
    /\ PC' = PC + 1 /\ CK' = CK + 1 /\ sram' = sram
    /\ DOMAIN gpwr' = 0..31
    /\ \A r \in 0..31 : r # d => gpwr'[r] = gpwr[r]

(* An address is loaded by two LDI. *)
LEMMA AddressLoads ==
    ASSUME [Next]_vars, ~Paused, DOMAIN gpwr = 0..31, NEW p \in 0..30, NEW a,
           PC \in Nat, PC_max \in Nat, PC + 1 < PC_max
    PROVE  /\ ProgramWord(PC) = Low(p, a) => Keeps(p) /\ AtLow(gpwr', p, a)
           /\ ProgramWord(PC) = High(p, a) => Keeps(p + 1) /\ AtHigh(gpwr', p, a)
  <1>1. ASSUME ProgramWord(PC) = Low(p, a) PROVE Keeps(p) /\ AtLow(gpwr', p, a)
    <2> DEFINE k == a % Byte
    <2>1. ProgramWord(PC) = RegK("LDI", p, k)
      BY <1>1 DEF Low
    <2> HIDE DEF k
    <2>2. Keeps(p) /\ gpwr'[p] = k
      BY <2>1, LoadsConstant DEF Keeps
    <2> QED BY <2>2 DEF AtLow, k
  <1>2. ASSUME ProgramWord(PC) = High(p, a) PROVE Keeps(p + 1) /\ AtHigh(gpwr', p, a)
    <2> DEFINE k == a \div Byte
    <2>1. ProgramWord(PC) = RegK("LDI", p + 1, k) /\ p + 1 \in 0..31
      BY <1>2 DEF High
    <2> HIDE DEF k
    <2>2. Keeps(p + 1) /\ gpwr'[p + 1] = k
      BY <2>1, LoadsConstant DEF Keeps
    <2> QED BY <2>2 DEF AtHigh, k
  <1> QED BY <1>1, <1>2

(* Addresses in other registers stay. *)
LEMMA AddressStays ==
    ASSUME NEW d, Keeps(d), NEW p \in 0..30, NEW a
    PROVE  /\ p # d /\ AtLow(gpwr, p, a) => AtLow(gpwr', p, a)
           /\ p + 1 # d /\ AtHigh(gpwr, p, a) => AtHigh(gpwr', p, a)
  <1>1. /\ p # d => gpwr'[p] = gpwr[p]
        /\ p + 1 # d => gpwr'[p + 1] = gpwr[p + 1]
    BY DEF Keeps
  <1> QED BY <1>1, Zenon DEF AtLow, AtHigh

(* The program copy. *)
LEMMA CopyWords ==
    ASSUME routine = "copy"
    PROVE  /\ ProgramWord(0) = Low(26, 100) /\ ProgramWord(1) = High(26, 100)
           /\ ProgramWord(2) = Low(30, 104) /\ ProgramWord(3) = High(30, 104)
           /\ ProgramWord(4) = RegK("LDI", 20, Byte - 4)
           /\ ProgramWord(5) = Mem("LD_decr", 0, 26) /\ ProgramWord(6) = Mem("ST_decr", 0, 30)
           /\ ProgramWord(7) = Reg1("INC", 20) /\ ProgramWord(8) = If("BRBC", "Z", -4)
           /\ ProgramWord(9) = RET /\ PC_max = 10
  BY Program DEF Routines, ProgramWord, PC_max

(* The pointers and the counter of copy being loaded, up to address pc. *)
CopyPrepared(regs, pc) ==
    /\ pc >= 1 => AtLow(regs, 26, 100)
    /\ pc >= 2 => AtHigh(regs, 26, 100)
    /\ pc >= 3 => AtLow(regs, 30, 104)
    /\ pc >= 4 => AtHigh(regs, 30, 104)
    /\ pc >= 5 => regs[20] = Byte - 4

(* A turn of its loop after n others: the digit at 99 - n goes to 103 - n. *)
CopyTurn(n, regs, mem, flags, pc, cks) ==
    /\ At(regs, 26, IF pc = 5 THEN 100 - n ELSE 99 - n)
    /\ At(regs, 30, IF pc \in 5..6 THEN 104 - n ELSE 103 - n)
    /\ pc \in 5..7 => regs[20] = (Byte - 4) + n
    /\ pc = 6 => regs[0] = input.mem[99 - n]
    /\ pc = 8 => /\ n < 3 => regs[20] = (Byte - 3) + n
                 /\ "Z" \in flags <=> n = 3
    /\ \A a \in 96..99 : a >= 100 - n => mem[a + 4] = input.mem[a]
    /\ pc \in 7..8 => mem[103 - n] = input.mem[99 - n]
    /\ cks = 5 + 7 * n + (IF pc = 5 THEN 0 ELSE IF pc = 6 THEN 2 ELSE IF pc = 7 THEN 4 ELSE 5)

(* copy: the numbers stay where they are, and are copied from the top. *)
CopyAt(regs, mem, flags, pc, cks) ==
    /\ DOMAIN regs = 0..31 /\ DOMAIN mem = Sram /\ pc \in 0..9
    /\ \A a \in 96..99 : mem[a] = input.mem[a]
    /\ pc \in 0..4 => cks = pc /\ CopyPrepared(regs, pc)
    /\ pc \in 5..8 => \E n \in 0..3 : CopyTurn(n, regs, mem, flags, pc, cks)
    /\ pc = 9 => cks = 32 /\ \A a \in 96..99 : mem[a + 4] = input.mem[a]

(* The part of the invariant about copy. *)
CopyRun == routine = "copy" => CopyAt(gpwr, sram, sreg, PC, CK)

(* Its first five words. *)
LEMMA CopyPrepares ==
    ASSUME CopyAt(gpwr, sram, sreg, PC, CK), routine = "copy", [Next]_vars, ~Paused, PC \in 0..4
    PROVE  CopyAt(gpwr', sram', sreg', PC', CK')
  <1>1. /\ DOMAIN gpwr = 0..31 /\ DOMAIN sram = Sram /\ CK = PC /\ CopyPrepared(gpwr, PC)
        /\ \A a \in 96..99 : sram[a] = input.mem[a]
    BY DEF CopyAt
  <1>2. PC \in Nat /\ PC_max \in Nat /\ PC + 1 < PC_max
    BY CopyWords
  <1>3. CASE PC = 0
    <2>1. Keeps(26) /\ AtLow(gpwr', 26, 100)
      BY <1>1, <1>2, <1>3, CopyWords, AddressLoads
    <2> QED BY <2>1, <1>1, <1>3 DEF CopyAt, CopyPrepared, Keeps
  <1>4. CASE PC = 1
    <2>1. Keeps(26 + 1) /\ AtHigh(gpwr', 26, 100)
      BY <1>1, <1>2, <1>4, CopyWords, AddressLoads
    <2>2. AtLow(gpwr', 26, 100)
      BY <2>1, <1>1, <1>4, AddressStays DEF CopyPrepared
    <2> QED BY <2>1, <2>2, <1>1, <1>4 DEF CopyAt, CopyPrepared, Keeps
  <1>5. CASE PC = 2
    <2>1. Keeps(30) /\ AtLow(gpwr', 30, 104)
      BY <1>1, <1>2, <1>5, CopyWords, AddressLoads
    <2>2. AtLow(gpwr', 26, 100) /\ AtHigh(gpwr', 26, 100)
      BY <2>1, <1>1, <1>5, AddressStays DEF CopyPrepared
    <2> QED BY <2>1, <2>2, <1>1, <1>5 DEF CopyAt, CopyPrepared, Keeps
  <1>6. CASE PC = 3
    <2>1. Keeps(30 + 1) /\ AtHigh(gpwr', 30, 104)
      BY <1>1, <1>2, <1>6, CopyWords, AddressLoads
    <2>2. AtLow(gpwr', 26, 100) /\ AtHigh(gpwr', 26, 100) /\ AtLow(gpwr', 30, 104)
      BY <2>1, <1>1, <1>6, AddressStays DEF CopyPrepared
    <2> QED BY <2>1, <2>2, <1>1, <1>6 DEF CopyAt, CopyPrepared, Keeps
  <1>7. CASE PC = 4
    <2>1. Keeps(20) /\ gpwr'[20] = Byte - 4
      BY <1>1, <1>2, <1>7, CopyWords, LoadsConstant DEF Keeps
    <2>2. /\ AtLow(gpwr', 26, 100) /\ AtHigh(gpwr', 26, 100)
          /\ AtLow(gpwr', 30, 104) /\ AtHigh(gpwr', 30, 104)
      BY <2>1, <1>1, <1>7, AddressStays DEF CopyPrepared
    <2>3. At(gpwr', 26, 100 - 0) /\ At(gpwr', 30, 104 - 0)
      <3>1. 100 - 0 = 100 /\ 104 - 0 = 104
        OBVIOUS
      <3> QED BY <2>2, <3>1, Zenon DEF At, AtLow, AtHigh
    <2>4. gpwr'[20] = (Byte - 4) + 0 /\ PC' = 5 /\ CK' = 5 + 7 * 0 + 0
      BY <2>1, <1>1, <1>7, Widths DEF Keeps
    <2>5. CopyTurn(0, gpwr', sram', sreg', 5, CK')
      BY <2>3, <2>4 DEF CopyTurn
    <2> QED BY <2>1, <2>4, <2>5, <1>1 DEF CopyAt, Keeps
  <1> QED BY <1>3, <1>4, <1>5, <1>6, <1>7

(* A step inside a turn of the loop. *)
LEMMA CopyTurnRuns ==
    ASSUME [Next]_vars, ~Paused, routine = "copy", DOMAIN gpwr = 0..31, DOMAIN sram = Sram,
           \A a \in 96..99 : sram[a] = input.mem[a], CK \in Nat,
           NEW n \in 0..3, PC \in 5..7, CopyTurn(n, gpwr, sram, sreg, PC, CK)
    PROVE  /\ PC' = PC + 1 /\ CopyTurn(n, gpwr', sram', sreg', PC + 1, CK')
           /\ DOMAIN gpwr' = 0..31 /\ DOMAIN sram' = Sram
           /\ \A a \in 96..99 : sram'[a] = input.mem[a]
  <1>1. /\ \A a \in 96..103 : a \in Sram
        /\ 100 - n \in 1..126 /\ 104 - n \in 1..126
        /\ 100 - n - 1 = 99 - n /\ 104 - n - 1 = 103 - n
        /\ 99 - n \in 96..99 /\ 99 - n \notin 0..31
        /\ 103 - n \in 100..103 /\ 103 - n \notin 0..31
    BY RoutinesAssumed DEF RoutinesAssumption
  <1>2. PC_max = 10
    BY CopyWords
  <1>3. /\ \A a \in 96..99 : a >= 100 - n => sram[a + 4] = input.mem[a]
        /\ CK = 5 + 7 * n + (IF PC = 5 THEN 0 ELSE IF PC = 6 THEN 2 ELSE 4)
    BY DEF CopyTurn
  <1>4. CASE PC = 5
    <2>1. At(gpwr, 26, 100 - n) /\ At(gpwr, 30, 104 - n) /\ gpwr[20] = (Byte - 4) + n
      BY <1>4 DEF CopyTurn
    <2>2. Wrapped(Pair(26) - 1) = 99 - n
      BY <2>1, <1>1, PointerIs
    <2> DEFINE regs == WithPair(gpwr, 26, 99 - n)
               v == input.mem[99 - n]
               l == (99 - n) % Byte
               h == (99 - n) \div Byte
    <2>3. MemRead(regs, 99 - n) = v
      <3>1. 99 - n \notin 0..31 /\ 99 - n \in Sram /\ sram[99 - n] = v
        BY <1>1
      <3> HIDE DEF regs, v
      <3> QED BY <3>1 DEF MemRead
    <2>4. ProgramWord(PC) = Mem("LD_decr", 0, 26)
      BY <1>4, CopyWords
    <2>5. Loads([regs EXCEPT ![0] = MemRead(regs, 99 - n)], 1, 2)
      BY <2>2, <2>4, AccessesRun, Zenon
    <2>6. Loads([regs EXCEPT ![0] = v], 1, 2)
      BY <2>3, <2>5, Zenon
    <2>7. gpwr' = [[gpwr EXCEPT ![26] = l, ![26 + 1] = h] EXCEPT ![0] = v]
      BY <2>6, Zenon DEF Loads, WithPair
    <2>8. PC' = 6 /\ CK' = CK + 2 /\ sram' = sram /\ sreg' = sreg
      <3> HIDE DEF regs, v
      <3> QED BY <2>6, <1>2, <1>4 DEF Loads, Advances, AdjustPC
    <2> HIDE DEF regs, v, l, h
    <2>9. /\ DOMAIN gpwr' = 0..31 /\ gpwr'[26] = l /\ gpwr'[26 + 1] = h /\ gpwr'[0] = v
          /\ gpwr'[20] = gpwr[20] /\ gpwr'[30] = gpwr[30] /\ gpwr'[30 + 1] = gpwr[30 + 1]
      BY <2>7
    <2>10. At(gpwr', 26, 99 - n) /\ At(gpwr', 30, 104 - n)
      <3>1. At(gpwr', 26, 99 - n)
        BY <2>9, Zenon DEF At, l, h
      <3>2. gpwr'[30] = gpwr[30] /\ gpwr'[30 + 1] = gpwr[30 + 1] /\ At(gpwr, 30, 104 - n)
        BY <2>1, <2>9
      <3>3. At(gpwr', 30, 104 - n)
        BY <3>2, Zenon DEF At
      <3> QED BY <3>1, <3>3
    <2>11. CopyTurn(n, gpwr', sram', sreg', 6, CK')
      BY <2>1, <2>8, <2>9, <2>10, <1>3, <1>4 DEF CopyTurn, v
    <2> QED BY <2>8, <2>9, <2>11, <1>4
  <1>5. CASE PC = 6
    <2>1. /\ At(gpwr, 26, 99 - n) /\ At(gpwr, 30, 104 - n) /\ gpwr[20] = (Byte - 4) + n
          /\ gpwr[0] = input.mem[99 - n]
      BY <1>5 DEF CopyTurn
    <2>2. Wrapped(Pair(30) - 1) = 103 - n
      BY <2>1, <1>1, PointerIs
    <2> DEFINE regs == WithPair(gpwr, 30, 103 - n)
               l == (103 - n) % Byte
               h == (103 - n) \div Byte
    <2>3. ProgramWord(PC) = Mem("ST_decr", 0, 30)
      BY <1>5, CopyWords
    <2>4. Stores(regs, 103 - n, gpwr[0], 1)
      <3> DEFINE down == Wrapped(Pair(30) - 1)
      <3>1. down \notin 0..31
        <4>1. 103 - n \notin 0..31
          BY <1>1
        <4> QED BY <4>1, <2>2, Zenon
      <3>2. Stores(WithPair(gpwr, 30, down), down, gpwr[0], 1)
        BY <2>3, <3>1, AccessesRun, Zenon
      <3> QED BY <3>2, <2>2, Zenon
    <2>5. gpwr' = [gpwr EXCEPT ![30] = l, ![30 + 1] = h]
      BY <2>4, Zenon DEF Stores, WithPair
    <2> HIDE DEF regs, l, h
    <2>6. PC' = 7 /\ CK' = CK + 2
      BY <2>4, <1>2, <1>5 DEF Stores, Advances, AdjustPC
    <2>7. /\ DOMAIN sram' = Sram /\ sram'[103 - n] = gpwr[0]
          /\ \A b \in Sram : b # 103 - n => sram'[b] = sram[b]
      <3>1. 103 - n \in Sram
        BY <1>1
      <3> QED BY <2>4, <3>1, StoredOnly
    <2>8. /\ DOMAIN gpwr' = 0..31 /\ gpwr'[30] = l /\ gpwr'[30 + 1] = h
          /\ gpwr'[20] = gpwr[20] /\ gpwr'[26] = gpwr[26] /\ gpwr'[26 + 1] = gpwr[26 + 1]
      BY <2>5
    <2>9. At(gpwr', 26, 99 - n) /\ At(gpwr', 30, 103 - n)
      BY <2>1, <2>8, Zenon DEF At, l, h
    <2>10. /\ \A a \in 96..99 : sram'[a] = input.mem[a]
           /\ \A a \in 96..99 : a >= 100 - n => sram'[a + 4] = input.mem[a]
      BY <2>7, <1>1, <1>3
    <2>11. CopyTurn(n, gpwr', sram', sreg', 7, CK')
      BY <2>1, <2>6, <2>7, <2>8, <2>9, <2>10, <1>3, <1>5 DEF CopyTurn
    <2> QED BY <2>6, <2>7, <2>8, <2>10, <2>11, <1>5
  <1>6. CASE PC = 7
    <2>1. /\ At(gpwr, 26, 99 - n) /\ At(gpwr, 30, 103 - n) /\ gpwr[20] = (Byte - 4) + n
          /\ sram[103 - n] = input.mem[99 - n]
      BY <1>6 DEF CopyTurn
    <2> DEFINE res == Sum(gpwr[20], 1, 0)
               F == SignFlags(Bit(res, Half), gpwr[20] = Half - 1) \cup ZeroFlag(res)
    <2>2. /\ n < 3 => res = (Byte - 3) + n
          /\ res = 0 <=> n = 3
      <3>1. Byte \in Nat /\ Byte >= 16
        BY Widths, RoutinesAssumed DEF RoutinesAssumption
      <3>2. gpwr[20] \in Bytes /\ 1 \in Bytes /\ 0 \in {0, 1}
        BY <2>1, <3>1 DEF Bytes
      <3>3. res = IF gpwr[20] + 1 + 0 < Byte THEN gpwr[20] + 1 + 0 ELSE gpwr[20] + 1 + 0 - Byte
        BY <3>2, SumIs
      <3> HIDE DEF res
      <3> QED BY <2>1, <3>1, <3>3
    <2>3. Writes(20, res, Logic, F)
      <3>1. ProgramWord(PC) = Reg1("INC", 20)
        BY <1>6, CopyWords
      <3> QED BY <3>1, CountsRun, Zenon
    <2>4. "Z" \in F <=> res = 0
      BY DEF SignFlags, ZeroFlag, On
    <2> HIDE DEF F, res
    <2>5. /\ PC' = 8 /\ CK' = CK + 1 /\ sram' = sram /\ gpwr' = [gpwr EXCEPT ![20] = res]
          /\ sreg' = (sreg \ Logic) \cup F
      BY <2>3, <1>2, <1>6 DEF Writes, Advances, AdjustPC
    <2>6. "Z" \in sreg' <=> n = 3
      BY <2>2, <2>4, <2>5 DEF Logic
    <2>7. /\ DOMAIN gpwr' = 0..31 /\ gpwr'[20] = res
          /\ At(gpwr', 26, 99 - n) /\ At(gpwr', 30, 103 - n)
      BY <2>1, <2>5 DEF At
    <2>8. CopyTurn(n, gpwr', sram', sreg', 8, CK')
      BY <2>1, <2>2, <2>5, <2>6, <2>7, <1>3, <1>6 DEF CopyTurn
    <2> QED BY <2>5, <2>7, <2>8, <1>6
  <1> QED BY <1>4, <1>5, <1>6

(* At the branch: to the next turn, or after the fourth on. *)
LEMMA CopyBranches ==
    ASSUME CopyAt(gpwr, sram, sreg, PC, CK), routine = "copy", [Next]_vars, ~Paused, PC = 8
    PROVE  CopyAt(gpwr', sram', sreg', PC', CK')
  <1>1. PICK n \in 0..3 : CopyTurn(n, gpwr, sram, sreg, 8, CK)
    BY DEF CopyAt
  <1>2. /\ At(gpwr, 26, 99 - n) /\ At(gpwr, 30, 103 - n)
        /\ n < 3 => gpwr[20] = (Byte - 3) + n
        /\ "Z" \in sreg <=> n = 3
        /\ \A a \in 96..99 : a >= 100 - n => sram[a + 4] = input.mem[a]
        /\ sram[103 - n] = input.mem[99 - n] /\ CK = 5 + 7 * n + 5
    BY <1>1 DEF CopyTurn
  <1>3. IF "Z" \notin sreg THEN Loads(gpwr, -4 + 1, 2) ELSE Loads(gpwr, 1, 1)
    BY CopyWords, BranchesRun
  <1>4. PC_max = 10
    BY CopyWords
  <1>5. /\ sram' = sram /\ gpwr' = gpwr /\ sreg' = sreg
        /\ "Z" \notin sreg => PC' = 5 /\ CK' = CK + 2
        /\ "Z" \in sreg => PC' = 9 /\ CK' = CK + 1
    BY <1>3, <1>4 DEF Loads, Advances, AdjustPC
  <1>6. /\ DOMAIN gpwr = 0..31 /\ DOMAIN sram = Sram
        /\ \A a \in 96..99 : sram[a] = input.mem[a]
    BY DEF CopyAt
  <1>7. \A a \in 96..99 : a >= 99 - n => sram[a + 4] = input.mem[a]
    <2> SUFFICES ASSUME NEW a \in 96..99, a >= 99 - n PROVE sram[a + 4] = input.mem[a]
      OBVIOUS
    <2>1. CASE a = 99 - n
      <3>1. a + 4 = 103 - n
        BY <2>1
      <3> QED BY <2>1, <3>1, <1>2
    <2>2. CASE a # 99 - n
      BY <2>2, <1>2
    <2> QED BY <2>1, <2>2
  <1>8. CASE n < 3
    <2> DEFINE m == n + 1
    <2>1. /\ m \in 0..3 /\ 99 - n = 100 - m /\ 103 - n = 104 - m
      BY <1>8
    <2>2. At(gpwr, 26, 100 - m) /\ At(gpwr, 30, 104 - m)
      BY <2>1, <1>2, Zenon
    <2>3. gpwr[20] = (Byte - 4) + m /\ CK' = 5 + 7 * m + 0 /\ PC' = 5
      BY <1>2, <1>5, <1>8, Widths
    <2>4. \A a \in 96..99 : a >= 100 - m => sram[a + 4] = input.mem[a]
      BY <1>7, <2>1
    <2> HIDE DEF m
    <2>5. CopyTurn(m, gpwr, sram, sreg, 5, CK')
      BY <2>2, <2>3, <2>4 DEF CopyTurn
    <2> QED BY <2>1, <2>3, <2>5, <1>5, <1>6 DEF CopyAt
  <1>9. CASE n = 3
    <2>1. PC' = 9 /\ CK' = 32
      BY <1>2, <1>5, <1>9
    <2>2. \A a \in 96..99 : sram[a + 4] = input.mem[a]
      BY <1>7, <1>9
    <2> QED BY <2>1, <2>2, <1>5, <1>6 DEF CopyAt
  <1> QED BY <1>8, <1>9

(* Every step of copy keeps this. *)
LEMMA CopyRuns ==
    ASSUME CopyRun, [Next]_vars
    PROVE  CopyRun'
  <1> SUFFICES ASSUME routine = "copy" PROVE CopyRun'
    BY SameRun DEF CopyRun
  <1>1. CopyAt(gpwr, sram, sreg, PC, CK)
    BY DEF CopyRun
  <1>2. input' = input
    BY SameRun
  <1>3. CopyAt(gpwr', sram', sreg', PC', CK') => CopyAt(gpwr, sram, sreg, PC, CK)'
    BY <1>2, SMT DEF CopyAt, CopyTurn
  <1>4. CASE Paused
    <2>1. gpwr' = gpwr /\ sram' = sram /\ sreg' = sreg /\ PC' = PC /\ CK' = CK
      BY <1>4 DEF Paused
    <2> QED BY <2>1, <1>1, <1>3, Zenon DEF CopyRun
  <1>5. CASE ~Paused /\ PC \in 0..4
    BY <1>1, <1>3, <1>5, CopyPrepares DEF CopyRun
  <1>6. CASE ~Paused /\ PC \in 5..7
    <2>1. PICK n \in 0..3 : CopyTurn(n, gpwr, sram, sreg, PC, CK)
      BY <1>1, <1>6 DEF CopyAt
    <2>2. CK \in Nat
      BY <1>6, <2>1 DEF CopyTurn
    <2>3. /\ PC' = PC + 1 /\ CopyTurn(n, gpwr', sram', sreg', PC + 1, CK')
          /\ DOMAIN gpwr' = 0..31 /\ DOMAIN sram' = Sram
          /\ \A a \in 96..99 : sram'[a] = input.mem[a]
      BY <1>1, <1>6, <2>1, <2>2, CopyTurnRuns DEF CopyAt
    <2>4. CopyAt(gpwr', sram', sreg', PC', CK')
      BY <1>6, <2>3 DEF CopyAt
    <2> QED BY <2>4, <1>3 DEF CopyRun
  <1>7. CASE ~Paused /\ PC = 8
    BY <1>1, <1>3, <1>7, CopyBranches DEF CopyRun
  <1>8. CASE ~Paused /\ PC = 9
    BY <1>8, CopyWords, ReturnStops
  <1>9. PC \in 0..9
    BY <1>1 DEF CopyAt
  <1> QED BY <1>4, <1>5, <1>6, <1>7, <1>8, <1>9

(* What memory holds when a routine starts. *)
LEMMA Given ==
    ASSUME input \in Inputs
    PROVE  /\ InputTyped
           /\ input.mem[96] = XL /\ input.mem[97] = XH
           /\ input.mem[98] = YL /\ input.mem[99] = YH
  <1>1. InputTyped
    BY DecoderAssumed DEF DecoderAssumption, InputTyped, X, Y
  <1> QED BY <1>1, RoutinesAssumed DEF RoutinesAssumption, XL, XH, YL, YH, X, Y

(* copy ends with both numbers copied. *)
LEMMA CopyEnds ==
    ASSUME input \in Inputs, CopyRun, Finished("copy")
    PROVE  Copied(100) = X /\ Copied(102) = Y
  <1>1. routine = "copy" /\ ProgramWord(PC) = RET /\ PC \in 0..9
    BY DEF Finished, CopyRun, CopyAt
  <1>2. PC = 9
    BY <1>1, CopyWords DEF Reg1, RegK, Mem, Low, High, If, RET, Plain
  <1>3. \A a \in 96..99 : sram[a + 4] = input.mem[a]
    BY <1>1, <1>2 DEF CopyRun, CopyAt
  <1>4. sram[100] = XL /\ sram[101] = XH /\ sram[102] = YL /\ sram[103] = YH
    <2>1. /\ sram[96 + 4] = XL /\ sram[97 + 4] = XH
          /\ sram[98 + 4] = YL /\ sram[99 + 4] = YH
      BY <1>3, Given
    <2> QED BY <2>1
  <1>5. ASSUME NEW v \in 0..(Word - 1) PROVE Byte * (v \div Byte) + (v % Byte) = v
    <2> DEFINE l == v % Byte
               p == Byte * (v \div Byte)
    <2>1. l \in Int /\ p \in Int /\ v = l + p
      BY Digits, Widths DEF Bytes
    <2> HIDE DEF l, p
    <2>2. p + l = v
      BY <2>1
    <2> QED BY <2>2 DEF l, p
  <1>6. X \in 0..(Word - 1) /\ Y \in 0..(Word - 1)
    BY Given DEF InputTyped
  <1>7. Copied(100) = Byte * XH + XL /\ Copied(102) = Byte * YH + YL
    <2>1. 100 + 1 = 101 /\ 102 + 1 = 103
      OBVIOUS
    <2> QED BY <1>4, <2>1, Zenon DEF Copied
  <1> QED BY <1>5, <1>6, <1>7, Zenon DEF XL, XH, YL, YH

----------------------------------------------------------------------------
(* Exchanges in memory, and registers as memory                             *)

(* What a load of v into register d changes. *)
LoadsInto(d, v, n, cks) == Loads([gpwr EXCEPT ![d] = v], n, cks)

(* It leaves all else alone. *)
LEMMA LoadedOnly ==
    ASSUME NEW d \in 0..31, NEW v, NEW n \in Nat, NEW cks, LoadsInto(d, v, n, cks),
           DOMAIN gpwr = 0..31, PC \in Nat, PC_max \in Nat, PC + n < PC_max
    PROVE  /\ PC' = PC + n /\ sram' = sram
           /\ DOMAIN gpwr' = 0..31 /\ gpwr'[d] = v
           /\ \A r \in 0..31 : r # d => gpwr'[r] = gpwr[r]
  <1>1. PC' = PC + n /\ sram' = sram /\ gpwr' = [gpwr EXCEPT ![d] = v]
    BY DEF LoadsInto, Loads, Advances, AdjustPC
  <1> QED BY <1>1

(* The program flip. *)
LEMMA FlipWords ==
    ASSUME routine = "flip"
    PROVE  /\ ProgramWord(0) = Low(30, 96) /\ ProgramWord(1) = High(30, 96)
           /\ ProgramWord(2) = Low(26, 97) /\ ProgramWord(3) = High(26, 97)
           /\ ProgramWord(4) = MemQ("LDD", 0, 30, 0) /\ ProgramWord(5) = MemQ("LDD", 1, 30, 3)
           /\ ProgramWord(6) = MemQ("STD", 1, 30, 0) /\ ProgramWord(7) = MemQ("STD", 0, 30, 3)
           /\ ProgramWord(8) = Reg1("LD_X", 2)
           /\ ProgramWord(9) = Reg1("LDS", 3) /\ ProgramWord(10) = Data(98)
           /\ ProgramWord(11) = Reg1("STS", 2) /\ ProgramWord(12) = Data(98)
           /\ ProgramWord(13) = Reg1("ST_X", 3) /\ ProgramWord(14) = RET /\ PC_max = 15
  BY Program DEF Routines, ProgramWord, PC_max

(* flip: which digits have gone where, by way of which registers. *)
FlipAt(regs, mem, pc) ==
    /\ DOMAIN regs = 0..31 /\ DOMAIN mem = Sram
    /\ pc >= 1 => AtLow(regs, 30, 96)
    /\ pc >= 2 => AtHigh(regs, 30, 96)
    /\ pc >= 3 => AtLow(regs, 26, 97)
    /\ pc >= 4 => AtHigh(regs, 26, 97)
    /\ pc >= 5 => regs[0] = XL
    /\ pc >= 6 => regs[1] = YH
    /\ pc >= 9 => regs[2] = XH
    /\ pc >= 11 => regs[3] = YL
    /\ mem[96] = IF pc <= 6 THEN XL ELSE YH
    /\ mem[97] = IF pc <= 13 THEN XH ELSE YL
    /\ mem[98] = IF pc <= 11 THEN YL ELSE XH
    /\ mem[99] = IF pc <= 7 THEN YH ELSE XL

(* The part of the invariant about flip. *)
FlipRun == routine = "flip" => FlipAt(gpwr, sram, PC)

(* Its first four words. *)
LEMMA FlipPrepares ==
    ASSUME FlipAt(gpwr, sram, PC), routine = "flip", [Next]_vars, ~Paused, PC \in 0..3
    PROVE  FlipAt(gpwr', sram', PC')
  <1>1. /\ DOMAIN gpwr = 0..31 /\ DOMAIN sram = Sram
        /\ sram[96] = XL /\ sram[97] = XH /\ sram[98] = YL /\ sram[99] = YH
        /\ PC >= 1 => AtLow(gpwr, 30, 96)
        /\ PC >= 2 => AtHigh(gpwr, 30, 96)
        /\ PC >= 3 => AtLow(gpwr, 26, 97)
    BY DEF FlipAt
  <1>2. PC \in Nat /\ PC_max \in Nat /\ PC + 1 < PC_max
    BY FlipWords
  <1>3. CASE PC = 0
    <2>1. Keeps(30) /\ AtLow(gpwr', 30, 96)
      BY <1>1, <1>2, <1>3, FlipWords, AddressLoads
    <2> QED BY <2>1, <1>1, <1>3 DEF FlipAt, Keeps
  <1>4. CASE PC = 1
    <2>1. Keeps(30 + 1) /\ AtHigh(gpwr', 30, 96)
      BY <1>1, <1>2, <1>4, FlipWords, AddressLoads
    <2>2. AtLow(gpwr', 30, 96)
      BY <2>1, <1>1, <1>4, AddressStays
    <2> QED BY <2>1, <2>2, <1>1, <1>4 DEF FlipAt, Keeps
  <1>5. CASE PC = 2
    <2>1. Keeps(26) /\ AtLow(gpwr', 26, 97)
      BY <1>1, <1>2, <1>5, FlipWords, AddressLoads
    <2>2. AtLow(gpwr', 30, 96) /\ AtHigh(gpwr', 30, 96)
      BY <2>1, <1>1, <1>5, AddressStays
    <2> QED BY <2>1, <2>2, <1>1, <1>5 DEF FlipAt, Keeps
  <1>6. CASE PC = 3
    <2>1. Keeps(26 + 1) /\ AtHigh(gpwr', 26, 97)
      BY <1>1, <1>2, <1>6, FlipWords, AddressLoads
    <2>2. AtLow(gpwr', 30, 96) /\ AtHigh(gpwr', 30, 96) /\ AtLow(gpwr', 26, 97)
      BY <2>1, <1>1, <1>6, AddressStays
    <2> QED BY <2>1, <2>2, <1>1, <1>6 DEF FlipAt, Keeps
  <1> QED BY <1>3, <1>4, <1>5, <1>6

(* The others. *)
LEMMA FlipMoves ==
    ASSUME FlowInv, Sound, FlipAt(gpwr, sram, PC), routine = "flip", [Next]_vars, ~Paused,
           PC \in 4..13
    PROVE  FlipAt(gpwr', sram', PC')
  <1>1. /\ DOMAIN gpwr = 0..31 /\ DOMAIN sram = Sram
        /\ PC >= 5 => gpwr[0] = XL
        /\ PC >= 6 => gpwr[1] = YH
        /\ PC >= 9 => gpwr[2] = XH
        /\ PC >= 11 => gpwr[3] = YL
        /\ sram[96] = IF PC <= 6 THEN XL ELSE YH
        /\ sram[97] = XH
        /\ sram[98] = IF PC <= 11 THEN YL ELSE XH
        /\ sram[99] = IF PC <= 7 THEN YH ELSE XL
        /\ AtLow(gpwr, 30, 96) /\ AtHigh(gpwr, 30, 96)
        /\ AtLow(gpwr, 26, 97) /\ AtHigh(gpwr, 26, 97)
    BY DEF FlipAt
  <1>2. PC_max = 15 /\ PC \in Nat /\ PC_max \in Nat
    BY FlipWords
  <1>3. 96 \in Sram /\ 97 \in Sram /\ 98 \in Sram /\ 99 \in Sram
    BY RoutinesAssumed DEF RoutinesAssumption
  <1>4. Pair(30) = 96 /\ Pair(26) = 97
    <2>1. At(gpwr, 30, 96) /\ At(gpwr, 26, 97)
      BY <1>1, Zenon DEF At, AtLow, AtHigh
    <2> QED BY <2>1, PointerIs
  <1>5. \A a \in {96, 97, 98, 99} : MemRead(gpwr, a) = sram[a]
    BY <1>3 DEF MemRead
  <1>6. ASSUME NEW d \in 0..3, DOMAIN gpwr' = 0..31, \A r \in 0..31 : r # d => gpwr'[r] = gpwr[r]
        PROVE  /\ AtLow(gpwr', 30, 96) /\ AtHigh(gpwr', 30, 96)
               /\ AtLow(gpwr', 26, 97) /\ AtHigh(gpwr', 26, 97)
    <2>1. /\ gpwr'[30] = gpwr[30] /\ gpwr'[30 + 1] = gpwr[30 + 1]
          /\ gpwr'[26] = gpwr[26] /\ gpwr'[26 + 1] = gpwr[26 + 1]
      BY <1>6
    <2> QED BY <2>1, <1>1, Zenon DEF AtLow, AtHigh
  <1>7. PC \in {9, 11} => Operand = 98
    <2>1. PC \in {9, 11} => ProgramWord(PC + 1) = Data(98) /\ ProgramWord(PC).op \in TwoWords
      BY FlipWords DEF Reg1, TwoWords
    <2> QED BY <2>1, OperandIs DEF Data
  <1>8. CASE PC = 4
    <2>1. ProgramWord(PC) = MemQ("LDD", 0, 30, 0)
      BY <1>8, FlipWords
    <2>2. LoadsInto(0, MemRead(gpwr, Pair(30) + 0), 1, 2)
      BY <2>1, PointersRun, Zenon DEF LoadsInto
    <2>3. MemRead(gpwr, Pair(30) + 0) = XL
      <3>1. Pair(30) + 0 = 96
        BY <1>4
      <3> QED BY <3>1, <1>1, <1>5, <1>8
    <2>4. /\ PC' = PC + 1 /\ sram' = sram /\ DOMAIN gpwr' = 0..31 /\ gpwr'[0] = XL
          /\ \A r \in 0..31 : r # 0 => gpwr'[r] = gpwr[r]
      <3>1. LoadsInto(0, XL, 1, 2)
        BY <2>2, <2>3, Zenon
      <3> QED BY <3>1, <1>1, <1>2, <1>8, LoadedOnly
    <2> QED BY <2>4, <1>1, <1>6, <1>8 DEF FlipAt
  <1>9. CASE PC = 5
    <2>1. ProgramWord(PC) = MemQ("LDD", 1, 30, 3)
      BY <1>9, FlipWords
    <2>2. LoadsInto(1, MemRead(gpwr, Pair(30) + 3), 1, 2)
      BY <2>1, PointersRun, Zenon DEF LoadsInto
    <2>3. MemRead(gpwr, Pair(30) + 3) = YH
      <3>1. Pair(30) + 3 = 99
        BY <1>4
      <3> QED BY <3>1, <1>1, <1>5, <1>9
    <2>4. /\ PC' = PC + 1 /\ sram' = sram /\ DOMAIN gpwr' = 0..31 /\ gpwr'[1] = YH
          /\ \A r \in 0..31 : r # 1 => gpwr'[r] = gpwr[r]
      <3>1. LoadsInto(1, YH, 1, 2)
        BY <2>2, <2>3, Zenon
      <3> QED BY <3>1, <1>1, <1>2, <1>9, LoadedOnly
    <2> QED BY <2>4, <1>1, <1>6, <1>9 DEF FlipAt
  <1>10. CASE PC = 6
    <2>1. ProgramWord(PC) = MemQ("STD", 1, 30, 0)
      BY <1>10, FlipWords
    <2>2. Pair(30) + 0 = 96
      BY <1>4
    <2>3. Pair(30) + 0 \notin 0..31
      BY <2>2
    <2>4. Stores(gpwr, 96, YH, 1)
      <3>1. Stores(gpwr, Pair(30) + 0, gpwr[1], 1)
        BY <2>1, <2>3, AccessesRun, Zenon
      <3> QED BY <2>2, <3>1, <1>1, <1>10
    <2>5. /\ DOMAIN sram' = Sram /\ sram'[96] = YH
          /\ \A b \in Sram : b # 96 => sram'[b] = sram[b]
      BY <2>4, <1>1, <1>3, StoredOnly
    <2>6. PC' = 7 /\ gpwr' = gpwr
      BY <2>4, <1>2, <1>10 DEF Stores, Advances, AdjustPC
    <2> QED BY <2>5, <2>6, <1>1, <1>3, <1>10 DEF FlipAt
  <1>11. CASE PC = 7
    <2>1. ProgramWord(PC) = MemQ("STD", 0, 30, 3)
      BY <1>11, FlipWords
    <2>2. Pair(30) + 3 = 99
      BY <1>4
    <2>3. Pair(30) + 3 \notin 0..31
      BY <2>2
    <2>4. Stores(gpwr, 99, XL, 1)
      <3>1. Stores(gpwr, Pair(30) + 3, gpwr[0], 1)
        BY <2>1, <2>3, AccessesRun, Zenon
      <3> QED BY <2>2, <3>1, <1>1, <1>11
    <2>5. /\ DOMAIN sram' = Sram /\ sram'[99] = XL
          /\ \A b \in Sram : b # 99 => sram'[b] = sram[b]
      BY <2>4, <1>1, <1>3, StoredOnly
    <2>6. PC' = 8 /\ gpwr' = gpwr
      BY <2>4, <1>2, <1>11 DEF Stores, Advances, AdjustPC
    <2> QED BY <2>5, <2>6, <1>1, <1>3, <1>11 DEF FlipAt
  <1>12. CASE PC = 8
    <2>1. ProgramWord(PC) = Reg1("LD_X", 2)
      BY <1>12, FlipWords
    <2>2. LoadsInto(2, MemRead(gpwr, Pair(26)), 1, 2)
      BY <2>1, AccessesRun, Zenon DEF LoadsInto
    <2>3. MemRead(gpwr, Pair(26)) = XH
      BY <1>1, <1>4, <1>5, <1>12
    <2>4. /\ PC' = PC + 1 /\ sram' = sram /\ DOMAIN gpwr' = 0..31 /\ gpwr'[2] = XH
          /\ \A r \in 0..31 : r # 2 => gpwr'[r] = gpwr[r]
      <3>1. LoadsInto(2, XH, 1, 2)
        BY <2>2, <2>3, Zenon
      <3> QED BY <3>1, <1>1, <1>2, <1>12, LoadedOnly
    <2> QED BY <2>4, <1>1, <1>6, <1>12 DEF FlipAt
  <1>13. CASE PC = 9
    <2>1. ProgramWord(PC) = Reg1("LDS", 3)
      BY <1>13, FlipWords
    <2>2. LoadsInto(3, MemRead(gpwr, Operand), 2, 2)
      BY <2>1, AccessesRun, Zenon DEF LoadsInto
    <2>3. MemRead(gpwr, Operand) = YL
      BY <1>1, <1>5, <1>7, <1>13
    <2>4. /\ PC' = PC + 2 /\ sram' = sram /\ DOMAIN gpwr' = 0..31 /\ gpwr'[3] = YL
          /\ \A r \in 0..31 : r # 3 => gpwr'[r] = gpwr[r]
      <3>1. LoadsInto(3, YL, 2, 2)
        BY <2>2, <2>3, Zenon
      <3> QED BY <3>1, <1>1, <1>2, <1>13, LoadedOnly
    <2> QED BY <2>4, <1>1, <1>6, <1>13 DEF FlipAt
  <1>14. CASE PC = 11
    <2>1. ProgramWord(PC) = Reg1("STS", 2)
      BY <1>14, FlipWords
    <2>2. Operand = 98
      BY <1>7, <1>14
    <2>3. Operand \notin 0..31
      BY <2>2
    <2>4. Stores(gpwr, 98, XH, 2)
      <3>1. Stores(gpwr, Operand, gpwr[2], 2)
        BY <2>1, <2>3, AccessesRun, Zenon
      <3> QED BY <2>2, <3>1, <1>1, <1>14
    <2>5. /\ DOMAIN sram' = Sram /\ sram'[98] = XH
          /\ \A b \in Sram : b # 98 => sram'[b] = sram[b]
      BY <2>4, <1>1, <1>3, StoredOnly
    <2>6. PC' = 13 /\ gpwr' = gpwr
      BY <2>4, <1>2, <1>14 DEF Stores, Advances, AdjustPC
    <2> QED BY <2>5, <2>6, <1>1, <1>3, <1>14 DEF FlipAt
  <1>15. CASE PC = 13
    <2>1. ProgramWord(PC) = Reg1("ST_X", 3)
      BY <1>15, FlipWords
    <2>2. Pair(26) = 97
      BY <1>4
    <2>3. Pair(26) \notin 0..31
      BY <2>2
    <2>4. Stores(gpwr, 97, YL, 1)
      <3>1. Stores(IF Pair(26) \in 0..31 THEN [gpwr EXCEPT ![Pair(26)] = gpwr[3]]
                                        ELSE gpwr, Pair(26), gpwr[3], 1)
        BY <2>1, AccessesRun, Zenon
      <3>2. Stores(gpwr, Pair(26), gpwr[3], 1)
        BY <2>3, <3>1, Zenon
      <3> QED BY <2>2, <3>2, <1>1, <1>15
    <2>5. /\ DOMAIN sram' = Sram /\ sram'[97] = YL
          /\ \A b \in Sram : b # 97 => sram'[b] = sram[b]
      BY <2>4, <1>1, <1>3, StoredOnly
    <2>6. PC' = 14 /\ gpwr' = gpwr
      BY <2>4, <1>2, <1>15 DEF Stores, Advances, AdjustPC
    <2> QED BY <2>5, <2>6, <1>1, <1>3, <1>15 DEF FlipAt
  <1>16. PC \notin {10, 12}
    BY FlipWords DEF FlowInv, Start, Data
  <1> QED BY <1>8, <1>9, <1>10, <1>11, <1>12, <1>13, <1>14, <1>15, <1>16

(* Every step of flip keeps this. *)
LEMMA FlipRuns ==
    ASSUME FlowInv, Sound, FlipRun, [Next]_vars
    PROVE  FlipRun'
  <1> SUFFICES ASSUME routine = "flip" PROVE FlipRun'
    BY SameRun DEF FlipRun
  <1>1. FlipAt(gpwr, sram, PC)
    BY DEF FlipRun
  <1>2. XL' = XL /\ XH' = XH /\ YL' = YL /\ YH' = YH
    BY SameRun DEF XL, XH, YL, YH, X, Y
  <1>3. FlipAt(gpwr', sram', PC') => FlipAt(gpwr, sram, PC)'
    BY <1>2, SMT DEF FlipAt
  <1>4. CASE Paused
    BY <1>1, <1>3, <1>4 DEF Paused, FlipRun
  <1>5. CASE ~Paused /\ PC \in 0..3
    BY <1>1, <1>3, <1>5, FlipPrepares DEF FlipRun
  <1>6. CASE ~Paused /\ PC \in 4..13
    BY <1>1, <1>3, <1>6, FlipMoves DEF FlipRun
  <1>7. CASE ~Paused /\ PC = 14
    BY <1>7, FlipWords, ReturnStops
  <1>8. PC \in 0..14
    BY FlipWords DEF FlowInv, Start
  <1> QED BY <1>4, <1>5, <1>6, <1>7, <1>8

(* flip ends with the numbers, and their digits, exchanged. *)
LEMMA FlipEnds ==
    ASSUME FlowInv, FlipRun, Finished("flip")
    PROVE  /\ sram[96] = Y \div Byte /\ sram[97] = Y % Byte
           /\ sram[98] = X \div Byte /\ sram[99] = X % Byte
  <1>1. routine = "flip" /\ ProgramWord(PC) = RET /\ Start(PC)
    BY DEF Finished, FlowInv
  <1>2. PC = 14
    BY <1>1, FlipWords
    DEF Start, Reg1, RegK, MemQ, Low, High, Data, RET, Plain
  <1>3. FlipAt(gpwr, sram, 14)
    BY <1>1, <1>2 DEF FlipRun
  <1>4. sram[96] = YH /\ sram[97] = YL /\ sram[98] = XH /\ sram[99] = XL
    BY <1>3 DEF FlipAt
  <1> QED BY <1>4 DEF XL, XH, YL, YH

(* The program regs. *)
LEMMA RegsWords ==
    ASSUME routine = "regs"
    PROVE  /\ ProgramWord(0) = Low(26, 18) /\ ProgramWord(1) = High(26, 18)
           /\ ProgramWord(2) = Mem("LD_incr", 20, 26) /\ ProgramWord(3) = Reg1("ST_X", 16)
           /\ ProgramWord(4) = RET /\ PC_max = 5
  BY Program DEF Routines, ProgramWord, PC_max

(* regs: X at register 18, as memory, and then at register 19. *)
RegsRun ==
    routine = "regs" =>
      /\ DOMAIN gpwr = 0..31 /\ gpwr[16] = XL /\ gpwr[18] = YL
      /\ PC \in {1, 2} => AtLow(gpwr, 26, 18)
      /\ PC = 2 => AtHigh(gpwr, 26, 18)
      /\ PC = 3 => At(gpwr, 26, 19)
      /\ PC \in {3, 4} => gpwr[20] = YL
      /\ PC = 4 => gpwr[19] = XL

(* Every step of regs keeps this. *)
LEMMA RegsRuns ==
    ASSUME FlowInv, RegsRun, [Next]_vars
    PROVE  RegsRun'
  <1> SUFFICES ASSUME routine = "regs" PROVE RegsRun'
    BY SameRun DEF RegsRun
  <1>1. /\ DOMAIN gpwr = 0..31 /\ gpwr[16] = XL /\ gpwr[18] = YL
        /\ PC \in {1, 2} => AtLow(gpwr, 26, 18)
        /\ PC = 2 => AtHigh(gpwr, 26, 18)
        /\ PC = 3 => At(gpwr, 26, 19) /\ gpwr[20] = YL
    BY DEF RegsRun
  <1>2. XL' = XL /\ YL' = YL /\ routine' = routine
    BY SameRun DEF XL, YL, X, Y
  <1>3. PC_max = 5 /\ PC \in 0..4 /\ PC \in Nat /\ PC_max \in Nat
    BY RegsWords DEF FlowInv, Start
  <1>4. CASE Paused
    <2>1. gpwr' = gpwr /\ PC' = PC
      BY <1>4 DEF Paused
    <2>2. /\ DOMAIN gpwr' = 0..31 /\ gpwr'[16] = XL /\ gpwr'[18] = YL
          /\ PC \in {1, 2} => AtLow(gpwr', 26, 18)
          /\ PC = 2 => AtHigh(gpwr', 26, 18)
          /\ PC = 3 => At(gpwr', 26, 19)
          /\ PC \in {3, 4} => gpwr'[20] = YL
          /\ PC = 4 => gpwr'[19] = XL
      BY <2>1 DEF RegsRun
    <2> QED BY <1>2, <2>1, <2>2 DEF RegsRun
  <1>5. CASE ~Paused /\ PC = 0
    <2>1. Keeps(26) /\ AtLow(gpwr', 26, 18)
      BY <1>1, <1>3, <1>5, RegsWords, AddressLoads
    <2> QED BY <2>1, <1>1, <1>2, <1>5 DEF RegsRun, Keeps
  <1>6. CASE ~Paused /\ PC = 1
    <2>1. Keeps(26 + 1) /\ AtHigh(gpwr', 26, 18)
      BY <1>1, <1>3, <1>6, RegsWords, AddressLoads
    <2>2. AtLow(gpwr', 26, 18)
      BY <2>1, <1>1, <1>6, AddressStays
    <2> QED BY <2>1, <2>2, <1>1, <1>2, <1>6 DEF RegsRun, Keeps
  <1>7. CASE ~Paused /\ PC = 2
    <2>1. Pair(26) = 18 /\ Wrapped(Pair(26) + 1) = 19
      <3>1. At(gpwr, 26, 18)
        BY <1>1, <1>7 DEF At, AtLow, AtHigh
      <3> QED BY <3>1, PointerIs
    <2>2. MemRead(gpwr, 18) = YL
      BY <1>1 DEF MemRead
    <2>3. Loads(WithPair([gpwr EXCEPT ![20] = YL], 26, 19), 1, 2)
      <3>1. ProgramWord(PC) = Mem("LD_incr", 20, 26)
        BY <1>7, RegsWords
      <3> QED BY <3>1, <2>1, <2>2, <1>7, PointersRun, Zenon
    <2>4. PC' = 3
      BY <2>3, <1>3, <1>7 DEF Loads, Advances, AdjustPC
    <2> DEFINE l == 19 % Byte
               h == 19 \div Byte
    <2>5. gpwr' = [[gpwr EXCEPT ![20] = YL] EXCEPT ![26] = l, ![26 + 1] = h]
      BY <2>3, Zenon DEF Loads, WithPair
    <2> HIDE DEF l, h
    <2>6. /\ DOMAIN gpwr' = 0..31 /\ gpwr'[16] = XL /\ gpwr'[18] = YL /\ gpwr'[20] = YL
          /\ gpwr'[26] = l /\ gpwr'[26 + 1] = h
      BY <2>5, <1>1
    <2>7. At(gpwr', 26, 19)
      BY <2>6, Zenon DEF At, l, h
    <2> QED BY <2>4, <2>6, <2>7, <1>2 DEF RegsRun
  <1>8. CASE ~Paused /\ PC = 3
    <2>1. Pair(26) = 19
      BY <1>1, <1>8, PointerIs
    <2> DEFINE regs == [gpwr EXCEPT ![19] = gpwr[16]]
    <2>2. Stores(regs, 19, gpwr[16], 1)
      <3>1. ProgramWord(PC) = Reg1("ST_X", 16)
        BY <1>8, RegsWords
      <3>2. Stores(IF Pair(26) \in 0..31 THEN [gpwr EXCEPT ![Pair(26)] = gpwr[16]]
                                         ELSE gpwr, Pair(26), gpwr[16], 1)
        BY <3>1, <1>8, AccessesRun, Zenon
      <3>3. Pair(26) \in 0..31
        BY <2>1
      <3>4. Stores([gpwr EXCEPT ![Pair(26)] = gpwr[16]], Pair(26), gpwr[16], 1)
        BY <3>2, <3>3, Zenon
      <3> QED BY <3>4, <2>1, Zenon
    <2>3. PC' = 4 /\ gpwr' = regs
      <3> HIDE DEF regs
      <3> QED BY <2>2, <1>3, <1>8 DEF Stores, Advances, AdjustPC
    <2>4. /\ DOMAIN gpwr' = 0..31 /\ gpwr'[16] = XL /\ gpwr'[18] = YL
          /\ gpwr'[20] = YL /\ gpwr'[19] = XL
      BY <2>3, <1>1, <1>8
    <2> QED BY <2>3, <2>4, <1>2 DEF RegsRun
  <1>9. CASE ~Paused /\ PC = 4
    BY <1>9, RegsWords, ReturnStops
  <1> QED BY <1>3, <1>4, <1>5, <1>6, <1>7, <1>8, <1>9

(* regs ends with the low digit of X where the high one of Y was. *)
LEMMA RegsEnds ==
    ASSUME FlowInv, RegsRun, Finished("regs")
    PROVE  gpwr[20] = Y % Byte /\ gpwr[19] = X % Byte
  <1>1. routine = "regs" /\ ProgramWord(PC) = RET /\ PC \in 0..4
    BY RegsWords DEF Finished, FlowInv, Start
  <1>2. PC = 4
    BY <1>1, RegsWords DEF Reg1, RegK, Mem, Low, High, RET, Plain
  <1> QED BY <1>1, <1>2 DEF RegsRun, XL, YL

----------------------------------------------------------------------------
(* Skips                                                                    *)

(* The words of skip and jump, with their operands. *)
LEMMA SkipProgram ==
    ASSUME routine = "skip"
    PROVE  /\ ProgramWord(0) = RegB("SBRC", 17, 8)
           /\ ProgramWord(1) = Reg1("STS", 16) /\ ProgramWord(2) = Data(100)
           /\ ProgramWord(3) = RegB("SBRS", 17, 8)
           /\ ProgramWord(4) = Reg1("STS", 16) /\ ProgramWord(5) = Data(101)
           /\ ProgramWord(6) = Reg2("CPSE", 17, 19)
           /\ ProgramWord(7) = Reg1("LDS", 19) /\ ProgramWord(8) = Data(97)
           /\ ProgramWord(9) = Reg2("MOV", 20, 16) /\ ProgramWord(10) = RegB("SBRC", 18, 1)
           /\ ProgramWord(11) = Reg2("MOV", 20, 17) /\ ProgramWord(12) = Plain("NOP")
  BY Program DEF Routines, ProgramWord

(* The words of jump where it compares and tells the outcome. *)
LEMMA JumpProgram ==
    ASSUME routine = "jump"
    PROVE  /\ ProgramWord(0) = Reg2("CPSE", 16, 18)
           /\ ProgramWord(7) = RegK("LDI", 20, 0) /\ ProgramWord(10) = RegK("LDI", 20, 1)
  BY Program DEF Routines, ProgramWord

(* Where a skip goes, by what it jumps over. *)
LEMMA SkipGoes ==
    ASSUME FlowInv, Sound, ProgramWord(PC).op \in Skips, NEW taken, SkipsIf(taken),
           NEW n \in {2, 3}, n = 3 <=> ProgramWord(PC + 1).op \in TwoWords,
           PC + n < PC_max
    PROVE  /\ gpwr' = gpwr /\ sram' = sram
           /\ taken => PC' = PC + n
           /\ ~taken => PC' = PC + 1
  <1>1. PC \in Nat /\ PC_max \in Nat
    BY DEF FlowInv, Start, Sound
  <1>2. is_next_inst_2_words <=> n = 3
    BY <1>1, SkipSees
  <1> QED BY <1>1, <1>2 DEF SkipsIf, Loads, Advances, AdjustPC

(* The bits that skip tests. *)
Bit8 == Bit(XH, 8)
Bit1 == Bit(YL, 1)

(* skip: what has been executed and what skipped. *)
SkipAt(regs, mem, pc) ==
    /\ DOMAIN regs = 0..31 /\ DOMAIN mem = Sram
    /\ regs[16] = XL /\ regs[17] = XH /\ regs[18] = YL /\ mem[97] = XH
    /\ pc = 1 => Bit8
    /\ pc = 4 => ~Bit8
    /\ mem[100] = IF pc >= 3 /\ Bit8 THEN XL ELSE input.mem[100]
    /\ mem[101] = IF pc >= 6 /\ ~Bit8 THEN XL ELSE input.mem[101]
    /\ pc >= 9 => regs[19] = XH
    /\ pc \in {10, 11} => regs[20] = XL
    /\ pc = 11 => Bit1
    /\ pc >= 12 => regs[20] = IF Bit1 THEN XH ELSE XL

(* The part of the invariant about skip. *)
SkipRun == routine = "skip" => SkipAt(gpwr, sram, PC)

(* A step of skip. *)
LEMMA SkipSteps ==
    ASSUME FlowInv, Sound, SkipAt(gpwr, sram, PC), routine = "skip", [Next]_vars, ~Paused
    PROVE  SkipAt(gpwr', sram', PC')
  <1>1. /\ DOMAIN gpwr = 0..31 /\ DOMAIN sram = Sram
        /\ gpwr[16] = XL /\ gpwr[17] = XH /\ gpwr[18] = YL /\ sram[97] = XH
        /\ PC = 1 => Bit8
        /\ PC = 4 => ~Bit8
        /\ sram[100] = IF PC >= 3 /\ Bit8 THEN XL ELSE input.mem[100]
        /\ sram[101] = IF PC >= 6 /\ ~Bit8 THEN XL ELSE input.mem[101]
        /\ PC >= 9 => gpwr[19] = XH
        /\ PC \in {10, 11} => gpwr[20] = XL
        /\ PC = 11 => Bit1
        /\ PC >= 12 => gpwr[20] = IF Bit1 THEN XH ELSE XL
    BY DEF SkipAt
  <1>2. PC_max = 14 /\ PC \in Nat /\ PC_max \in Nat
    BY SkipWords DEF FlowInv, Start
  <1>3. 97 \in Sram /\ 100 \in Sram /\ 101 \in Sram
    BY RoutinesAssumed DEF RoutinesAssumption
  <1>4. PC \in {1, 4, 7} => Operand = ProgramWord(PC + 1).k
    BY SkipWords, OperandIs DEF TwoWords
  <1>5. CASE PC = 0
    <2>1. SkipsIf(~Bit8)
      <3>1. SkipsIf(~Bit(gpwr[17], 8))
        <4>1. ProgramWord(PC) = RegB("SBRC", 17, 8)
          BY <1>5, SkipProgram
        <4> QED BY <4>1, SkipsRun, Zenon
      <3> QED BY <3>1, <1>1, Zenon DEF Bit8
    <2>2. /\ gpwr' = gpwr /\ sram' = sram
          /\ ~Bit8 => PC' = PC + 3
          /\ ~~Bit8 => PC' = PC + 1
      <3>1. /\ ProgramWord(PC).op \in Skips /\ ProgramWord(PC + 1).op \in TwoWords
            /\ PC + 3 < PC_max /\ 3 \in {2, 3}
        BY <1>2, <1>5, SkipWords DEF Skips, TwoWords
      <3> QED BY <2>1, <3>1, SkipGoes
    <2> QED BY <2>2, <1>1, <1>5 DEF SkipAt
  <1>6. CASE PC = 1
    <2>1. Operand = 100 /\ ProgramWord(PC) = Reg1("STS", 16)
      BY <1>4, <1>6, SkipProgram DEF Data
    <2>2. Stores(gpwr, 100, XL, 2)
      <3>1. Operand \notin 0..31
        BY <2>1
      <3>2. Stores(gpwr, Operand, gpwr[16], 2)
        BY <2>1, <3>1, AccessesRun, Zenon
      <3> QED BY <3>2, <2>1, <1>1
    <2>3. /\ DOMAIN sram' = Sram /\ sram'[100] = XL
          /\ \A b \in Sram : b # 100 => sram'[b] = sram[b]
      BY <2>2, <1>1, <1>3, StoredOnly
    <2>4. PC' = 3 /\ gpwr' = gpwr
      BY <2>2, <1>2, <1>6 DEF Stores, Advances, AdjustPC
    <2> QED BY <2>3, <2>4, <1>1, <1>3, <1>6 DEF SkipAt
  <1>7. CASE PC = 3
    <2>1. SkipsIf(Bit8)
      <3>1. SkipsIf(Bit(gpwr[17], 8))
        <4>1. ProgramWord(PC) = RegB("SBRS", 17, 8)
          BY <1>7, SkipProgram
        <4> QED BY <4>1, SkipsRun, Zenon
      <3> QED BY <3>1, <1>1, Zenon DEF Bit8
    <2>2. /\ gpwr' = gpwr /\ sram' = sram
          /\ Bit8 => PC' = PC + 3
          /\ ~Bit8 => PC' = PC + 1
      <3>1. /\ ProgramWord(PC).op \in Skips /\ ProgramWord(PC + 1).op \in TwoWords
            /\ PC + 3 < PC_max /\ 3 \in {2, 3}
        BY <1>2, <1>7, SkipWords DEF Skips, TwoWords
      <3> QED BY <2>1, <3>1, SkipGoes
    <2> QED BY <2>2, <1>1, <1>7 DEF SkipAt
  <1>8. CASE PC = 4
    <2>1. Operand = 101 /\ ProgramWord(PC) = Reg1("STS", 16)
      BY <1>4, <1>8, SkipProgram DEF Data
    <2>2. Stores(gpwr, 101, XL, 2)
      <3>1. Operand \notin 0..31
        BY <2>1
      <3>2. Stores(gpwr, Operand, gpwr[16], 2)
        BY <2>1, <3>1, AccessesRun, Zenon
      <3> QED BY <3>2, <2>1, <1>1
    <2>3. /\ DOMAIN sram' = Sram /\ sram'[101] = XL
          /\ \A b \in Sram : b # 101 => sram'[b] = sram[b]
      BY <2>2, <1>1, <1>3, StoredOnly
    <2>4. PC' = 6 /\ gpwr' = gpwr
      BY <2>2, <1>2, <1>8 DEF Stores, Advances, AdjustPC
    <2> QED BY <2>3, <2>4, <1>1, <1>3, <1>8 DEF SkipAt
  <1>9. CASE PC = 6
    <2> DEFINE equal == gpwr[17] = gpwr[19]
    <2>1. SkipsIf(equal)
      <3>1. ProgramWord(PC) = Reg2("CPSE", 17, 19)
        BY <1>9, SkipProgram
      <3> QED BY <3>1, SkipsRun, Zenon
    <2>2. /\ gpwr' = gpwr /\ sram' = sram
          /\ equal => PC' = PC + 3
          /\ ~equal => PC' = PC + 1
      <3>1. /\ ProgramWord(PC).op \in Skips /\ ProgramWord(PC + 1).op \in TwoWords
            /\ PC + 3 < PC_max /\ 3 \in {2, 3}
        BY <1>2, <1>9, SkipWords DEF Skips, TwoWords
      <3> HIDE DEF equal
      <3> QED BY <2>1, <3>1, SkipGoes
    <2>3. equal => gpwr[19] = XH
      BY <1>1
    <2> HIDE DEF equal
    <2> QED BY <2>2, <2>3, <1>1, <1>9 DEF SkipAt
  <1>10. CASE PC = 7
    <2>1. Operand = 97 /\ ProgramWord(PC) = Reg1("LDS", 19)
      BY <1>4, <1>10, SkipProgram DEF Data
    <2>2. LoadsInto(19, XH, 2, 2)
      <3>1. LoadsInto(19, MemRead(gpwr, Operand), 2, 2)
        BY <2>1, AccessesRun, Zenon DEF LoadsInto
      <3>2. MemRead(gpwr, Operand) = XH
        BY <2>1, <1>1, <1>3 DEF MemRead
      <3> QED BY <3>1, <3>2, Zenon
    <2>3. /\ PC' = PC + 2 /\ sram' = sram /\ DOMAIN gpwr' = 0..31 /\ gpwr'[19] = XH
          /\ \A r \in 0..31 : r # 19 => gpwr'[r] = gpwr[r]
      BY <2>2, <1>1, <1>2, <1>10, LoadedOnly
    <2> QED BY <2>3, <1>1, <1>10 DEF SkipAt
  <1>11. CASE PC = 9
    <2>1. LoadsInto(20, XL, 1, 1)
      <3>1. ProgramWord(PC) = Reg2("MOV", 20, 16)
        BY <1>11, SkipProgram
      <3>2. LoadsInto(20, gpwr[16], 1, 1)
        BY <3>1, CountsRun, Zenon DEF LoadsInto
      <3> QED BY <3>2, <1>1, Zenon
    <2>2. /\ PC' = PC + 1 /\ sram' = sram /\ DOMAIN gpwr' = 0..31 /\ gpwr'[20] = XL
          /\ \A r \in 0..31 : r # 20 => gpwr'[r] = gpwr[r]
      BY <2>1, <1>1, <1>2, <1>11, LoadedOnly
    <2> QED BY <2>2, <1>1, <1>11 DEF SkipAt
  <1>12. CASE PC = 10
    <2>1. SkipsIf(~Bit1)
      <3>1. SkipsIf(~Bit(gpwr[18], 1))
        <4>1. ProgramWord(PC) = RegB("SBRC", 18, 1)
          BY <1>12, SkipProgram
        <4> QED BY <4>1, SkipsRun, Zenon
      <3> QED BY <3>1, <1>1, Zenon DEF Bit1
    <2>2. /\ gpwr' = gpwr /\ sram' = sram
          /\ ~Bit1 => PC' = PC + 2
          /\ ~~Bit1 => PC' = PC + 1
      <3>1. /\ ProgramWord(PC).op \in Skips /\ ProgramWord(PC + 1).op \notin TwoWords
            /\ PC + 2 < PC_max /\ 2 \in {2, 3}
        BY <1>2, <1>12, SkipWords DEF Skips, TwoWords
      <3>2. 2 = 3 <=> ProgramWord(PC + 1).op \in TwoWords
        BY <3>1
      <3> QED BY <2>1, <3>1, <3>2, SkipGoes
    <2> QED BY <2>2, <1>1, <1>12 DEF SkipAt
  <1>13. CASE PC = 11
    <2>1. LoadsInto(20, XH, 1, 1)
      <3>1. ProgramWord(PC) = Reg2("MOV", 20, 17)
        BY <1>13, SkipProgram
      <3>2. LoadsInto(20, gpwr[17], 1, 1)
        BY <3>1, CountsRun, Zenon DEF LoadsInto
      <3> QED BY <3>2, <1>1, Zenon
    <2>2. /\ PC' = PC + 1 /\ sram' = sram /\ DOMAIN gpwr' = 0..31 /\ gpwr'[20] = XH
          /\ \A r \in 0..31 : r # 20 => gpwr'[r] = gpwr[r]
      BY <2>1, <1>1, <1>2, <1>13, LoadedOnly
    <2> QED BY <2>2, <1>1, <1>13 DEF SkipAt
  <1>14. CASE PC = 12
    <2>1. Loads(gpwr, 1, 1)
      <3>1. I = ProgramWord(PC) /\ Dispatched /\ ProgramWord(PC).op = "NOP"
        BY <1>14, StepRuns, SkipWords
      <3>2. avr_op_NOP
        BY <3>1 DEF Dispatched
      <3> QED BY <3>2, Zenon DEF avr_op_NOP, MoveOp, Continue, Loads, Advances
    <2>2. PC' = 13 /\ gpwr' = gpwr /\ sram' = sram
      BY <2>1, <1>2, <1>14 DEF Loads, Advances, AdjustPC
    <2> QED BY <2>2, <1>1, <1>14 DEF SkipAt
  <1>15. PC \in 0..12 /\ PC \notin {2, 5, 8}
    BY <1>2, SkipWords, ReturnStops DEF FlowInv, Start
  <1> QED BY <1>5, <1>6, <1>7, <1>8, <1>9, <1>10, <1>11, <1>12, <1>13, <1>14, <1>15

(* Every step of skip keeps this. *)
LEMMA SkipRuns ==
    ASSUME FlowInv, Sound, SkipRun, [Next]_vars
    PROVE  SkipRun'
  <1> SUFFICES ASSUME routine = "skip" PROVE SkipRun'
    BY SameRun DEF SkipRun
  <1>1. SkipAt(gpwr, sram, PC)
    BY DEF SkipRun
  <1>2. /\ XL' = XL /\ XH' = XH /\ YL' = YL /\ Bit8' = Bit8 /\ Bit1' = Bit1 /\ input' = input
    BY SameRun DEF XL, XH, YL, X, Y, Bit8, Bit1
  <1>3. SkipAt(gpwr', sram', PC') => SkipAt(gpwr, sram, PC)'
    BY <1>2, SMT DEF SkipAt
  <1>4. CASE Paused
    BY <1>1, <1>3, <1>4 DEF Paused, SkipRun
  <1>5. CASE ~Paused
    BY <1>1, <1>3, <1>5, SkipSteps DEF SkipRun
  <1> QED BY <1>4, <1>5

(* skip ends with one store done, the register loaded and the right move. *)
LEMMA SkipEnds ==
    ASSUME FlowInv, SkipRun, Finished("skip")
    PROVE  /\ sram[100] = IF Bit8 THEN XL ELSE input.mem[100]
           /\ sram[101] = IF Bit8 THEN input.mem[101] ELSE XL
           /\ gpwr[19] = XH
           /\ gpwr[20] = IF Bit1 THEN XH ELSE XL
  <1>1. routine = "skip" /\ ProgramWord(PC).op = "RET" /\ Start(PC)
    BY DEF Finished, FlowInv, RET, Plain
  <1>2. PC = 13
    BY <1>1, SkipWords DEF Start
  <1>3. SkipAt(gpwr, sram, 13)
    BY <1>1, <1>2 DEF SkipRun
  <1> QED BY <1>3 DEF SkipAt

(* jump: the way past JMP is taken when the registers are equal. *)
EqualAt(regs, pc) ==
    /\ DOMAIN regs = 0..31
    /\ pc = 0 => regs[16] = XL /\ regs[18] = YL
    /\ pc \in {3, 4, 5, 10} => XL = YL
    /\ pc \in {1, 7, 8} => XL # YL
    /\ pc = 8 => regs[20] = 0
    /\ pc = 11 => regs[20] = IF XL = YL THEN 1 ELSE 0
    /\ pc \notin {6, 9}

(* The part of the invariant about jump. *)
EqualRun == routine = "jump" => EqualAt(gpwr, PC)

(* A step of jump. *)
LEMMA EqualSteps ==
    ASSUME FlowInv, Sound, EqualAt(gpwr, PC), routine = "jump", [Next]_vars, ~Paused
    PROVE  EqualAt(gpwr', PC')
  <1>1. /\ DOMAIN gpwr = 0..31
        /\ PC = 0 => gpwr[16] = XL /\ gpwr[18] = YL
        /\ PC \in {3, 4, 5, 10} => XL = YL
        /\ PC \in {1, 7, 8} => XL # YL
        /\ PC = 8 => gpwr[20] = 0
        /\ PC \notin {6, 9}
    BY DEF EqualAt
  <1>2. PC_max = 12 /\ PC \in Nat /\ PC_max \in Nat
    BY JumpWords DEF FlowInv, Start
  <1>3. CASE PC = 0
    <2> DEFINE equal == XL = YL
    <2>1. SkipsIf(equal)
      <3>1. ProgramWord(PC) = Reg2("CPSE", 16, 18)
        BY <1>3, JumpProgram
      <3>2. SkipsIf(gpwr[16] = gpwr[18])
        BY <3>1, SkipsRun, Zenon
      <3>3. gpwr[16] = XL /\ gpwr[18] = YL
        BY <1>1, <1>3
      <3> QED BY <3>2, <3>3, Zenon
    <2>2. gpwr' = gpwr /\ (equal => PC' = PC + 3) /\ (~equal => PC' = PC + 1)
      <3>1. /\ ProgramWord(PC).op \in Skips /\ ProgramWord(PC + 1).op \in TwoWords
            /\ PC + 3 < PC_max /\ 3 \in {2, 3}
        BY <1>2, <1>3, JumpWords DEF Skips, TwoWords
      <3> HIDE DEF equal
      <3> QED BY <2>1, <3>1, SkipGoes
    <2> QED BY <2>2, <1>1, <1>3 DEF EqualAt
  <1>4. CASE PC = 1
    <2>1. Operand = 7
      BY <1>4, JumpWords, OperandIs DEF Data, TwoWords
    <2>2. PC' = 7 /\ gpwr' = gpwr
      <3>1. I = ProgramWord(PC) /\ Dispatched /\ ProgramWord(PC).op = "JMP"
        BY <1>4, StepRuns, JumpWords
      <3>2. avr_op_JMP
        BY <3>1 DEF Dispatched
      <3>3. PC' = AdjustPC(Operand) /\ gpwr' = gpwr
        BY <3>2, Zenon DEF avr_op_JMP, Jump
      <3> QED BY <3>3, <2>1, <1>2 DEF AdjustPC
    <2> QED BY <2>2, <1>1, <1>4 DEF EqualAt
  <1>5. CASE PC = 3
    <2>1. Keeps(30)
      BY <1>1, <1>2, <1>5, JumpWords, AddressLoads
    <2> QED BY <2>1, <1>1, <1>5 DEF EqualAt, Keeps
  <1>6. CASE PC = 4
    <2>1. Keeps(30 + 1)
      BY <1>1, <1>2, <1>6, JumpWords, AddressLoads
    <2> QED BY <2>1, <1>1, <1>6 DEF EqualAt, Keeps
  <1>7. CASE PC = 5
    <2>1. Pair(30) = 10
      BY <1>7 DEF FlowInv, JumpRun
    <2>2. PC' = AdjustPC(10) /\ gpwr' = gpwr
      BY <1>7, <2>1, JumpWords, FlowRuns
    <2> QED BY <2>2, <1>1, <1>2, <1>7 DEF EqualAt, AdjustPC
  <1>8. CASE PC = 7
    <2>1. PC' = PC + 1 /\ DOMAIN gpwr' = 0..31 /\ gpwr'[20] = 0
      BY <1>1, <1>2, <1>8, JumpProgram, LoadsConstant
    <2> QED BY <2>1, <1>1, <1>8 DEF EqualAt
  <1>9. CASE PC = 8
    <2>1. PC' = 11 /\ gpwr' = gpwr
      <3>1. I = ProgramWord(PC) /\ Dispatched /\ ProgramWord(PC).op = "RJMP"
            /\ ProgramWord(PC).k = 2
        BY <1>9, StepRuns, JumpWords DEF If
      <3>2. avr_op_RJMP
        BY <3>1 DEF Dispatched
      <3>3. PC' = AdjustPC(PC + (I.k + 1)) /\ gpwr' = gpwr
        BY <3>2, Zenon DEF avr_op_RJMP, Branch, Continue
      <3> QED BY <3>1, <3>3, <1>2, <1>9 DEF AdjustPC
    <2> QED BY <2>1, <1>1, <1>9 DEF EqualAt
  <1>10. CASE PC = 10
    <2>1. PC' = PC + 1 /\ DOMAIN gpwr' = 0..31 /\ gpwr'[20] = 1
      BY <1>1, <1>2, <1>10, JumpProgram, LoadsConstant
    <2> QED BY <2>1, <1>1, <1>10 DEF EqualAt
  <1>11. PC \in 0..11 /\ PC \notin {2, 6, 9, 11}
    BY <1>1, <1>2, JumpWords, ReturnStops DEF FlowInv, Start
  <1> QED BY <1>3, <1>4, <1>5, <1>6, <1>7, <1>8, <1>9, <1>10, <1>11

(* Every step of jump keeps this. *)
LEMMA EqualRuns ==
    ASSUME FlowInv, Sound, EqualRun, [Next]_vars
    PROVE  EqualRun'
  <1> SUFFICES ASSUME routine = "jump" PROVE EqualRun'
    BY SameRun DEF EqualRun
  <1>1. EqualAt(gpwr, PC)
    BY DEF EqualRun
  <1>2. XL' = XL /\ YL' = YL
    BY SameRun DEF XL, YL, X, Y
  <1>3. EqualAt(gpwr', PC') => EqualAt(gpwr, PC)'
    BY <1>2, SMT DEF EqualAt
  <1>4. CASE Paused
    BY <1>1, <1>3, <1>4 DEF Paused, EqualRun
  <1>5. CASE ~Paused
    BY <1>1, <1>3, <1>5, EqualSteps DEF EqualRun
  <1> QED BY <1>4, <1>5

(* jump ends with 1 for equal registers, and 0 for others. *)
LEMMA EqualEnds ==
    ASSUME FlowInv, EqualRun, Finished("jump")
    PROVE  gpwr[20] = IF XL = YL THEN 1 ELSE 0
  <1>1. routine = "jump" /\ ProgramWord(PC).op = "RET" /\ Start(PC)
    BY DEF Finished, FlowInv, RET, Plain
  <1>2. PC = 11
    BY <1>1, JumpWords DEF Start, Low, High, RegK, If
  <1>3. EqualAt(gpwr, 11)
    BY <1>1, <1>2 DEF EqualRun
  <1> QED BY <1>3 DEF EqualAt

----------------------------------------------------------------------------
(* Moves and skips over the whole run                                       *)

(* What holds while a routine that moves or skips runs. *)
MovesInv ==
    /\ FlowInv
    /\ input \in Inputs
    /\ CopyRun /\ FlipRun /\ RegsRun /\ SkipRun /\ EqualRun

(* It holds at the first instruction. *)
LEMMA MovesStart == Init => MovesInv
  <1> SUFFICES ASSUME Init PROVE MovesInv
    OBVIOUS
  <1>1. input \in Inputs /\ CK = 0 /\ sram = [a \in Sram |-> input.mem[a]]
    BY DEF Init
  <1>2. /\ DOMAIN gpwr = 0..31 /\ PC = 0
        /\ Holds(16, XL, XH) /\ Holds(18, YL, YH)
        /\ DOMAIN sram = Sram
        /\ sram[96] = XL /\ sram[97] = XH /\ sram[98] = YL /\ sram[99] = YH
    BY Starting
  <1>3. \A a \in 96..103 : sram[a] = input.mem[a]
    BY <1>1, RoutinesAssumed DEF RoutinesAssumption
  <1>4. CopyRun
    BY <1>1, <1>2, <1>3 DEF CopyRun, CopyAt, CopyPrepared
  <1>5. FlipRun /\ RegsRun
    BY <1>2 DEF FlipRun, FlipAt, RegsRun, Holds
  <1>6. gpwr[17] = XH
    BY <1>2 DEF Holds
  <1>7. SkipRun /\ EqualRun
    BY <1>2, <1>3, <1>6 DEF SkipRun, SkipAt, EqualRun, EqualAt, Holds
  <1> QED BY <1>1, <1>4, <1>5, <1>7, FlowStart DEF MovesInv

(* Every step keeps it. *)
LEMMA MovesStep == MovesInv /\ [Next]_vars => MovesInv'
  <1> SUFFICES ASSUME MovesInv, [Next]_vars PROVE MovesInv'
    OBVIOUS
  <1>1. FlowInv /\ Sound
    BY RoutinesAreSound DEF MovesInv, FlowInv
  <1>2. FlowInv' /\ input' \in Inputs
    BY <1>1, FlowStep, SameRun DEF MovesInv
  <1>3. CopyRun' /\ FlipRun' /\ RegsRun'
    BY <1>1, CopyRuns, FlipRuns, RegsRuns DEF MovesInv
  <1>4. SkipRun' /\ EqualRun'
    BY <1>1, SkipRuns, EqualRuns DEF MovesInv
  <1> QED BY <1>2, <1>3, <1>4 DEF MovesInv

(* Data moved through pointers that step, with displacements and directly,   *)
(* also to and from the registers as memory, arrives whole, for every width *)
(* of the registers and wherever the debugger may have its breakpoints.     *)
THEOREM MovesAreRight == Spec => []MovesRight
  <1>1. MovesInv => MovesRight
    <2> SUFFICES ASSUME MovesInv PROVE MovesRight
      OBVIOUS
    <2> QED BY CopyEnds, FlipEnds, RegsEnds DEF MovesInv, MovesRight
  <1> QED BY <1>1, MovesStart, MovesStep, PTL DEF Spec

(* Skips execute or jump over a whole instruction, for every width of the    *)
(* registers and wherever the debugger may have its breakpoints.            *)
THEOREM SkipsAreRight == Spec => []SkipsRight
  <1>1. MovesInv => SkipsRight
    <2> SUFFICES ASSUME MovesInv PROVE SkipsRight
      OBVIOUS
    <2> QED BY SkipEnds, EqualEnds
            DEF MovesInv, SkipsRight, Bit8, Bit1, XL, XH, YL
  <1> QED BY <1>1, MovesStart, MovesStep, PTL DEF Spec

----------------------------------------------------------------------------
(* The clocks                                                               *)

(* What the instructions of the timed routines take. *)
LEMMA ClocksRun ==
    ASSUME [Next]_vars, ~Paused
    PROVE  LET w == ProgramWord(PC)
           IN /\ w.op \in {"ADD", "ADC", "CP", "CPC", "MOVW", "EOR", "MOV", "NOP", "LDI", "INC"} =>
                    CK' = CK + 1
              /\ w.op \in {"MUL", "LD_decr", "ST_decr", "LDS", "STS"} => CK' = CK + 2
              /\ w.op \in {"BRBS", "BRBC"} =>
                    \/ PC' = AdjustPC(PC + (w.k + 1)) /\ CK' = CK + 2
                    \/ PC' = AdjustPC(PC + 1) /\ CK' = CK + 1
              /\ w.op \in Skips =>
                    LET skip == IF is_next_inst_2_words THEN 3 ELSE 2
                    IN \/ PC' = AdjustPC(PC + skip) /\ CK' = CK + skip
                       \/ PC' = AdjustPC(PC + 1) /\ CK' = CK + 1
  <1>1. I = ProgramWord(PC) /\ Dispatched
    BY StepRuns
  <1> DEFINE w == ProgramWord(PC)
  <1>2. ASSUME w.op \in {"ADD", "ADC", "CP", "CPC", "MOVW", "EOR", "MOV", "NOP", "LDI", "INC"}
        PROVE  CK' = CK + 1
    <2>1. \/ avr_op_ADD \/ avr_op_ADC \/ avr_op_CP \/ avr_op_CPC \/ avr_op_MOVW \/ avr_op_EOR
          \/ avr_op_MOV \/ avr_op_NOP \/ avr_op_LDI \/ avr_op_INC
      BY <1>1, <1>2 DEF Dispatched
    <2> QED BY <2>1, Zenon DEF avr_op_ADD, avr_op_ADC, avr_op_CP, avr_op_CPC, avr_op_MOVW,
            avr_op_EOR, avr_op_MOV, avr_op_NOP, avr_op_LDI, avr_op_INC, RegisterOp, FlagOp,
            MoveOp, LogicOp, Continue
  <1>3. ASSUME w.op \in {"MUL", "LD_decr", "ST_decr", "LDS", "STS"} PROVE CK' = CK + 2
    <2>1. avr_op_MUL \/ avr_op_LD_decr \/ avr_op_ST_decr \/ avr_op_LDS \/ avr_op_STS
      BY <1>1, <1>3 DEF Dispatched
    <2> QED BY <2>1, Zenon DEF avr_op_MUL, avr_op_LD_decr, avr_op_ST_decr, avr_op_LDS,
            avr_op_STS, Product, Multiply, Load, Store, MoveOp, Continue
  <1>4. ASSUME w.op \in {"BRBS", "BRBC"}
        PROVE  \/ PC' = AdjustPC(PC + (w.k + 1)) /\ CK' = CK + 2
               \/ PC' = AdjustPC(PC + 1) /\ CK' = CK + 1
    <2>1. avr_op_BRBS \/ avr_op_BRBC
      BY <1>1, <1>4 DEF Dispatched
    <2> QED BY <1>1, <2>1, Zenon DEF avr_op_BRBS, avr_op_BRBC, Branch, Continue
  <1>5. ASSUME w.op \in Skips
        PROVE  LET skip == IF is_next_inst_2_words THEN 3 ELSE 2
               IN \/ PC' = AdjustPC(PC + skip) /\ CK' = CK + skip
                  \/ PC' = AdjustPC(PC + 1) /\ CK' = CK + 1
    <2>1. avr_op_CPSE \/ avr_op_SBRC \/ avr_op_SBRS
      BY <1>1, <1>5 DEF Dispatched, Skips
    <2> QED BY <2>1, Zenon DEF avr_op_CPSE, avr_op_SBRC, avr_op_SBRS, Skip, Continue
  <1> QED BY <1>2, <1>3, <1>4, <1>5

(* A straight path takes as many clocks as it has words, and so does one     *)
(* that branches over one word or skips an instruction.                     *)
SteadyRun == routine \in {"add", "max", "min", "skip"} => CK = PC

(* Every step keeps it. *)
LEMMA SteadyRuns ==
    ASSUME FlowInv, SteadyRun, [Next]_vars
    PROVE  SteadyRun'
  <1> SUFFICES ASSUME routine \in {"add", "max", "min", "skip"} PROVE SteadyRun'
    BY SameRun DEF SteadyRun
  <1>1. CK = PC /\ PC \in 0..(PC_max - 1) /\ ProgramWord(PC).op # "data"
    BY DEF SteadyRun, FlowInv, Start
  <1>2. CASE Paused
    BY <1>1, <1>2 DEF Paused, SteadyRun
  <1>3. CASE ~Paused /\ routine = "add"
    <2>1. PC_max = 3 /\ ProgramWord(0).op = "ADD" /\ ProgramWord(1).op = "ADC"
          /\ ProgramWord(2) = RET
      BY <1>3, Program, OpOf DEF Routines, ProgramWord, PC_max
    <2>2. PC \in {0, 1}
      BY <1>1, <1>3, <2>1, ReturnStops
    <2>3. PC' = AdjustPC(PC + 1) /\ CK' = CK + 1
      BY <1>3, <2>1, <2>2, FlowRuns, ClocksRun DEF Control, TwoWords, Skips
    <2> QED BY <1>1, <2>1, <2>2, <2>3 DEF AdjustPC, SteadyRun
  <1>4. CASE ~Paused /\ routine \in {"max", "min"}
    <2>1. /\ PC_max = 5 /\ ProgramWord(0).op = "CP" /\ ProgramWord(1).op = "CPC"
          /\ ProgramWord(2).op \in {"BRBS", "BRBC"} /\ ProgramWord(2).k = 1
          /\ ProgramWord(3).op = "MOVW" /\ ProgramWord(4) = RET
      BY <1>4, Program, OpOf DEF Routines, ProgramWord, PC_max, If
    <2>2. PC \in 0..3
      BY <1>1, <1>4, <2>1, ReturnStops
    <2>3. CASE PC # 2
      <3>1. PC' = AdjustPC(PC + 1) /\ CK' = CK + 1
        BY <1>4, <2>1, <2>2, <2>3, FlowRuns, ClocksRun DEF Control, TwoWords, Skips
      <3> QED BY <1>1, <2>1, <2>2, <3>1 DEF AdjustPC, SteadyRun
    <2>4. CASE PC = 2
      <3>1. (PC' = AdjustPC(4) /\ CK' = CK + 2) \/ (PC' = AdjustPC(3) /\ CK' = CK + 1)
        BY <1>4, <2>1, <2>4, ClocksRun
      <3> QED BY <1>1, <2>1, <2>4, <3>1 DEF AdjustPC, SteadyRun
    <2> QED BY <2>3, <2>4
  <1>5. CASE ~Paused /\ routine = "skip"
    <2>1. PC \in 0..12 /\ PC \notin {2, 5, 8} /\ PC_max = 14
      BY <1>1, <1>5, SkipWords, ReturnStops
    <2>2. CASE PC \in {0, 3, 6, 10}
      <3> DEFINE skip == IF is_next_inst_2_words THEN 3 ELSE 2
      <3>1. ProgramWord(PC).op \in Skips
        BY <1>5, <2>2, SkipWords DEF Skips
      <3>2. \/ PC' = AdjustPC(PC + skip) /\ CK' = CK + skip
            \/ PC' = AdjustPC(PC + 1) /\ CK' = CK + 1
        BY <1>5, <3>1, ClocksRun
      <3> QED BY <1>1, <2>1, <2>2, <3>2 DEF AdjustPC, SteadyRun
    <2>3. CASE PC \in {1, 4, 7}
      <3>1. PC' = AdjustPC(PC + 2) /\ CK' = CK + 2
        BY <1>5, <2>3, SkipWords, FlowRuns, ClocksRun
      <3> QED BY <1>1, <2>1, <2>3, <3>1 DEF AdjustPC, SteadyRun
    <2>4. CASE PC \in {9, 11, 12}
      <3>1. PC' = AdjustPC(PC + 1) /\ CK' = CK + 1
        BY <1>5, <2>4, SkipWords, FlowRuns, ClocksRun DEF Control, TwoWords, Skips
      <3> QED BY <1>1, <2>1, <2>4, <3>1 DEF AdjustPC, SteadyRun
    <2> QED BY <2>1, <2>2, <2>3, <2>4
  <1> QED BY <1>2, <1>3, <1>4, <1>5

(* mul, whose multiplications take two clocks. *)
MulRun ==
    routine = "mul" =>
      CK = PC + (IF PC > 9 THEN 4 ELSE IF PC > 5 THEN 3 ELSE IF PC > 3 THEN 2
                 ELSE IF PC > 1 THEN 1 ELSE 0)

(* Every step keeps it. *)
LEMMA MulRuns ==
    ASSUME FlowInv, MulRun, [Next]_vars
    PROVE  MulRun'
  <1> SUFFICES ASSUME routine = "mul" PROVE MulRun'
    BY SameRun DEF MulRun
  <1>1. /\ PC_max = 14 /\ ProgramWord(13) = RET
        /\ \A a \in {1, 3, 5, 9} : ProgramWord(a).op = "MUL"
        /\ \A a \in {0, 2, 4, 6, 7, 8, 10, 11, 12} :
              ProgramWord(a).op \in {"EOR", "MOVW", "ADD", "ADC"}
    BY Program, OpOf DEF Routines, ProgramWord, PC_max
  <1>2. PC \in 0..13
    BY <1>1 DEF FlowInv, Start
  <1>3. CASE Paused
    BY <1>3 DEF Paused, MulRun
  <1>4. CASE ~Paused /\ PC \in {1, 3, 5, 9}
    <2>1. PC' = AdjustPC(PC + 1) /\ CK' = CK + 2
      BY <1>1, <1>4, FlowRuns, ClocksRun DEF Control, TwoWords, Skips
    <2> QED BY <1>1, <1>4, <2>1 DEF AdjustPC, MulRun
  <1>5. CASE ~Paused /\ PC \in {0, 2, 4, 6, 7, 8, 10, 11, 12}
    <2>1. PC' = AdjustPC(PC + 1) /\ CK' = CK + 1
      BY <1>1, <1>5, FlowRuns, ClocksRun DEF Control, TwoWords, Skips
    <2> QED BY <1>1, <1>5, <2>1 DEF AdjustPC, MulRun
  <1>6. CASE ~Paused /\ PC = 13
    BY <1>1, <1>6, ReturnStops
  <1> QED BY <1>2, <1>3, <1>4, <1>5, <1>6

(* Where each of the timed routines ends. *)
LEMMA TimedEnds ==
    ASSUME FlowInv, SteadyRun, MulRun, CopyRun, NEW r \in DOMAIN ClocksOf, Finished(r)
    PROVE  CK = ClocksOf[r]
  <1>1. /\ routine = r /\ ProgramWord(PC) = RET /\ ProgramWord(PC).op = "RET" /\ Start(PC)
        /\ r \in {"add", "max", "min", "mul", "copy", "skip"}
    BY DEF Finished, FlowInv, RET, Plain, ClocksOf
  <1>2. CASE r = "add"
    <2>1. PC_max = 3 /\ ProgramWord(0).op = "ADD" /\ ProgramWord(1).op = "ADC"
      BY <1>1, <1>2, Program, OpOf DEF Routines, ProgramWord, PC_max
    <2> QED BY <1>1, <1>2, <2>1 DEF Start, SteadyRun, ClocksOf
  <1>3. CASE r \in {"max", "min"}
    <2>1. /\ PC_max = 5 /\ ProgramWord(0).op = "CP" /\ ProgramWord(1).op = "CPC"
          /\ ProgramWord(2).op \in {"BRBS", "BRBC"} /\ ProgramWord(3).op = "MOVW"
      BY <1>1, <1>3, Program, OpOf DEF Routines, ProgramWord, PC_max
    <2> QED BY <1>1, <1>3, <2>1 DEF Start, SteadyRun, ClocksOf
  <1>4. CASE r = "mul"
    <2>1. /\ PC_max = 14
          /\ \A a \in 0..12 : ProgramWord(a).op \in {"EOR", "MUL", "MOVW", "ADD", "ADC"}
      BY <1>1, <1>4, Program, OpOf DEF Routines, ProgramWord, PC_max
    <2> QED BY <1>1, <1>4, <2>1 DEF Start, MulRun, ClocksOf
  <1>5. CASE r = "copy"
    <2>1. PC = 9
      BY <1>1, <1>5, CopyWords DEF Start, Reg1, RegK, Mem, Low, High, If
    <2> QED BY <1>1, <1>5, <2>1 DEF CopyRun, CopyAt, ClocksOf
  <1>6. CASE r = "skip"
    BY <1>1, <1>6, SkipWords DEF Start, SteadyRun, ClocksOf
  <1> QED BY <1>1, <1>2, <1>3, <1>4, <1>5, <1>6

(* A routine without paths that depend on data takes the same clocks for all *)
(* numbers, at every width and wherever the debugger may have breakpoints:   *)
(* skipping an instruction takes as long as executing it, and so does        *)
(* branching over one word.                                                 *)
THEOREM ClocksAreTheSame == Spec => []SameClocks
  <1> DEFINE Inv == MovesInv /\ SteadyRun /\ MulRun
  <1>1. Init => Inv
    BY MovesStart DEF Init, SteadyRun, MulRun
  <1>2. Inv /\ [Next]_vars => Inv'
    <2> SUFFICES ASSUME Inv, [Next]_vars PROVE Inv'
      OBVIOUS
    <2>1. FlowInv
      BY DEF MovesInv
    <2> QED BY <2>1, MovesStep, SteadyRuns, MulRuns
  <1>3. Inv => SameClocks
    BY TimedEnds DEF SameClocks, MovesInv
  <1> QED BY <1>1, <1>2, <1>3, PTL DEF Spec

----------------------------------------------------------------------------
(* The bits of a register: a register is known by its bits, of which the    *)
(* logical instructions make those of the result.  The library's induction  *)
(* is used as a counterexample of least weight.                             *)

(* Every set of numbers has a least one. *)
LEMMA Least ==
    ASSUME NEW T \in SUBSET Nat, T # {}
    PROVE  \E m \in T : \A k \in T : m <= k
  <1> DEFINE R == OpToRel(<, Nat)
  <1>1. IsWellFoundedOn(R, Nat)
    BY NatLessThanWellFounded
  <1>2. \A y, x \in Nat : y < x => <<y, x>> \in R
    BY DEF OpToRel
  <1> HIDE DEF R
  <1>3. PICK m \in T : \A k \in T : ~(<<k, m>> \in R)
    BY <1>1, WFMin
  <1>4. ASSUME NEW k \in T PROVE m <= k
    <2>1. ~(k < m)
      BY <1>2, <1>3
    <2> QED BY <2>1
  <1> QED BY <1>4

(* Numbers that differ by a multiple have the same remainder. *)
LEMMA SameRemainder ==
    ASSUME NEW m \in Nat \ {0}, NEW a \in Int, NEW k \in Int
    PROVE  (a + k * m) % m = a % m
  <1> DEFINE q == a \div m
             r == a % m
  <1>1. q \in Int /\ r \in 0..(m - 1) /\ a = q * m + r
    BY Divided
  <1> HIDE DEF q, r
  <1>2. a + k * m = (q + k) * m + r
    BY <1>1
  <1>3. (a + k * m) % m = r
    BY <1>1, <1>2, DivMod
  <1> QED BY <1>3 DEF r

(* A weight is that of the lowest bit, or twice another; or half another, or *)
(* that of the highest.                                                     *)
LEMMA WeightsAre ==
    /\ Weights \subseteq Nat \ {0}
    /\ 1 \in Weights /\ Half \in Weights /\ HalfNibble \in Weights
    /\ \A w \in Weights : w <= Half
    /\ \A w \in Weights : \E k \in Nat \ {0} : Byte = k * (2 * w)
    /\ \A v, w \in Weights : v < w => \E k \in Nat \ {0} : w = k * (2 * v)
    /\ \A w \in Weights : w # 1 => \E u \in Weights : w = 2 * u
  <1>1. Weights \subseteq Nat \ {0} /\ \A w \in Weights : w <= Half
    BY DEF Weights
  <1>2. 1 \in Weights /\ Half \in Weights
    BY Widths DEF Weights
  <1>3. ASSUME NEW w \in Weights
        PROVE  \E k \in Nat \ {0} : Half = k * w
    <2> DEFINE k == Half \div w
    <2>1. k \in Int /\ Half = k * w /\ w \in Nat \ {0}
      BY Widths, Divided DEF Weights
    <2> HIDE DEF k
    <2>2. k > 0
      BY <2>1, Widths
    <2> QED BY <2>1, <2>2
  <1>4. \A w \in Weights : \E k \in Nat \ {0} : Byte = k * (2 * w)
    <2> TAKE w \in Weights
    <2>1. PICK k \in Nat \ {0} : Half = k * w
      BY <1>3
    <2>2. Byte = k * (2 * w)
      BY <2>1, <1>1, Widths
    <2> QED BY <2>2
  <1>5. ASSUME NEW v \in Weights, NEW w \in Weights, v < w
        PROVE  \E k \in Nat \ {0} : w = k * (2 * v)
    <2> DEFINE m == 2 * v
               k == w \div m
    <2>1. w % m = 0
      BY <1>5, BitsAssumed DEF BitsAssumption
    <2>2. w \in Nat \ {0} /\ m \in Nat \ {0}
      BY <1>1
    <2> HIDE DEF m
    <2>3. k \in Int /\ w = k * m
      BY <2>1, <2>2, Divided
    <2> HIDE DEF k
    <2>4. k > 0
      BY <2>2, <2>3
    <2> QED BY <2>3, <2>4 DEF m
  <1>6. ASSUME NEW w \in Weights, w # 1
        PROVE  \E u \in Weights : w = 2 * u
    <2>1. w \in Nat /\ 1 < w
      BY <1>1, <1>6
    <2>2. PICK u \in Nat \ {0} : w = u * (2 * 1)
      BY <1>2, <1>5, <2>1
    <2>3. PICK k \in Nat \ {0} : Half = k * w
      BY <1>3
    <2>4. w = 2 * u
      BY <2>2
    <2>5. Half = (2 * k) * u + 0
      BY <2>3, <2>4
    <2>6. Half % u = 0
      BY <2>5, DivMod
    <2>7. u \in 1..Half
      BY <2>4, <1>1, Widths
    <2>8. u \in Weights
      BY <2>6, <2>7 DEF Weights
    <2> QED BY <2>4, <2>8
  <1>7. HalfNibble \in Weights
    <2> DEFINE k == Half \div HalfNibble
    <2>1. /\ HalfNibble \in Nat \ {0} /\ Half % HalfNibble = 0 /\ Half \in Nat \ {0}
      BY AluAssumed DEF AluAssumption
    <2>2. k \in Int /\ Half = k * HalfNibble
      BY <2>1, Divided
    <2> HIDE DEF k
    <2>3. k >= 1
      BY <2>1, <2>2
    <2>4. HalfNibble <= Half
      BY <2>1, <2>2, <2>3
    <2> QED BY <2>1, <2>4 DEF Weights
  <1> QED BY <1>1, <1>2, <1>4, <1>5, <1>6, <1>7

(* A bit does not see what is added in multiples of twice its weight. *)
LEMMA BitOfSum ==
    ASSUME NEW w \in Nat \ {0}, NEW a \in Int, NEW k \in Int, NEW b, b = a + k * (2 * w)
    PROVE  Bit(b, w) <=> Bit(a, w)
  <1>1. 2 * w \in Nat \ {0}
    OBVIOUS
  <1>2. (a + k * (2 * w)) % (2 * w) = a % (2 * w)
    BY <1>1, SameRemainder
  <1> QED BY <1>2 DEF Bit

(* The highest bit of a number of so many bits. *)
LEMMA BitOfSmall ==
    ASSUME NEW w \in Nat \ {0}, NEW a \in 0..(2 * w - 1)
    PROVE  Bit(a, w) <=> a >= w
  <1>1. a % (2 * w) = a
    OBVIOUS
  <1> QED BY <1>1 DEF Bit

(* One bit more of a number. *)
LEMMA OneBitMore ==
    ASSUME NEW w \in Nat \ {0}, NEW a \in Int
    PROVE  a % (2 * w) = (a % w) + (IF Bit(a, w) THEN w ELSE 0)
  <1> DEFINE q == a \div (2 * w)
             r == a % (2 * w)
  <1>1. q \in Int /\ r \in 0..(2 * w - 1) /\ a = q * (2 * w) + r
    <2>1. 2 * w \in Nat \ {0}
      OBVIOUS
    <2> QED BY <2>1, Divided
  <1>2. Bit(a, w) <=> r >= w
    BY DEF Bit
  <1> HIDE DEF q, r
  <1>3. CASE r >= w
    <2>1. a = (2 * q + 1) * w + (r - w) /\ r - w \in 0..(w - 1)
      BY <1>1, <1>3
    <2>2. a % w = r - w
      <3>1. 2 * q + 1 \in Int
        BY <1>1
      <3> QED BY <3>1, <2>1, DivMod
    <2> QED BY <1>1, <1>2, <1>3, <2>2 DEF r
  <1>4. CASE r < w
    <2>1. a = (2 * q) * w + r /\ r \in 0..(w - 1)
      BY <1>1, <1>4
    <2>2. a % w = r
      BY <1>1, <2>1, DivMod
    <2> QED BY <1>1, <1>2, <1>4, <2>2 DEF r
  <1> QED BY <1>1, <1>3, <1>4

(* A register is known by its bits. *)
LEMMA BitsTell ==
    ASSUME NEW a \in Bytes, NEW b \in Bytes, BitsOf(a) = BitsOf(b)
    PROVE  a = b
  <1> DEFINE T == {w \in Weights : a % (2 * w) # b % (2 * w)}
  <1>1. a \in Int /\ b \in Int /\ a >= 0 /\ b >= 0 /\ a < 2 * Half /\ b < 2 * Half
    BY Widths DEF Bytes
  <1>2. \A w \in Weights : Bit(a, w) <=> Bit(b, w)
    BY DEF BitsOf
  <1>3. T = {}
    <2> SUFFICES ASSUME T # {} PROVE FALSE
      OBVIOUS
    <2>1. T \in SUBSET Nat
      BY WeightsAre
    <2>2. PICK w \in T : \A k \in T : w <= k
      BY <2>1, Least
    <2>3. w \in Weights /\ w \in Nat \ {0} /\ a % (2 * w) # b % (2 * w)
      BY WeightsAre
    <2>4. a % w = b % w
      <3>1. CASE w = 1
        BY <3>1, <1>1
      <3>2. CASE w # 1
        <4>1. PICK u \in Weights : w = 2 * u
          BY <2>3, <3>2, WeightsAre
        <4>2. u \in Nat \ {0} /\ u < w
          BY <4>1, WeightsAre
        <4>3. u \notin T
          BY <2>2, <2>3, <4>2
        <4> QED BY <4>1, <4>3
      <3> QED BY <3>1, <3>2
    <2>5. a % (2 * w) = b % (2 * w)
      BY <1>1, <1>2, <2>3, <2>4, OneBitMore
    <2> QED BY <2>3, <2>5
  <1>4. a % (2 * Half) = b % (2 * Half)
    BY <1>3, WeightsAre
  <1>5. a % (2 * Half) = a /\ b % (2 * Half) = b
    BY <1>1, Widths
  <1> QED BY <1>4, <1>5

(* The bits of a number that has one bit more. *)
LEMMA BitAbove ==
    ASSUME NEW w \in Weights, NEW v \in 0..(w - 1), NEW x \in Weights
    PROVE  /\ Bit(v + w, x) <=> x = w \/ Bit(v, x)
           /\ Bit(v, x) => x < w
  <1>1. x \in Nat \ {0} /\ w \in Nat \ {0} /\ v \in Nat /\ v < w
    BY WeightsAre
  <1>2. CASE x < w
    <2>1. PICK k \in Nat \ {0} : w = k * (2 * x)
      BY <1>2, WeightsAre
    <2>2. Bit(v + w, x) <=> Bit(v, x)
      BY <1>1, <2>1, BitOfSum
    <2> QED BY <1>1, <1>2, <2>2
  <1>3. CASE x = w
    <2>1. v + w \in 0..(2 * x - 1) /\ v \in 0..(2 * x - 1)
      BY <1>1, <1>3
    <2> QED BY <1>1, <1>3, <2>1, BitOfSmall
  <1>4. CASE x > w
    <2>1. v + w \in 0..(2 * x - 1) /\ v \in 0..(2 * x - 1) /\ v + w < x
      <3>1. PICK k \in Nat \ {0} : x = k * (2 * w)
        BY <1>4, WeightsAre
      <3>2. k * w >= w
        BY <1>1
      <3>3. x = 2 * (k * w)
        BY <1>1, <3>1
      <3>4. x >= 2 * w
        BY <1>1, <3>2, <3>3
      <3> QED BY <1>1, <3>4
    <2> QED BY <1>1, <1>4, <2>1, BitOfSmall
  <1> QED BY <1>1, <1>2, <1>3, <1>4

(* There is a number with any bits. *)
LEMMA BitsExist ==
    ASSUME NEW S \in SUBSET Weights
    PROVE  \E v \in Bytes : BitsOf(v) = S
  <1> DEFINE Up(w) == {x \in Weights : x <= w}
             P(w) == \A U \in SUBSET Up(w) : \E v \in 0..(2 * w - 1) : BitsOf(v) = U
             T == {w \in Weights : ~P(w)}
  <1>1. T = {}
    <2> SUFFICES ASSUME T # {} PROVE FALSE
      OBVIOUS
    <2>1. T \in SUBSET Nat
      BY WeightsAre
    <2>2. PICK w \in T : \A k \in T : w <= k
      BY <2>1, Least
    <2>3. w \in Weights /\ w \in Nat \ {0} /\ ~P(w)
      BY WeightsAre
    <2>4. ASSUME NEW U \in SUBSET Up(w) PROVE \E v \in 0..(w - 1) : BitsOf(v) = U \ {w}
      <3>1. CASE w = 1
        <4>1. U \ {w} = {}
          BY <3>1, WeightsAre
        <4>2. \A x \in Weights : ~Bit(0, x)
          <5> TAKE x \in Weights
          <5>1. x \in Nat \ {0} /\ 0 \in 0..(2 * x - 1)
            BY WeightsAre
          <5> QED BY <5>1, BitOfSmall
        <4>3. BitsOf(0) = {}
          BY <4>2 DEF BitsOf
        <4>4. 0 \in 0..(w - 1)
          BY <3>1
        <4> QED BY <4>1, <4>3, <4>4
      <3>2. CASE w # 1
        <4>1. PICK u \in Weights : w = 2 * u
          BY <2>3, <3>2, WeightsAre
        <4>2. u \in Nat \ {0} /\ u < w
          BY <4>1, WeightsAre
        <4>3. P(u)
          BY <2>2, <2>3, <4>2
        <4>4. U \ {w} \in SUBSET Up(u)
          <5> SUFFICES ASSUME NEW x \in U, x # w PROVE x \in Weights /\ x <= u
            OBVIOUS
          <5>1. x \in Weights /\ x \in Nat \ {0} /\ x < w
            BY <2>3, WeightsAre
          <5>2. PICK k \in Nat \ {0} : w = k * (2 * x)
            BY <2>3, <5>1, WeightsAre
          <5>3. k * x >= x
            BY <5>1
          <5>4. w = 2 * (k * x)
            BY <5>1, <5>2
          <5> QED BY <5>1, <5>3, <5>4, <4>1, <4>2
        <4>5. \E v \in 0..(2 * u - 1) : BitsOf(v) = U \ {w}
          BY <4>3, <4>4
        <4> QED BY <4>1, <4>5
      <3> QED BY <3>1, <3>2
    <2>5. ASSUME NEW U \in SUBSET Up(w) PROVE \E v \in 0..(2 * w - 1) : BitsOf(v) = U
      <3>1. PICK v \in 0..(w - 1) : BitsOf(v) = U \ {w}
        BY <2>4
      <3>2. CASE w \in U
        <4>1. \A x \in Weights : Bit(v + w, x) <=> x = w \/ Bit(v, x)
          BY <2>3, BitAbove
        <4>2. BitsOf(v + w) = U
          BY <2>3, <3>1, <3>2, <4>1 DEF BitsOf
        <4>3. v + w \in 0..(2 * w - 1)
          BY <2>3
        <4> QED BY <4>2, <4>3
      <3>3. CASE w \notin U
        <4>1. v \in 0..(2 * w - 1) /\ U \ {w} = U
          BY <2>3, <3>3
        <4> QED BY <3>1, <4>1
      <3> QED BY <3>2, <3>3
    <2> QED BY <2>3, <2>5
  <1>2. Half \in Weights /\ Weights \in SUBSET Up(Half)
    BY WeightsAre
  <1>3. P(Half)
    BY <1>1, <1>2
  <1>4. \E v \in 0..(2 * Half - 1) : BitsOf(v) = S
    BY <1>2, <1>3
  <1> QED BY <1>4, Widths DEF Bytes

(* The register with given bits. *)
LEMMA WithBitsIs ==
    ASSUME NEW S \in SUBSET Weights
    PROVE  /\ WithBits(S) \in Bytes /\ BitsOf(WithBits(S)) = S
           /\ \A v \in Bytes : BitsOf(v) = S => WithBits(S) = v
  <1>1. WithBits(S) \in Bytes /\ BitsOf(WithBits(S)) = S
    BY BitsExist DEF WithBits
  <1> QED BY <1>1, BitsTell

(* AND, OR and EOR are what they are bit by bit. *)
LEMMA LogicIs ==
    ASSUME NEW a, NEW b
    PROVE  /\ And(a, b) \in Bytes /\ Or(a, b) \in Bytes /\ Xor(a, b) \in Bytes
           /\ \A w \in Weights : /\ Bit(And(a, b), w) <=> Bit(a, w) /\ Bit(b, w)
                                 /\ Bit(Or(a, b), w) <=> Bit(a, w) \/ Bit(b, w)
                                 /\ Bit(Xor(a, b), w) <=> ~(Bit(a, w) <=> Bit(b, w))
  <1> DEFINE A == BitsOf(a) \cap BitsOf(b)
             O == BitsOf(a) \cup BitsOf(b)
             E == (BitsOf(a) \cup BitsOf(b)) \ (BitsOf(a) \cap BitsOf(b))
  <1>1. A \in SUBSET Weights /\ O \in SUBSET Weights /\ E \in SUBSET Weights
    BY DEF BitsOf
  <1>2. /\ WithBits(A) \in Bytes /\ BitsOf(WithBits(A)) = A
        /\ WithBits(O) \in Bytes /\ BitsOf(WithBits(O)) = O
        /\ WithBits(E) \in Bytes /\ BitsOf(WithBits(E)) = E
    BY <1>1, WithBitsIs
  <1>3. \A v : \A w \in Weights : Bit(v, w) <=> w \in BitsOf(v)
    BY DEF BitsOf
  <1>4. And(a, b) = WithBits(A) /\ Or(a, b) = WithBits(O) /\ Xor(a, b) = WithBits(E)
    BY DEF And, Or, Xor
  <1> HIDE DEF A, O, E
  <1>5. ASSUME NEW w \in Weights
        PROVE  /\ Bit(WithBits(A), w) <=> w \in A
               /\ Bit(WithBits(O), w) <=> w \in O
               /\ Bit(WithBits(E), w) <=> w \in E
    BY <1>2, <1>3
  <1>6. ASSUME NEW w \in Weights
        PROVE  /\ w \in A <=> Bit(a, w) /\ Bit(b, w)
               /\ w \in O <=> Bit(a, w) \/ Bit(b, w)
               /\ w \in E <=> ~(Bit(a, w) <=> Bit(b, w))
    BY <1>3 DEF A, O, E
  <1> QED BY <1>2, <1>4, <1>5, <1>6

(* A register is known by its bits. *)
LEMMA SameBits ==
    ASSUME NEW a \in Bytes, NEW b \in Bytes, \A w \in Weights : Bit(a, w) <=> Bit(b, w)
    PROVE  a = b
  <1>1. BitsOf(a) = BitsOf(b)
    BY DEF BitsOf
  <1> QED BY <1>1, BitsTell

(* Zero has none. *)
LEMMA NoBits ==
    /\ 0 \in Bytes
    /\ \A w \in Weights : ~Bit(0, w)
  <1>1. 0 \in Bytes
    BY Widths DEF Bytes
  <1>2. ASSUME NEW w \in Weights PROVE ~Bit(0, w)
    <2>1. w \in Nat \ {0} /\ 0 \in 0..(2 * w - 1)
      BY WeightsAre
    <2> QED BY <2>1, BitOfSmall
  <1> QED BY <1>1, <1>2

(* EOR of a register with itself clears it. *)
LEMMA XorClears ==
    ASSUME NEW a
    PROVE  Xor(a, a) = 0
  <1>1. Xor(a, a) \in Bytes /\ \A w \in Weights : ~Bit(Xor(a, a), w)
    BY LogicIs
  <1> QED BY <1>1, NoBits, SameBits

(* COM inverts every bit. *)
LEMMA ComplementIs ==
    ASSUME NEW a \in Bytes
    PROVE  /\ (Byte - 1) - a \in Bytes
           /\ \A w \in Weights : Bit((Byte - 1) - a, w) <=> ~Bit(a, w)
  <1>1. a \in Int /\ a >= 0 /\ a < Byte /\ Byte \in Nat
    BY Widths DEF Bytes
  <1>2. ASSUME NEW w \in Weights PROVE Bit((Byte - 1) - a, w) <=> ~Bit(a, w)
    <2> DEFINE m == 2 * w
               q == a \div m
               r == a % m
    <2>1. w \in Nat \ {0} /\ m \in Nat \ {0} /\ m = 2 * w
      BY WeightsAre
    <2>2. PICK k \in Nat \ {0} : Byte = k * m
      BY WeightsAre
    <2>3. Bit(a, w) <=> r >= w
      BY DEF Bit
    <2>4. Bit((Byte - 1) - a, w) <=> ((Byte - 1) - a) % m >= w
      BY DEF Bit
    <2> HIDE DEF m
    <2>5. q \in Int /\ r \in 0..(m - 1) /\ a = q * m + r
      BY <1>1, <2>1, Divided
    <2> HIDE DEF q, r
    <2>6. (Byte - 1) - a = ((k - 1) - q) * m + ((m - 1) - r)
      BY <1>1, <2>1, <2>2, <2>5
    <2>7. ((Byte - 1) - a) % m = (m - 1) - r
      <3>1. (k - 1) - q \in Int /\ (m - 1) - r \in 0..(m - 1)
        BY <2>1, <2>2, <2>5
      <3> QED BY <2>1, <2>6, <3>1, DivMod
    <2> QED BY <2>1, <2>3, <2>4, <2>5, <2>7
  <1> QED BY <1>1, <1>2, Widths DEF Bytes

(* The one bit of a register's highest weight. *)
LEMMA HighestBit ==
    /\ Half \in Bytes
    /\ \A w \in Weights : Bit(Half, w) <=> w = Half
  <1>1. Half \in Bytes /\ Half \in Weights
    BY Widths, WeightsAre DEF Bytes
  <1>2. 0 \in 0..(Half - 1)
    BY Widths
  <1>3. ASSUME NEW w \in Weights PROVE Bit(Half, w) <=> w = Half
    <2>1. Bit(0 + Half, w) <=> w = Half \/ Bit(0, w)
      BY <1>1, <1>2, BitAbove
    <2>2. 0 + Half = Half
      BY Widths
    <2> QED BY <2>1, <2>2, NoBits
  <1> QED BY <1>1, <1>3

(* The two nibbles of a register. *)
LEMMA TwoNibbles ==
    /\ Nibble \in Nat \ {0} /\ Byte = Nibble * Nibble
    /\ \A w \in Weights : w < Nibble => \E k \in Nat \ {0} : Nibble = k * (2 * w)
    /\ \A w \in Weights : w >= Nibble => \E k \in Nat \ {0} : w = k * Nibble
  <1>1. HalfNibble \in Nat \ {0} /\ HalfNibble \in Weights /\ Nibble = 2 * HalfNibble
    BY WeightsAre DEF Nibble
  <1>2. Byte = Nibble * Nibble
    BY BitsAssumed DEF BitsAssumption
  <1>3. ASSUME NEW w \in Weights, w < Nibble PROVE \E k \in Nat \ {0} : Nibble = k * (2 * w)
    <2>1. w \in Nat \ {0}
      BY WeightsAre
    <2>2. CASE w < HalfNibble
      <3>1. PICK k \in Nat \ {0} : HalfNibble = k * (2 * w)
        BY <1>1, <2>2, WeightsAre
      <3>2. Nibble = (2 * k) * (2 * w) /\ 2 * k \in Nat \ {0}
        BY <1>1, <2>1, <3>1
      <3> QED BY <3>2
    <2>3. CASE w = HalfNibble
      <3>1. Nibble = 1 * (2 * w)
        BY <1>1, <2>3
      <3> QED BY <3>1
    <2>4. CASE w > HalfNibble
      <3>1. PICK k \in Nat \ {0} : w = k * (2 * HalfNibble)
        BY <1>1, <2>4, WeightsAre
      <3>2. w >= Nibble
        BY <1>1, <2>1, <3>1
      <3> QED BY <1>1, <1>3, <2>1, <3>2
    <2> QED BY <1>1, <2>1, <2>2, <2>3, <2>4
  <1>4. ASSUME NEW w \in Weights, w >= Nibble PROVE \E k \in Nat \ {0} : w = k * Nibble
    <2>1. HalfNibble < w
      BY <1>1, <1>4, WeightsAre
    <2> QED BY <1>1, <2>1, WeightsAre
  <1> QED BY <1>1, <1>2, <1>3, <1>4

(* Which bits each has, and which those of a mask of the higher. *)
LEMMA NibbleBits ==
    ASSUME NEW h \in 0..(Nibble - 1), NEW l \in 0..(Nibble - 1)
    PROVE  /\ h * Nibble + l \in Bytes
           /\ \A w \in Weights :
                /\ w < Nibble => (Bit(h * Nibble + l, w) <=> Bit(l, w))
                /\ w >= Nibble => /\ ~Bit(l, w)
                                  /\ Bit(h * Nibble + l, w) <=> Bit(h * Nibble, w)
  <1>1. /\ h \in Int /\ h >= 0 /\ h < Nibble /\ l \in Int /\ l >= 0 /\ l < Nibble
        /\ Nibble \in Nat \ {0}
    BY TwoNibbles
  <1>2. h * Nibble + l \in Bytes
    <2>1. h * Nibble <= (Nibble - 1) * Nibble
      BY <1>1
    <2>2. (Nibble - 1) * Nibble = Byte - Nibble
      BY <1>1, TwoNibbles
    <2>3. h * Nibble \in Nat
      BY <1>1
    <2> QED BY <1>1, <2>1, <2>2, <2>3, Widths DEF Bytes
  <1>3. ASSUME NEW w \in Weights, w < Nibble PROVE Bit(h * Nibble + l, w) <=> Bit(l, w)
    <2>1. PICK k \in Nat \ {0} : Nibble = k * (2 * w)
      BY <1>3, TwoNibbles
    <2>2. w \in Nat \ {0} /\ h * k \in Int
      BY <1>1, <2>1, WeightsAre
    <2>3. h * Nibble + l = l + (h * k) * (2 * w)
      BY <1>1, <2>1, <2>2
    <2> QED BY <1>1, <2>2, <2>3, BitOfSum
  <1>4. ASSUME NEW w \in Weights, w >= Nibble PROVE ~Bit(l, w)
    <2>1. w \in Nat \ {0} /\ l \in 0..(2 * w - 1) /\ l < w
      BY <1>1, <1>4, WeightsAre
    <2> QED BY <2>1, BitOfSmall
  <1>5. ASSUME NEW w \in Weights, w >= Nibble
        PROVE  Bit(h * Nibble + l, w) <=> Bit(h * Nibble, w)
    <2>1. PICK k \in Nat \ {0} : w = k * Nibble
      BY <1>5, TwoNibbles
    <2> DEFINE m == 2 * k
               q == h \div m
               r == h % m
    <2>2. m \in Nat \ {0} /\ m = 2 * k
      BY <2>1
    <2> HIDE DEF m
    <2>3. q \in Int /\ r \in 0..(m - 1) /\ h = q * m + r
      BY <1>1, <2>2, Divided
    <2> HIDE DEF q, r
    <2>4. w \in Nat \ {0} /\ 2 * w = m * Nibble
      BY <1>1, <2>1, <2>2
    <2>5. h * Nibble + l = (r * Nibble + l) + q * (2 * w) /\ h * Nibble = r * Nibble + q * (2 * w)
      <3>1. h * Nibble = r * Nibble + q * (m * Nibble)
        BY <1>1, <2>2, <2>3
      <3>2. h * Nibble = r * Nibble + q * (2 * w)
        BY <2>4, <3>1
      <3>3. r * Nibble \in Int /\ q * (2 * w) \in Int
        BY <1>1, <2>2, <2>3, <2>4
      <3> QED BY <1>1, <3>2, <3>3
    <2>6. /\ r * Nibble + l \in 0..(2 * w - 1) /\ r * Nibble \in 0..(2 * w - 1)
          /\ r * Nibble \in Int /\ r * Nibble + l \in Int
      <3>1. r * Nibble <= (m - 1) * Nibble /\ r * Nibble \in Nat
        BY <1>1, <2>2, <2>3
      <3>2. (m - 1) * Nibble = 2 * w - Nibble
        BY <1>1, <2>2, <2>4
      <3> QED BY <1>1, <2>4, <3>1, <3>2
    <2>7. /\ Bit(h * Nibble + l, w) <=> r * Nibble + l >= w
          /\ Bit(h * Nibble, w) <=> r * Nibble >= w
      <3>1. Bit(h * Nibble + l, w) <=> Bit(r * Nibble + l, w)
        BY <2>3, <2>4, <2>5, <2>6, BitOfSum
      <3>2. Bit(h * Nibble, w) <=> Bit(r * Nibble, w)
        BY <2>3, <2>4, <2>5, <2>6, BitOfSum
      <3> QED BY <2>4, <2>6, <3>1, <3>2, BitOfSmall
    <2>8. r * Nibble + l >= w <=> r * Nibble >= w
      <3>1. CASE r >= k
        <4>1. r * Nibble >= k * Nibble
          BY <1>1, <2>1, <2>3, <3>1
        <4> QED BY <1>1, <2>1, <2>4, <2>6, <4>1
      <3>2. CASE r < k
        <4>1. r * Nibble <= (k - 1) * Nibble
          BY <1>1, <2>1, <2>3, <3>2
        <4>2. (k - 1) * Nibble = w - Nibble
          BY <1>1, <2>1
        <4> QED BY <1>1, <2>4, <2>6, <4>1, <4>2
      <3> QED BY <2>1, <2>3, <3>1, <3>2
    <2> QED BY <2>7, <2>8
  <1> QED BY <1>2, <1>3, <1>4, <1>5

(* The mask of the higher nibble. *)
LEMMA MaskBits ==
    /\ Byte - Nibble \in Bytes
    /\ \A w \in Weights : Bit(Byte - Nibble, w) <=> w >= Nibble
  <1> DEFINE m == Byte - Nibble
  <1>1. /\ Nibble \in Nat \ {0} /\ Byte = Nibble * Nibble /\ Byte \in Nat
        /\ m = Byte - Nibble /\ m \in Int
    BY TwoNibbles, Widths
  <1> HIDE DEF m
  <1>2. m \in Bytes
    <2>1. Nibble <= Nibble * Nibble
      BY <1>1
    <2> QED BY <1>1, <2>1 DEF Bytes
  <1>3. ASSUME NEW w \in Weights PROVE Bit(m, w) <=> w >= Nibble
    <2>1. w \in Nat \ {0}
      BY WeightsAre
    <2>2. PICK n \in Nat \ {0} : Byte = n * (2 * w)
      BY WeightsAre
    <2>3. CASE w < Nibble
      <3>1. PICK k \in Nat \ {0} : Nibble = k * (2 * w)
        BY <2>3, TwoNibbles
      <3>2. PICK j \in Int : m = 0 + j * (2 * w)
        <4>1. m = 0 + (n - k) * (2 * w) /\ n - k \in Int
          BY <1>1, <2>1, <2>2, <3>1
        <4> QED BY <4>1
      <3>3. Bit(m, w) <=> Bit(0, w)
        BY <2>1, <3>2, BitOfSum
      <3> QED BY <1>1, <2>1, <2>3, <3>3, NoBits
    <2>4. CASE w >= Nibble
      <3> DEFINE r == 2 * w - Nibble
      <3>1. PICK j \in Int : m = r + j * (2 * w)
        <4>1. m = r + (n - 1) * (2 * w) /\ n - 1 \in Int
          BY <1>1, <2>1, <2>2
        <4> QED BY <4>1
      <3>2. r \in 0..(2 * w - 1) /\ r >= w /\ r \in Int
        BY <1>1, <2>1, <2>4
      <3> HIDE DEF r
      <3>3. Bit(m, w) <=> Bit(r, w)
        BY <2>1, <3>1, <3>2, BitOfSum
      <3> QED BY <2>1, <2>4, <3>2, <3>3, BitOfSmall
    <2> QED BY <1>1, <2>1, <2>3, <2>4
  <1> QED BY <1>1, <1>2, <1>3 DEF m

(* Exchanging nibbles, and taking the higher one. *)
LEMMA SwapIs ==
    ASSUME NEW h \in 0..(Nibble - 1), NEW l \in 0..(Nibble - 1)
    PROVE  LET v == h * Nibble + l
           IN ((v * Nibble) % Byte) + (v \div Nibble) = l * Nibble + h
  <1> DEFINE v == h * Nibble + l
  <1>1. /\ h \in Int /\ l \in Int /\ h >= 0 /\ l >= 0 /\ Nibble \in Nat \ {0}
        /\ Byte = Nibble * Nibble /\ Byte \in Nat \ {0}
    BY TwoNibbles, Widths
  <1>2. v \div Nibble = h
    BY <1>1, DivMod
  <1>3. (v * Nibble) % Byte = l * Nibble
    <2> DEFINE a == v * Nibble
               r == l * Nibble
    <2>1. a = h * Byte + r
      BY <1>1
    <2>2. r \in 0..(Byte - 1) /\ a \in Int
      <3>1. r <= (Nibble - 1) * Nibble /\ r >= 0 /\ r \in Int
        BY <1>1
      <3>2. (Nibble - 1) * Nibble = Byte - Nibble
        BY <1>1
      <3> QED BY <1>1, <3>1, <3>2
    <2> HIDE DEF a, r
    <2>3. h \in Int /\ Byte \in Nat \ {0}
      BY <1>1
    <2>4. a % Byte = r
      BY <2>1, <2>2, <2>3, DivMod
    <2> QED BY <2>4 DEF a, r
  <1> QED BY <1>2, <1>3

(* Every register is two nibbles. *)
LEMMA NibblesOf ==
    ASSUME NEW v \in Bytes
    PROVE  /\ v \div Nibble \in 0..(Nibble - 1) /\ v % Nibble \in 0..(Nibble - 1)
           /\ v = (v \div Nibble) * Nibble + (v % Nibble)
  <1> DEFINE q == v \div Nibble
             r == v % Nibble
  <1>1. /\ v \in Int /\ v >= 0 /\ v < Nibble * Nibble /\ Nibble \in Nat \ {0}
    BY TwoNibbles, Widths DEF Bytes
  <1>2. q \in Int /\ r \in 0..(Nibble - 1) /\ v = q * Nibble + r
    BY <1>1, Divided
  <1> HIDE DEF q, r
  <1>3. q >= 0
    <2> SUFFICES ASSUME q <= -1 PROVE FALSE
      BY <1>2
    <2>1. q * Nibble <= (-1) * Nibble
      BY <1>1, <1>2
    <2> QED BY <1>1, <1>2, <2>1
  <1>4. q < Nibble
    <2> SUFFICES ASSUME q >= Nibble PROVE FALSE
      BY <1>1, <1>2
    <2>1. q * Nibble >= Nibble * Nibble
      BY <1>1, <1>2
    <2> QED BY <1>1, <1>2, <2>1
  <1> QED BY <1>1, <1>2, <1>3, <1>4 DEF q, r

----------------------------------------------------------------------------
(* Shifts, masks and single bits                                            *)

(* What a logical instruction and a shift leave, of whatever operands. *)
LogicTo(d, res) == Writes(d, res, Logic, LogicFlags(res) \cup ZeroFlag(res))

(* A shift also takes C from the lowest bit of the register. *)
ShiftTo(d, res) == Writes(d, res, Shift, ShiftFlags(res, gpwr[d]) \cup ZeroFlag(res))

(* What LSR, and ASR make of a register, and ROR of one and the carry. *)
Halved(v)     == v \div 2
HalvedSign(v) == (v \div 2) + (IF Bit(v, Half) THEN Half ELSE 0)
Rotated(v, c) == (v \div 2) + c * Half

(* SWAP exchanges the nibbles. *)
Swapped(v) == ((v * Nibble) % Byte) + (v \div Nibble)

(* AND, OR, EOR and their immediates. *)
LEMMA LogicRuns ==
    ASSUME [Next]_vars, ~Paused, NEW d, NEW r
    PROVE  /\ ProgramWord(PC) = Reg2("AND", d, r) => LogicTo(d, And(gpwr[d], gpwr[r]))
           /\ ProgramWord(PC) = RegK("ANDI", d, r) => LogicTo(d, And(gpwr[d], r))
           /\ ProgramWord(PC) = Reg2("OR", d, r) => LogicTo(d, Or(gpwr[d], gpwr[r]))
           /\ ProgramWord(PC) = RegK("ORI", d, r) => LogicTo(d, Or(gpwr[d], r))
           /\ ProgramWord(PC) = Reg2("EOR", d, r) => LogicTo(d, Xor(gpwr[d], gpwr[r]))
  <1>1. I = ProgramWord(PC) /\ Dispatched
    BY StepRuns
  <1>2. ASSUME I = Reg2("AND", d, r) PROVE avr_op_AND /\ I.d = d /\ I.r = r
    BY <1>1, <1>2 DEF Dispatched, Reg2
  <1>3. ASSUME I = RegK("ANDI", d, r) PROVE avr_op_ANDI /\ I.d = d /\ I.K = r
    BY <1>1, <1>3 DEF Dispatched, RegK
  <1>4. ASSUME I = Reg2("OR", d, r) PROVE avr_op_OR /\ I.d = d /\ I.r = r
    BY <1>1, <1>4 DEF Dispatched, Reg2
  <1>5. ASSUME I = RegK("ORI", d, r) PROVE avr_op_ORI /\ I.d = d /\ I.K = r
    BY <1>1, <1>5 DEF Dispatched, RegK
  <1>6. ASSUME I = Reg2("EOR", d, r) PROVE avr_op_EOR /\ I.d = d /\ I.r = r
    BY <1>1, <1>6 DEF Dispatched, Reg2
  <1> QED BY <1>1, <1>2, <1>3, <1>4, <1>5, <1>6, Zenon
          DEF avr_op_AND, avr_op_ANDI, avr_op_OR, avr_op_ORI, avr_op_EOR, LogicOp,
              RegisterOp, SetFlags, Continue, LogicTo, Writes, Advances, Rd, Rr

(* LSR, ASR, ROR and SWAP. *)
LEMMA ShiftsRun ==
    ASSUME [Next]_vars, ~Paused, NEW d
    PROVE  /\ ProgramWord(PC) = Reg1("LSR", d) => ShiftTo(d, Halved(gpwr[d]))
           /\ ProgramWord(PC) = Reg1("ASR", d) => ShiftTo(d, HalvedSign(gpwr[d]))
           /\ ProgramWord(PC) = Reg1("ROR", d) => ShiftTo(d, Rotated(gpwr[d], Carry))
           /\ ProgramWord(PC) = Reg1("SWAP", d) => LoadsInto(d, Swapped(gpwr[d]), 1, 1)
  <1>1. I = ProgramWord(PC) /\ Dispatched
    BY StepRuns
  <1>2. ASSUME I = Reg1("LSR", d) PROVE avr_op_LSR /\ I.d = d
    BY <1>1, <1>2 DEF Dispatched, Reg1
  <1>3. ASSUME I = Reg1("ASR", d) PROVE avr_op_ASR /\ I.d = d
    BY <1>1, <1>3 DEF Dispatched, Reg1
  <1>4. ASSUME I = Reg1("ROR", d) PROVE avr_op_ROR /\ I.d = d
    BY <1>1, <1>4 DEF Dispatched, Reg1
  <1>5. ASSUME I = Reg1("SWAP", d) PROVE avr_op_SWAP /\ I.d = d
    BY <1>1, <1>5 DEF Dispatched, Reg1
  <1> QED BY <1>1, <1>2, <1>3, <1>4, <1>5, Zenon
          DEF avr_op_LSR, avr_op_ASR, avr_op_ROR, avr_op_SWAP, ShiftOp, RegisterOp, MoveOp,
              SetFlags, Continue, ShiftTo, Writes, Loads, LoadsInto, Advances, Rd,
              Halved, HalvedSign, Rotated, Swapped

(* BST and BLD move the bit of weight w to T and from there. *)
LEMMA BitsMove ==
    ASSUME [Next]_vars, ~Paused, NEW d, NEW w
    PROVE  /\ ProgramWord(PC) = RegB("BST", d, w) => Sets({"T"}, On("T", Bit(gpwr[d], w)))
           /\ ProgramWord(PC) = RegB("BLD", d, w) =>
                LET cleared == IF Bit(gpwr[d], w) THEN gpwr[d] - w ELSE gpwr[d]
                IN LoadsInto(d, IF "T" \in sreg THEN cleared + w ELSE cleared, 1, 1)
  <1>1. I = ProgramWord(PC) /\ Dispatched
    BY StepRuns
  <1>2. ASSUME I = RegB("BST", d, w) PROVE avr_op_BST /\ I.d = d /\ I.w = w
    BY <1>1, <1>2 DEF Dispatched, RegB
  <1>3. ASSUME I = RegB("BLD", d, w) PROVE avr_op_BLD /\ I.d = d /\ I.w = w
    BY <1>1, <1>3 DEF Dispatched, RegB
  <1> QED BY <1>1, <1>2, <1>3, Zenon
          DEF avr_op_BST, avr_op_BLD, FlagOp, MoveOp, SetFlags, Continue, Sets, Loads,
              LoadsInto, Advances, Rd

(* What an instruction that writes one register leaves alone. *)
LEMMA WrittenOnly ==
    ASSUME NEW d \in 0..31, NEW res, NEW mask, NEW flags, Writes(d, res, mask, flags),
           DOMAIN gpwr = 0..31, PC \in Nat, PC_max \in Nat, PC + 1 < PC_max
    PROVE  /\ PC' = PC + 1 /\ sreg' = (sreg \ mask) \cup flags
           /\ DOMAIN gpwr' = 0..31 /\ gpwr'[d] = res
           /\ \A r \in 0..31 : r # d => gpwr'[r] = gpwr[r]
  <1>1. /\ PC' = PC + 1 /\ sreg' = (sreg \ mask) \cup flags
        /\ gpwr' = [gpwr EXCEPT ![d] = res]
    BY DEF Writes, Advances, AdjustPC
  <1> QED BY <1>1

(* The carry after a shift is the bit shifted out, and T stays. *)
LEMMA ShiftedOut ==
    ASSUME NEW v \in Int, NEW res, NEW S, NEW F,
           F = (S \ Shift) \cup (ShiftFlags(res, v) \cup ZeroFlag(res))
    PROVE  /\ "C" \in F <=> v % 2 = 1
           /\ "T" \in F <=> "T" \in S
  <1>1. Bit(v, 1) <=> v % 2 = 1
    BY DEF Bit
  <1> DEFINE n == Bit(res, Half)
             c == Bit(v, 1)
  <1>2. F = (S \ Shift) \cup (SignFlags(n, n # c) \cup On("C", c) \cup ZeroFlag(res))
    BY DEF ShiftFlags
  <1> HIDE DEF n, c
  <1>3. ("C" \in F <=> c) /\ ("T" \in F <=> "T" \in S)
    BY <1>2 DEF Shift, SignFlags, On, ZeroFlag
  <1> QED BY <1>1, <1>3 DEF c

(* A shift in a program: the carry becomes the bit shifted out. *)
LEMMA ShiftGoes ==
    ASSUME NEW d \in 0..31, NEW v \in Int, NEW res, gpwr[d] = v, ShiftTo(d, res),
           DOMAIN gpwr = 0..31, PC \in Nat, PC_max \in Nat, PC + 1 < PC_max
    PROVE  /\ PC' = PC + 1 /\ DOMAIN gpwr' = 0..31 /\ gpwr'[d] = res
           /\ \A r \in 0..31 : r # d => gpwr'[r] = gpwr[r]
           /\ Carry' = v % 2 /\ ("T" \in sreg' <=> "T" \in sreg)
  <1> DEFINE F == ShiftFlags(res, v) \cup ZeroFlag(res)
  <1>1. Writes(d, res, Shift, F)
    BY DEF ShiftTo
  <1> HIDE DEF F
  <1>2. /\ PC' = PC + 1 /\ DOMAIN gpwr' = 0..31 /\ gpwr'[d] = res
        /\ \A r \in 0..31 : r # d => gpwr'[r] = gpwr[r]
        /\ sreg' = (sreg \ Shift) \cup F
    BY <1>1, WrittenOnly
  <1>3. ("C" \in sreg' <=> v % 2 = 1) /\ ("T" \in sreg' <=> "T" \in sreg)
    BY <1>2, ShiftedOut DEF F
  <1>4. Carry' = v % 2
    <2>1. v % 2 \in 0..1
      OBVIOUS
    <2> QED BY <1>3, <2>1 DEF Carry
  <1> QED BY <1>2, <1>3, <1>4

(* The digits are registers. *)
LEMMA DigitsTyped ==
    ASSUME InputTyped
    PROVE  /\ XL \in Bytes /\ XH \in Bytes /\ XL \in Int /\ XH \in Int
           /\ YL \in Bytes /\ YH \in Bytes
           /\ X \in Int /\ X = XL + Byte * XH
  <1>1. X \in 0..(Word - 1) /\ Y \in 0..(Word - 1) /\ X \in Int
    BY WordIs DEF InputTyped
  <1>2. XL \in Bytes /\ XH \in Bytes /\ YL \in Bytes /\ YH \in Bytes
    BY <1>1, Digits DEF XL, XH, YL, YH
  <1>3. X = XL + Byte * XH
    BY <1>1, Digits DEF XL, XH
  <1> QED BY <1>1, <1>2, <1>3 DEF Bytes

(* lsr and asr: the bit shifted out of the high digit goes into the low one. *)
RightRun(r, high) ==
    routine = r =>
      /\ DOMAIN gpwr = 0..31 /\ PC \in 0..2
      /\ PC = 0 => Holds(16, XL, XH)
      /\ PC = 1 => Holds(16, XL, high) /\ Carry = XH % 2
      /\ PC = 2 => Holds(16, Rotated(XL, XH % 2), high) /\ Carry = XL % 2

(* lsr shifts in a zero. *)
LsrRun == RightRun("lsr", Halved(XH))

(* asr shifts in the sign. *)
AsrRun == RightRun("asr", HalvedSign(XH))

(* Every step of either keeps this. *)
LEMMA RightRuns ==
    ASSUME InputTyped, [Next]_vars, NEW r \in {"lsr", "asr"}, NEW high,
           high = (IF r = "lsr" THEN Halved(XH) ELSE HalvedSign(XH)),
           RightRun(r, high), routine = r
    PROVE  /\ routine' = r /\ XL' = XL /\ XH' = XH
           /\ DOMAIN gpwr' = 0..31 /\ PC' \in 0..2
           /\ PC' = 0 => gpwr'[16] = XL /\ gpwr'[17] = XH
           /\ PC' = 1 => gpwr'[16] = XL /\ gpwr'[17] = high /\ Carry' = XH % 2
           /\ PC' = 2 => gpwr'[16] = Rotated(XL, XH % 2) /\ gpwr'[17] = high /\ Carry' = XL % 2
  <1> DEFINE op == IF r = "lsr" THEN "LSR" ELSE "ASR"
  <1>1. /\ ProgramWord(0) = Reg1(op, 17) /\ ProgramWord(1) = Reg1("ROR", 16)
        /\ ProgramWord(2) = RET /\ PC_max = 3
    BY Program DEF Routines, PC_max, ProgramWord
  <1>2. XL' = XL /\ XH' = XH /\ routine' = r
    BY SameRun DEF XL, XH, X
  <1>3. DOMAIN gpwr = 0..31 /\ PC \in 0..2 /\ XL \in Int /\ XH \in Int
    BY DigitsTyped DEF RightRun
  <1>4. CASE Paused
    BY <1>2, <1>4 DEF RightRun, Paused, Holds, Carry
  <1>5. CASE ~Paused /\ PC = 0
    <2>1. gpwr[16] = XL /\ gpwr[17] = XH
      BY <1>5 DEF RightRun, Holds
    <2>2. ProgramWord(PC) = Reg1(op, 17)
      BY <1>1, <1>5
    <2>3. ShiftTo(17, high)
      BY <1>5, <2>1, <2>2, ShiftsRun
    <2>4. PC' = 1 /\ DOMAIN gpwr' = 0..31 /\ gpwr'[17] = high /\ gpwr'[16] = XL /\ Carry' = XH % 2
      BY <1>1, <1>3, <1>5, <2>1, <2>3, ShiftGoes
    <2> QED BY <1>2, <2>4
  <1>6. CASE ~Paused /\ PC = 1
    <2>1. gpwr[16] = XL /\ gpwr[17] = high /\ Carry = XH % 2
      BY <1>6 DEF RightRun, Holds
    <2>2. ProgramWord(PC) = Reg1("ROR", 16)
      BY <1>1, <1>6
    <2>3. ShiftTo(16, Rotated(XL, XH % 2))
      BY <1>6, <2>1, <2>2, ShiftsRun
    <2>4. PC' = 2 /\ DOMAIN gpwr' = 0..31 /\ gpwr'[16] = Rotated(XL, XH % 2)
          /\ gpwr'[17] = high /\ Carry' = XL % 2
      BY <1>1, <1>3, <1>6, <2>1, <2>3, ShiftGoes
    <2> QED BY <1>2, <2>4
  <1>7. CASE ~Paused /\ PC = 2
    BY <1>1, <1>7, ReturnStops
  <1> QED BY <1>3, <1>4, <1>5, <1>6, <1>7

(* So both keep it. *)
LEMMA LsrRuns ==
    ASSUME InputTyped, LsrRun, [Next]_vars
    PROVE  LsrRun'
  <1> SUFFICES ASSUME routine = "lsr" PROVE LsrRun'
    BY SameRun DEF LsrRun, RightRun
  <1> DEFINE high == Halved(XH)
  <1>1. RightRun("lsr", high)
    BY DEF LsrRun
  <1>2. /\ routine' = "lsr" /\ XL' = XL /\ XH' = XH
        /\ DOMAIN gpwr' = 0..31 /\ PC' \in 0..2
        /\ PC' = 0 => gpwr'[16] = XL /\ gpwr'[17] = XH
        /\ PC' = 1 => gpwr'[16] = XL /\ gpwr'[17] = high /\ Carry' = XH % 2
        /\ PC' = 2 => gpwr'[16] = Rotated(XL, XH % 2) /\ gpwr'[17] = high /\ Carry' = XL % 2
    BY <1>1, RightRuns
  <1>3. high' = high
    BY <1>2 DEF Halved
  <1> HIDE DEF high
  <1>4. RightRun("lsr", high)'
    BY <1>2, <1>3 DEF RightRun, Holds, Rotated
  <1> QED BY <1>4 DEF LsrRun, high

(* The same for asr. *)
LEMMA AsrRuns ==
    ASSUME InputTyped, AsrRun, [Next]_vars
    PROVE  AsrRun'
  <1> SUFFICES ASSUME routine = "asr" PROVE AsrRun'
    BY SameRun DEF AsrRun, RightRun
  <1> DEFINE high == HalvedSign(XH)
  <1>1. RightRun("asr", high)
    BY DEF AsrRun
  <1>2. /\ routine' = "asr" /\ XL' = XL /\ XH' = XH
        /\ DOMAIN gpwr' = 0..31 /\ PC' \in 0..2
        /\ PC' = 0 => gpwr'[16] = XL /\ gpwr'[17] = XH
        /\ PC' = 1 => gpwr'[16] = XL /\ gpwr'[17] = high /\ Carry' = XH % 2
        /\ PC' = 2 => gpwr'[16] = Rotated(XL, XH % 2) /\ gpwr'[17] = high /\ Carry' = XL % 2
    BY <1>1, RightRuns
  <1>3. high' = high
    BY <1>2 DEF HalvedSign
  <1> HIDE DEF high
  <1>4. RightRun("asr", high)'
    BY <1>2, <1>3 DEF RightRun, Holds, Rotated
  <1> QED BY <1>4 DEF AsrRun, high

(* A logical instruction in a program. *)
LEMMA LogicGoes ==
    ASSUME NEW d \in 0..31, NEW res, LogicTo(d, res),
           DOMAIN gpwr = 0..31, PC \in Nat, PC_max \in Nat, PC + 1 < PC_max
    PROVE  /\ PC' = PC + 1 /\ DOMAIN gpwr' = 0..31 /\ gpwr'[d] = res
           /\ \A r \in 0..31 : r # d => gpwr'[r] = gpwr[r]
  <1> DEFINE F == LogicFlags(res) \cup ZeroFlag(res)
  <1>1. Writes(d, res, Logic, F)
    BY DEF LogicTo
  <1> HIDE DEF F
  <1> QED BY <1>1, WrittenOnly

(* ror: the lowest bit goes around through T. *)
Kept == "T" \in sreg <=> XL % 2 = 1

(* At each address, the digits shifted so far. *)
RorRun ==
    routine = "ror" =>
      /\ DOMAIN gpwr = 0..31 /\ PC \in 0..4
      /\ PC \in {0, 1} => Holds(16, XL, XH)
      /\ PC \in 1..3 => Kept
      /\ PC = 2 => Holds(16, XL, Halved(XH)) /\ Carry = XH % 2
      /\ PC = 3 => Holds(16, Rotated(XL, XH % 2), Halved(XH))
      /\ PC = 4 => Holds(16, Rotated(XL, XH % 2), Rotated(XH, XL % 2))

(* The highest bit of a register shifted right is free. *)
LEMMA HighestFree ==
    ASSUME NEW v \in Bytes
    PROVE  Halved(v) \in Bytes /\ ~Bit(Halved(v), Half)
  <1> DEFINE h == v \div 2
  <1>1. h \in Nat /\ h < Half /\ Half \in Nat \ {0}
    BY Widths DEF Bytes
  <1> HIDE DEF h
  <1>2. h \in Bytes /\ ~Bit(h, Half)
    BY <1>1, TopBit, Widths DEF Bytes
  <1> QED BY <1>2 DEF h, Halved

(* Every step of ror keeps this. *)
LEMMA RorRuns ==
    ASSUME InputTyped, RorRun, [Next]_vars
    PROVE  RorRun'
  <1> SUFFICES ASSUME routine = "ror" PROVE RorRun'
    BY SameRun DEF RorRun
  <1>1. /\ ProgramWord(0) = RegB("BST", 16, 1) /\ ProgramWord(1) = Reg1("LSR", 17)
        /\ ProgramWord(2) = Reg1("ROR", 16) /\ ProgramWord(3) = RegB("BLD", 17, Half)
        /\ ProgramWord(4) = RET /\ PC_max = 5
    BY Program DEF Routines, PC_max, ProgramWord
  <1>2. XL' = XL /\ XH' = XH /\ routine' = routine
    BY SameRun DEF XL, XH, X
  <1>3. DOMAIN gpwr = 0..31 /\ PC \in 0..4 /\ XL \in Int /\ XH \in Int /\ XH \in Bytes
    BY DigitsTyped DEF RorRun
  <1>4. CASE Paused
    BY <1>2, <1>4 DEF RorRun, Paused, Holds, Carry, Kept
  <1>5. CASE ~Paused /\ PC = 0
    <2>1. gpwr[16] = XL /\ gpwr[17] = XH /\ ProgramWord(PC) = RegB("BST", 16, 1)
      BY <1>1, <1>5 DEF RorRun, Holds
    <2>2. Sets({"T"}, On("T", Bit(XL, 1)))
      BY <1>5, <2>1, BitsMove
    <2>3. PC' = 1 /\ gpwr' = gpwr /\ sreg' = (sreg \ {"T"}) \cup On("T", Bit(XL, 1))
      BY <1>1, <1>5, <2>2 DEF Sets, Advances, AdjustPC
    <2>4. "T" \in sreg' <=> XL % 2 = 1
      BY <1>3, <2>3 DEF On, Bit
    <2> QED BY <1>2, <1>3, <2>1, <2>3, <2>4 DEF RorRun, Holds, Kept
  <1>6. CASE ~Paused /\ PC = 1
    <2>1. gpwr[16] = XL /\ gpwr[17] = XH /\ ProgramWord(PC) = Reg1("LSR", 17) /\ Kept
      BY <1>1, <1>6 DEF RorRun, Holds
    <2>2. ShiftTo(17, Halved(XH))
      BY <1>6, <2>1, ShiftsRun
    <2>3. /\ PC' = 2 /\ DOMAIN gpwr' = 0..31 /\ gpwr'[17] = Halved(XH) /\ gpwr'[16] = XL
          /\ Carry' = XH % 2 /\ ("T" \in sreg' <=> "T" \in sreg)
      BY <1>1, <1>3, <1>6, <2>1, <2>2, ShiftGoes
    <2> QED BY <1>2, <2>1, <2>3 DEF RorRun, Holds, Kept, Halved
  <1>7. CASE ~Paused /\ PC = 2
    <2>1. /\ gpwr[16] = XL /\ gpwr[17] = Halved(XH) /\ Carry = XH % 2
          /\ ProgramWord(PC) = Reg1("ROR", 16) /\ Kept
      BY <1>1, <1>7 DEF RorRun, Holds
    <2>2. ShiftTo(16, Rotated(XL, XH % 2))
      BY <1>7, <2>1, ShiftsRun
    <2>3. /\ PC' = 3 /\ DOMAIN gpwr' = 0..31 /\ gpwr'[17] = Halved(XH)
          /\ gpwr'[16] = Rotated(XL, XH % 2) /\ ("T" \in sreg' <=> "T" \in sreg)
      BY <1>1, <1>3, <1>7, <2>1, <2>2, ShiftGoes
    <2> QED BY <1>2, <2>1, <2>3 DEF RorRun, Holds, Kept, Halved, Rotated
  <1>8. CASE ~Paused /\ PC = 3
    <2> DEFINE h == Halved(XH)
    <2>1. /\ gpwr[16] = Rotated(XL, XH % 2) /\ gpwr[17] = h
          /\ ProgramWord(PC) = RegB("BLD", 17, Half) /\ Kept
      BY <1>1, <1>8 DEF RorRun, Holds
    <2>2. ~Bit(h, Half) /\ h \in Int
      BY <1>3, HighestFree DEF Bytes
    <2> HIDE DEF h
    <2>3. LoadsInto(17, IF "T" \in sreg THEN h + Half ELSE h, 1, 1)
      BY <1>8, <2>1, <2>2, BitsMove
    <2>4. (IF "T" \in sreg THEN h + Half ELSE h) = h + (XL % 2) * Half
      BY <1>3, <2>1, <2>2, Widths DEF Kept
    <2>5. LoadsInto(17, h + (XL % 2) * Half, 1, 1)
      BY <2>3, <2>4
    <2>6. PC' = 4 /\ DOMAIN gpwr' = 0..31 /\ gpwr'[17] = h + (XL % 2) * Half /\ gpwr'[16] = gpwr[16]
      BY <1>1, <1>3, <1>8, <2>5, LoadedOnly
    <2> QED BY <1>2, <2>1, <2>6 DEF RorRun, Holds, Kept, Halved, Rotated, h
  <1>9. CASE ~Paused /\ PC = 4
    BY <1>1, <1>9, ReturnStops
  <1> QED BY <1>3, <1>4, <1>5, <1>6, <1>7, <1>8, <1>9

(* shl: the nibbles of both digits move up by one place, the one that leaves *)
(* the low digit by being added to the high one twice, once with the rest.  *)
HighNibble == Byte - Nibble
UpperOf(v) == And(Swapped(v), HighNibble)
Mixed      == Xor(UpperOf(XH), Swapped(XL))

(* At each address, what has become of the two digits. *)
ShlRun ==
    routine = "shl" =>
      /\ DOMAIN gpwr = 0..31 /\ PC \in 0..6
      /\ PC = 0 => Holds(16, XL, XH)
      /\ PC = 1 => Holds(16, XL, Swapped(XH))
      /\ PC = 2 => Holds(16, XL, UpperOf(XH))
      /\ PC = 3 => Holds(16, Swapped(XL), UpperOf(XH))
      /\ PC = 4 => Holds(16, Swapped(XL), Mixed)
      /\ PC = 5 => Holds(16, UpperOf(XL), Mixed)
      /\ PC = 6 => Holds(16, UpperOf(XL), Xor(Mixed, UpperOf(XL)))

(* Every step of shl keeps this. *)
LEMMA ShlRuns ==
    ASSUME ShlRun, [Next]_vars
    PROVE  ShlRun'
  <1> SUFFICES ASSUME routine = "shl" PROVE ShlRun'
    BY SameRun DEF ShlRun
  <1> DEFINE SL == Swapped(XL)
             SH == Swapped(XH)
             UL == UpperOf(XL)
             UH == UpperOf(XH)
             M  == Mixed
             R  == Xor(Mixed, UpperOf(XL))
  <1>1. /\ ProgramWord(0) = Reg1("SWAP", 17) /\ ProgramWord(1) = RegK("ANDI", 17, HighNibble)
        /\ ProgramWord(2) = Reg1("SWAP", 16) /\ ProgramWord(3) = Reg2("EOR", 17, 16)
        /\ ProgramWord(4) = RegK("ANDI", 16, HighNibble)
        /\ ProgramWord(5) = Reg2("EOR", 17, 16) /\ ProgramWord(6) = RET /\ PC_max = 7
    BY Program DEF Routines, PC_max, ProgramWord, HighNibble
  <1>2. /\ XL' = XL /\ XH' = XH /\ routine' = routine
        /\ SL' = SL /\ SH' = SH /\ UL' = UL /\ UH' = UH /\ M' = M /\ R' = R
    <2>1. XL' = XL /\ XH' = XH /\ routine' = routine
      BY SameRun DEF XL, XH, X
    <2>2. SL' = SL /\ SH' = SH /\ UL' = UL /\ UH' = UH
      BY <2>1 DEF Swapped, UpperOf, And
    <2>3. M' = M
      BY <2>2 DEF Mixed, Xor
    <2>4. R' = R
      BY <2>2, <2>3 DEF Xor
    <2> QED BY <2>1, <2>2, <2>3, <2>4
  <1>3. UH = And(SH, HighNibble) /\ UL = And(SL, HighNibble) /\ M = Xor(UH, SL) /\ R = Xor(M, UL)
    BY DEF UpperOf, Mixed
  <1>4. ASSUME NEW l, NEW h, NEW a \in 0..6, routine' = "shl", DOMAIN gpwr' = 0..31, PC' = a,
               gpwr'[16] = l, gpwr'[17] = h,
               <<a, l, h>> \in {<<1, XL, SH>>, <<2, XL, UH>>, <<3, SL, UH>>, <<4, SL, M>>,
                                <<5, UL, M>>, <<6, UL, R>>}
        PROVE  ShlRun'
    BY <1>2, <1>4 DEF ShlRun, Holds
  <1>5. DOMAIN gpwr = 0..31 /\ PC \in 0..6
    BY DEF ShlRun
  <1>6. CASE Paused
    BY <1>2, <1>6 DEF ShlRun, Paused, Holds
  <1>7. /\ PC = 0 => gpwr[16] = XL /\ gpwr[17] = XH
        /\ PC = 1 => gpwr[16] = XL /\ gpwr[17] = SH
        /\ PC = 2 => gpwr[16] = XL /\ gpwr[17] = UH
        /\ PC = 3 => gpwr[16] = SL /\ gpwr[17] = UH
        /\ PC = 4 => gpwr[16] = SL /\ gpwr[17] = M
        /\ PC = 5 => gpwr[16] = UL /\ gpwr[17] = M
    BY DEF ShlRun, Holds
  <1> HIDE DEF SL, SH, UL, UH, M, R
  <1>8. CASE ~Paused /\ PC = 0
    <2>1. LoadsInto(17, SH, 1, 1)
      BY <1>1, <1>7, <1>8, ShiftsRun DEF SH
    <2>2. PC' = 1 /\ DOMAIN gpwr' = 0..31 /\ gpwr'[17] = SH /\ gpwr'[16] = XL
      BY <1>1, <1>5, <1>7, <1>8, <2>1, LoadedOnly
    <2> QED BY <1>2, <1>4, <2>2
  <1>9. CASE ~Paused /\ PC = 1
    <2>1. LogicTo(17, UH)
      BY <1>1, <1>3, <1>7, <1>9, LogicRuns
    <2>2. PC' = 2 /\ DOMAIN gpwr' = 0..31 /\ gpwr'[17] = UH /\ gpwr'[16] = XL
      BY <1>1, <1>5, <1>7, <1>9, <2>1, LogicGoes
    <2> QED BY <1>2, <1>4, <2>2
  <1>10. CASE ~Paused /\ PC = 2
    <2>1. LoadsInto(16, SL, 1, 1)
      BY <1>1, <1>7, <1>10, ShiftsRun DEF SL
    <2>2. PC' = 3 /\ DOMAIN gpwr' = 0..31 /\ gpwr'[16] = SL /\ gpwr'[17] = UH
      BY <1>1, <1>5, <1>7, <1>10, <2>1, LoadedOnly
    <2> QED BY <1>2, <1>4, <2>2
  <1>11. CASE ~Paused /\ PC = 3
    <2>1. LogicTo(17, M)
      BY <1>1, <1>3, <1>7, <1>11, LogicRuns
    <2>2. PC' = 4 /\ DOMAIN gpwr' = 0..31 /\ gpwr'[17] = M /\ gpwr'[16] = SL
      BY <1>1, <1>5, <1>7, <1>11, <2>1, LogicGoes
    <2> QED BY <1>2, <1>4, <2>2
  <1>12. CASE ~Paused /\ PC = 4
    <2>1. LogicTo(16, UL)
      BY <1>1, <1>3, <1>7, <1>12, LogicRuns
    <2>2. PC' = 5 /\ DOMAIN gpwr' = 0..31 /\ gpwr'[16] = UL /\ gpwr'[17] = M
      BY <1>1, <1>5, <1>7, <1>12, <2>1, LogicGoes
    <2> QED BY <1>2, <1>4, <2>2
  <1>13. CASE ~Paused /\ PC = 5
    <2>1. LogicTo(17, R)
      BY <1>1, <1>3, <1>7, <1>13, LogicRuns
    <2>2. PC' = 6 /\ DOMAIN gpwr' = 0..31 /\ gpwr'[17] = R /\ gpwr'[16] = UL
      BY <1>1, <1>5, <1>7, <1>13, <2>1, LogicGoes
    <2> QED BY <1>2, <1>4, <2>2
  <1>14. CASE ~Paused /\ PC = 6
    BY <1>1, <1>14, ReturnStops
  <1> QED BY <1>5, <1>6, <1>8, <1>9, <1>10, <1>11, <1>12, <1>13, <1>14

(* mask: the bits of the two digits that Y selects, and the complement of    *)
(* that choice, joined.                                                     *)
Chosen  == And(XL, YL)
Others  == And(XH, (Byte - 1) - YL)

(* At each address, what has become of the digits. *)
MaskRun ==
    routine = "mask" =>
      /\ DOMAIN gpwr = 0..31 /\ PC \in 0..5
      /\ PC \in {0, 1} => gpwr[18] = YL
      /\ PC = 0 => Holds(16, XL, XH)
      /\ PC \in {1, 2} => Holds(16, Chosen, XH)
      /\ PC = 2 => gpwr[18] = (Byte - 1) - YL
      /\ PC = 3 => Holds(16, Chosen, Others)
      /\ PC = 4 => gpwr[16] = Or(Chosen, Others)
      /\ PC = 5 => gpwr[16] = Or(Or(Chosen, Others), Half)

(* Every step of mask keeps this. *)
LEMMA MaskRuns ==
    ASSUME MaskRun, [Next]_vars
    PROVE  MaskRun'
  <1> SUFFICES ASSUME routine = "mask" PROVE MaskRun'
    BY SameRun DEF MaskRun
  <1> DEFINE N == (Byte - 1) - YL
             C == Chosen
             O == Others
             J == Or(Chosen, Others)
             R == Or(Or(Chosen, Others), Half)
  <1>1. /\ ProgramWord(0) = Reg2("AND", 16, 18) /\ ProgramWord(1) = Reg1("COM", 18)
        /\ ProgramWord(2) = Reg2("AND", 17, 18) /\ ProgramWord(3) = Reg2("OR", 16, 17)
        /\ ProgramWord(4) = RegK("ORI", 16, Half) /\ ProgramWord(5) = RET /\ PC_max = 6
    BY Program DEF Routines, PC_max, ProgramWord
  <1>2. /\ XL' = XL /\ XH' = XH /\ YL' = YL /\ routine' = routine
        /\ N' = N /\ C' = C /\ O' = O /\ J' = J /\ R' = R
    <2>1. XL' = XL /\ XH' = XH /\ YL' = YL /\ routine' = routine
      BY SameRun DEF XL, XH, YL, X, Y
    <2>2. N' = N /\ C' = C /\ O' = O
      BY <2>1 DEF Chosen, Others, And
    <2>3. J' = J /\ R' = R
      BY <2>2 DEF Or
    <2> QED BY <2>1, <2>2, <2>3
  <1>3. C = And(XL, YL) /\ O = And(XH, N) /\ J = Or(C, O) /\ R = Or(J, Half)
    BY DEF Chosen, Others
  <1>4. DOMAIN gpwr = 0..31 /\ PC \in 0..5
    BY DEF MaskRun
  <1>5. CASE Paused
    BY <1>2, <1>5 DEF MaskRun, Paused, Holds
  <1>6. CASE ~Paused /\ PC = 0
    <2>1. gpwr[16] = XL /\ gpwr[17] = XH /\ gpwr[18] = YL
      BY <1>6 DEF MaskRun, Holds
    <2> HIDE DEF C
    <2>2. LogicTo(16, C)
      BY <1>1, <1>3, <1>6, <2>1, LogicRuns
    <2>3. PC' = 1 /\ DOMAIN gpwr' = 0..31 /\ gpwr'[16] = C /\ gpwr'[17] = XH /\ gpwr'[18] = YL
      BY <1>1, <1>4, <1>6, <2>1, <2>2, LogicGoes
    <2> QED BY <1>2, <2>3 DEF MaskRun, Holds, C
  <1>7. CASE ~Paused /\ PC = 1
    <2>1. gpwr[16] = C /\ gpwr[17] = XH /\ gpwr[18] = YL
      BY <1>7 DEF MaskRun, Holds
    <2> HIDE DEF C
    <2>2. Writes(18, N, Shift, LogicFlags(N) \cup {"C"} \cup ZeroFlag(N))
      <3>1. ProgramWord(PC) = Reg1("COM", 18)
        BY <1>1, <1>7
      <3> QED BY <1>7, <2>1, <3>1, SinglesRun, Zenon
    <2> HIDE DEF N
    <2>3. PC' = 2 /\ DOMAIN gpwr' = 0..31 /\ gpwr'[16] = C /\ gpwr'[17] = XH /\ gpwr'[18] = N
      BY <1>1, <1>4, <1>7, <2>1, <2>2, WrittenOnly
    <2> QED BY <1>2, <2>3 DEF MaskRun, Holds, C, N
  <1>8. CASE ~Paused /\ PC = 2
    <2>1. gpwr[16] = C /\ gpwr[17] = XH /\ gpwr[18] = N
      BY <1>8 DEF MaskRun, Holds
    <2> HIDE DEF C, O, N
    <2>2. LogicTo(17, O)
      BY <1>1, <1>3, <1>8, <2>1, LogicRuns
    <2>3. PC' = 3 /\ DOMAIN gpwr' = 0..31 /\ gpwr'[16] = C /\ gpwr'[17] = O
      BY <1>1, <1>4, <1>8, <2>1, <2>2, LogicGoes
    <2> QED BY <1>2, <2>3 DEF MaskRun, Holds, C, O
  <1>9. CASE ~Paused /\ PC = 3
    <2>1. gpwr[16] = C /\ gpwr[17] = O
      BY <1>9 DEF MaskRun, Holds
    <2> HIDE DEF C, O, J
    <2>2. LogicTo(16, J)
      BY <1>1, <1>3, <1>9, <2>1, LogicRuns
    <2>3. PC' = 4 /\ DOMAIN gpwr' = 0..31 /\ gpwr'[16] = J
      BY <1>1, <1>4, <1>9, <2>1, <2>2, LogicGoes
    <2> QED BY <1>2, <2>3 DEF MaskRun, J
  <1>10. CASE ~Paused /\ PC = 4
    <2>1. gpwr[16] = J
      BY <1>10 DEF MaskRun
    <2> HIDE DEF J, R
    <2>2. LogicTo(16, R)
      BY <1>1, <1>3, <1>10, <2>1, LogicRuns
    <2>3. PC' = 5 /\ DOMAIN gpwr' = 0..31 /\ gpwr'[16] = R
      BY <1>1, <1>4, <1>10, <2>1, <2>2, LogicGoes
    <2> QED BY <1>2, <2>3 DEF MaskRun, R
  <1>11. CASE ~Paused /\ PC = 5
    BY <1>1, <1>11, ReturnStops
  <1> QED BY <1>4, <1>5, <1>6, <1>7, <1>8, <1>9, <1>10, <1>11

(* Two digits shifted right, the low one taking in the bit that leaves the  *)
(* high one, are the number shifted right.                                  *)
LEMMA HalvedWord ==
    ASSUME NEW l \in Int, NEW h \in Int
    PROVE  /\ (l + Byte * h) \div 2 = Rotated(l, h % 2) + Byte * Halved(h)
           /\ (l + Byte * h) % 2 = l % 2
  <1> DEFINE a == l \div 2
             b == l % 2
             p == h \div 2
             c == h % 2
  <1>1. /\ a \in Int /\ b \in 0..1 /\ l = a * 2 + b
        /\ p \in Int /\ c \in 0..1 /\ h = p * 2 + c
    BY Divided
  <1>2. Rotated(l, h % 2) + Byte * Halved(h) = (a + c * Half) + Byte * p
    BY DEF Rotated, Halved
  <1> HIDE DEF a, b, p, c
  <1>3. Byte \in Nat /\ Half \in Nat /\ Byte = 2 * Half
    BY Widths
  <1> DEFINE q == (a + c * Half) + Byte * p
             v == l + Byte * h
  <1>4. q \in Int /\ v = q * 2 + b
    BY <1>1, <1>3
  <1> HIDE DEF q, v
  <1>5. v \div 2 = q /\ v % 2 = b
    BY <1>1, <1>4, DivMod
  <1> QED BY <1>2, <1>5 DEF q, v, b

(* LSR and ROR. *)
LEMMA LsrEnds ==
    ASSUME InputTyped, LsrRun, Finished("lsr")
    PROVE  Pair(16) = X \div 2 /\ ("C" \in sreg) = (X % 2 = 1)
  <1>1. routine = "lsr" /\ PC = 2
    <2>1. /\ ProgramWord(0) = Reg1("LSR", 17) /\ ProgramWord(1) = Reg1("ROR", 16)
          /\ routine = "lsr" /\ ProgramWord(PC) = RET
      BY Program DEF Routines, ProgramWord, Finished
    <2>2. PC \in 0..2
      BY <2>1 DEF LsrRun, RightRun
    <2> QED BY <2>1, <2>2 DEF Reg1, RET, Plain
  <1>2. /\ gpwr[16] = Rotated(XL, XH % 2) /\ gpwr[17] = Halved(XH)
        /\ Carry = XL % 2
    BY <1>1 DEF LsrRun, RightRun, Holds
  <1>3. XL \in Int /\ XH \in Int /\ X = XL + Byte * XH
    BY DigitsTyped
  <1>4. X \div 2 = Rotated(XL, XH % 2) + Byte * Halved(XH) /\ X % 2 = XL % 2
    BY <1>3, HalvedWord
  <1>5. Pair(16) = X \div 2
    BY <1>2, <1>4 DEF Pair
  <1>6. "C" \in sreg <=> XL % 2 = 1
    BY <1>2, <1>3 DEF Carry
  <1> QED BY <1>4, <1>5, <1>6

(* ASR and ROR: half of the signed number. *)
LEMMA AsrEnds ==
    ASSUME InputTyped, AsrRun, Finished("asr")
    PROVE  Pair(16) = (SignedWord(X) \div 2) % Word /\ ("C" \in sreg) = (X % 2 = 1)
  <1>1. routine = "asr" /\ PC = 2
    <2>1. /\ ProgramWord(0) = Reg1("ASR", 17) /\ ProgramWord(1) = Reg1("ROR", 16)
          /\ routine = "asr" /\ ProgramWord(PC) = RET
      BY Program DEF Routines, ProgramWord, Finished
    <2>2. PC \in 0..2
      BY <2>1 DEF AsrRun, RightRun
    <2> QED BY <2>1, <2>2 DEF Reg1, RET, Plain
  <1> DEFINE l == Rotated(XL, XH % 2)
             h == HalvedSign(XH)
             s == Signed(XH)
             k == IF XH >= Half THEN 1 ELSE 0
  <1>2. gpwr[16] = l /\ gpwr[17] = h /\ Carry = XL % 2
    BY <1>1 DEF AsrRun, RightRun, Holds
  <1>3. /\ XL \in Bytes /\ XH \in Bytes /\ XL \in Int /\ XH \in Int /\ X \in Int
        /\ X = XL + Byte * XH
    BY DigitsTyped
  <1>4. Bit(XH, Half) <=> XH >= Half
    BY <1>3, TopBit
  <1>5. s = XH - k * Byte /\ k \in 0..1 /\ s \in Int
    BY <1>3, <1>4, Widths DEF Signed
  <1>6. h = Halved(XH) + k * Half
    BY <1>3, <1>4, Widths DEF HalvedSign, Halved
  <1>7. SignedWord(X) = XL + Byte * s
    BY <1>3, TwoDigits
  <1>8. Halved(s) = Halved(XH) - k * Half /\ s % 2 = XH % 2
    <2> DEFINE p == XH \div 2
               c == XH % 2
    <2>1. p \in Int /\ c \in 0..1 /\ XH = p * 2 + c
      BY <1>3, Divided
    <2> HIDE DEF p, c, s, k
    <2>2. s = (p - k * Half) * 2 + c /\ p - k * Half \in Int
      BY <1>5, <2>1, Widths
    <2>3. s \div 2 = p - k * Half /\ s % 2 = c
      <3>1. PICK q \in Int : q = p - k * Half
        BY <2>2
      <3>2. s = q * 2 + c
        BY <2>2, <3>1
      <3>3. s \div 2 = q /\ s % 2 = c
        BY <2>1, <3>2, DivMod
      <3> QED BY <3>1, <3>3
    <2> QED BY <2>3 DEF Halved, p, c
  <1>9. SignedWord(X) \div 2 = l + Byte * Halved(s) /\ X % 2 = XL % 2
    BY <1>3, <1>5, <1>7, <1>8, HalvedWord
  <1>10. h \in Bytes /\ l \in Bytes
    <2>1. XL \div 2 \in 0..(Half - 1) /\ XH \div 2 \in 0..(Half - 1) /\ XH % 2 \in 0..1
      BY <1>3, Widths DEF Bytes
    <2>2. (XH % 2) * Half \in {0, Half} /\ k * Half \in {0, Half}
      BY <1>5, <2>1, Widths
    <2> HIDE DEF k
    <2> QED BY <1>6, <2>1, <2>2, Widths DEF Rotated, Halved, Bytes
  <1> HIDE DEF l, h, s, k
  <1>11. l + Byte * h \in 0..(Word - 1)
    BY <1>10, TwoDigits
  <1>12. SignedWord(X) \div 2 = (0 - k) * Word + (l + Byte * h)
    <2>1. Halved(s) = h - k * Byte /\ h \in Int /\ l \in Int /\ Byte \in Int
      BY <1>3, <1>5, <1>6, <1>8, <1>10, Widths DEF Halved, Bytes
    <2>2. Byte * Halved(s) = Byte * h - k * Word
      BY <1>5, <2>1, WordIs
    <2>3. Byte * h \in Int /\ k * Word \in Int
      BY <1>5, <2>1, WordIs
    <2> QED BY <1>5, <1>9, <2>1, <2>2, <2>3, WordIs
  <1>13. (SignedWord(X) \div 2) % Word = l + Byte * h
    BY <1>5, <1>11, <1>12, WordIs, DivMod
  <1>14. Pair(16) = l + Byte * h
    BY <1>2 DEF Pair
  <1>15. "C" \in sreg <=> XL % 2 = 1
    BY <1>2, <1>3 DEF Carry
  <1> QED BY <1>9, <1>13, <1>14, <1>15

(* BST, LSR, ROR and BLD: the lowest bit becomes the highest. *)
LEMMA RorEnds ==
    ASSUME InputTyped, RorRun, Finished("ror")
    PROVE  Pair(16) = (X \div 2) + (X % 2) * (Word \div 2)
  <1>1. routine = "ror" /\ PC = 4
    <2>1. /\ ProgramWord(0) = RegB("BST", 16, 1) /\ ProgramWord(1) = Reg1("LSR", 17)
          /\ ProgramWord(2) = Reg1("ROR", 16) /\ ProgramWord(3) = RegB("BLD", 17, Half)
          /\ routine = "ror" /\ ProgramWord(PC) = RET
      BY Program DEF Routines, ProgramWord, Finished
    <2>2. PC \in 0..4
      BY <2>1 DEF RorRun
    <2> QED BY <2>1, <2>2 DEF Reg1, RegB, RET, Plain
  <1> DEFINE l == Rotated(XL, XH % 2)
             h == Halved(XH)
             b == XL % 2
  <1>2. gpwr[16] = l /\ gpwr[17] = h + b * Half
    BY <1>1 DEF RorRun, Holds, Rotated, Halved
  <1>3. XL \in Int /\ XH \in Int /\ X = XL + Byte * XH
    BY DigitsTyped
  <1>4. X \div 2 = l + Byte * h /\ X % 2 = b
    BY <1>3, HalvedWord
  <1>5. h \in Int /\ b \in Int /\ l \in Int /\ Byte \in Int /\ Half \in Int
    BY <1>3, Widths DEF Halved, Rotated
  <1>6. Pair(16) = l + Byte * (h + b * Half)
    BY <1>2 DEF Pair
  <1> HIDE DEF l, h, b
  <1>7. Byte * (h + b * Half) = Byte * h + b * (Byte * Half)
    BY <1>5
  <1>8. Pair(16) = (l + Byte * h) + b * (Byte * Half)
    <2>1. Byte * h \in Int /\ b * (Byte * Half) \in Int
      BY <1>5
    <2> QED BY <1>5, <1>6, <1>7, <2>1
  <1>9. Word \div 2 = Byte * Half
    BY WordIs
  <1> QED BY <1>4, <1>8, <1>9, Zenon

(* A nibble with zeros below. *)
LEMMA UpperBits ==
    ASSUME NEW h \in 0..(Nibble - 1)
    PROVE  /\ h * Nibble \in Bytes
           /\ \A w \in Weights : w < Nibble => ~Bit(h * Nibble, w)
  <1>1. 0 \in 0..(Nibble - 1) /\ h * Nibble + 0 = h * Nibble
    BY TwoNibbles
  <1> QED BY <1>1, NibbleBits, NoBits

(* SWAP and ANDI leave the low nibble in the place of the high one. *)
LEMMA UpperIs ==
    ASSUME NEW v \in Bytes
    PROVE  UpperOf(v) = (v % Nibble) * Nibble
  <1> DEFINE h == v \div Nibble
             l == v % Nibble
             s == l * Nibble + h
             u == l * Nibble
  <1>1. h \in 0..(Nibble - 1) /\ l \in 0..(Nibble - 1) /\ v = h * Nibble + l
    BY NibblesOf
  <1> HIDE DEF h, l
  <1>2. Swapped(v) = s
    BY <1>1, SwapIs DEF Swapped
  <1>3. u \in Bytes /\ \A w \in Weights : w < Nibble => ~Bit(u, w)
    BY <1>1, UpperBits
  <1>4. \A w \in Weights : w >= Nibble => (Bit(s, w) <=> Bit(u, w))
    BY <1>1, NibbleBits
  <1>5. \A w \in Weights : Bit(HighNibble, w) <=> w >= Nibble
    BY MaskBits DEF HighNibble
  <1> HIDE DEF s, u
  <1>6. /\ And(s, HighNibble) \in Bytes
        /\ \A w \in Weights : Bit(And(s, HighNibble), w) <=> Bit(s, w) /\ Bit(HighNibble, w)
    BY LogicIs
  <1>7. ASSUME NEW w \in Weights PROVE Bit(And(s, HighNibble), w) <=> Bit(u, w)
    <2>1. w < Nibble \/ w >= Nibble
      BY WeightsAre, TwoNibbles
    <2>2. w >= Nibble => ~(w < Nibble)
      BY WeightsAre, TwoNibbles
    <2> QED BY <1>3, <1>4, <1>5, <1>6, <2>1, <2>2
  <1>8. And(s, HighNibble) = u
    BY <1>3, <1>6, <1>7, SameBits
  <1> QED BY <1>2, <1>8, Zenon DEF UpperOf, u, l

(* Three exclusive ors put a nibble in and take another out. *)
LEMMA NibblePasses ==
    ASSUME NEW q \in 0..(Nibble - 1), NEW r \in 0..(Nibble - 1), NEW s \in 0..(Nibble - 1)
    PROVE  Xor(Xor(q * Nibble, s * Nibble + r), s * Nibble) = q * Nibble + r
  <1> DEFINE a == q * Nibble
             b == s * Nibble + r
             c == s * Nibble
             e == q * Nibble + r
             M == Xor(a, b)
  <1>1. /\ \A w \in Weights : w < Nibble => ~Bit(a, w) /\ ~Bit(c, w)
        /\ e \in Bytes
    BY UpperBits, NibbleBits
  <1>2. \A w \in Weights :
          /\ w < Nibble => (Bit(b, w) <=> Bit(r, w)) /\ (Bit(e, w) <=> Bit(r, w))
          /\ w >= Nibble => (Bit(b, w) <=> Bit(c, w)) /\ (Bit(e, w) <=> Bit(a, w))
    BY NibbleBits
  <1> HIDE DEF a, b, c, e
  <1>3. \A w \in Weights : Bit(M, w) <=> ~(Bit(a, w) <=> Bit(b, w))
    BY LogicIs
  <1> HIDE DEF M
  <1>4. /\ Xor(M, c) \in Bytes
        /\ \A w \in Weights : Bit(Xor(M, c), w) <=> ~(Bit(M, w) <=> Bit(c, w))
    BY LogicIs
  <1>5. ASSUME NEW w \in Weights PROVE Bit(Xor(M, c), w) <=> Bit(e, w)
    <2>1. w < Nibble \/ w >= Nibble
      BY WeightsAre, TwoNibbles
    <2> QED BY <1>1, <1>2, <1>3, <1>4, <2>1
  <1>6. Xor(M, c) = e
    BY <1>1, <1>4, <1>5, SameBits
  <1> QED BY <1>6 DEF M, a, b, c, e

(* Two digits of two nibbles each, moved up by one nibble. *)
LEMMA MovedUp ==
    ASSUME NEW p \in 0..(Nibble - 1), NEW q \in 0..(Nibble - 1),
           NEW r \in 0..(Nibble - 1), NEW s \in 0..(Nibble - 1)
    PROVE  LET x == (r * Nibble + s) + Byte * (p * Nibble + q)
           IN (Nibble * x) % Word = s * Nibble + Byte * (q * Nibble + r)
  <1> DEFINE x == (r * Nibble + s) + Byte * (p * Nibble + q)
             l == s * Nibble
             h == q * Nibble + r
             v == l + Byte * h
  <1>1. l \in Bytes /\ h \in Bytes
    BY UpperBits, NibbleBits
  <1>2. v \in 0..(Word - 1)
    BY <1>1, TwoDigits
  <1>3. /\ p \in Int /\ q \in Int /\ r \in Int /\ s \in Int /\ Nibble \in Int
        /\ Byte = Nibble * Nibble /\ Byte \in Int
        /\ Word = Byte * Byte /\ Word \in Nat \ {0}
    BY TwoNibbles, Widths, WordIs
  <1>4. Nibble * x = p * Word + v
    <2>1. Nibble * x = (r * (Nibble * Nibble) + l) + Byte * (p * (Nibble * Nibble) + q * Nibble)
      BY <1>3
    <2>2. p * Word = p * (Byte * Byte)
      BY <1>3
    <2> DEFINE N == Nibble
               B == Byte
    <2>3. Nibble * x = (r * B + l) + B * (p * B + q * N)
      BY <1>3, <2>1
    <2>4. p * Word + v = p * (B * B) + (l + B * (q * N + r))
      BY <2>2
    <2>5. p \in Int /\ q \in Int /\ r \in Int /\ N \in Int /\ B \in Int /\ l \in Int
      BY <1>3
    <2> HIDE DEF N, B, l, v, x
    <2>6. (r * B + l) + B * (p * B + q * N) = p * (B * B) + (l + B * (q * N + r))
      BY <2>5
    <2> QED BY <2>3, <2>4, <2>6
  <1> DEFINE y == Nibble * x
  <1>5. y = p * Word + v
    BY <1>4
  <1> HIDE DEF v, x, y
  <1>6. p \in Int /\ Word \in Nat \ {0}
    BY <1>3
  <1>7. y % Word = v
    BY <1>2, <1>5, <1>6, DivMod
  <1> QED BY <1>7 DEF v, x, y

(* SWAP, ANDI and EOR: four places at once, nibble by nibble. *)
LEMMA ShlEnds ==
    ASSUME InputTyped, ShlRun, Finished("shl")
    PROVE  Pair(16) = (Nibble * X) % Word
  <1>1. routine = "shl" /\ PC = 6
    <2>1. /\ ProgramWord(0) = Reg1("SWAP", 17) /\ ProgramWord(1) = RegK("ANDI", 17, HighNibble)
          /\ ProgramWord(2) = Reg1("SWAP", 16) /\ ProgramWord(3) = Reg2("EOR", 17, 16)
          /\ ProgramWord(4) = RegK("ANDI", 16, HighNibble)
          /\ ProgramWord(5) = Reg2("EOR", 17, 16)
          /\ routine = "shl" /\ ProgramWord(PC) = RET
      BY Program DEF Routines, ProgramWord, Finished, HighNibble
    <2>2. PC \in 0..6
      BY <2>1 DEF ShlRun
    <2> QED BY <2>1, <2>2 DEF Reg1, Reg2, RegK, RET, Plain
  <1> DEFINE p == XH \div Nibble
             q == XH % Nibble
             r == XL \div Nibble
             s == XL % Nibble
  <1>2. gpwr[16] = UpperOf(XL) /\ gpwr[17] = Xor(Mixed, UpperOf(XL))
    BY <1>1 DEF ShlRun, Holds
  <1>3. XL \in Bytes /\ XH \in Bytes /\ X = XL + Byte * XH
    BY DigitsTyped
  <1>4. /\ UpperOf(XL) = s * Nibble
        /\ Mixed = Xor(q * Nibble, s * Nibble + r)
    <2>1. UpperOf(XL) = s * Nibble /\ UpperOf(XH) = q * Nibble
      BY <1>3, UpperIs
    <2>2. /\ r \in 0..(Nibble - 1) /\ s \in 0..(Nibble - 1) /\ XL = r * Nibble + s
      BY <1>3, NibblesOf
    <2> HIDE DEF p, q, r, s
    <2>3. Swapped(XL) = s * Nibble + r
      BY <2>2, SwapIs DEF Swapped
    <2> QED BY <2>1, <2>3 DEF Mixed
  <1>5. /\ p \in 0..(Nibble - 1) /\ q \in 0..(Nibble - 1) /\ XH = p * Nibble + q
        /\ r \in 0..(Nibble - 1) /\ s \in 0..(Nibble - 1) /\ XL = r * Nibble + s
    BY <1>3, NibblesOf
  <1> HIDE DEF p, q, r, s
  <1>6. Xor(Mixed, UpperOf(XL)) = q * Nibble + r
    BY <1>4, <1>5, NibblePasses
  <1>7. Pair(16) = s * Nibble + Byte * (q * Nibble + r)
    BY <1>2, <1>4, <1>6 DEF Pair
  <1>8. X = (r * Nibble + s) + Byte * (p * Nibble + q)
    BY <1>3, <1>5
  <1>9. (Nibble * X) % Word = s * Nibble + Byte * (q * Nibble + r)
    BY <1>5, <1>8, MovedUp
  <1> QED BY <1>7, <1>9

(* AND, COM, OR and ORI, bit by bit. *)
LEMMA MaskEnds ==
    ASSUME InputTyped, MaskRun, Finished("mask"), NEW w \in Weights
    PROVE  Bit(gpwr[16], w) <=> w = Half \/ Bit(IF Bit(YL, w) THEN XL ELSE XH, w)
  <1>1. routine = "mask" /\ PC = 5
    <2>1. /\ ProgramWord(0) = Reg2("AND", 16, 18) /\ ProgramWord(1) = Reg1("COM", 18)
          /\ ProgramWord(2) = Reg2("AND", 17, 18) /\ ProgramWord(3) = Reg2("OR", 16, 17)
          /\ ProgramWord(4) = RegK("ORI", 16, Half)
          /\ routine = "mask" /\ ProgramWord(PC) = RET
      BY Program DEF Routines, ProgramWord, Finished
    <2>2. PC \in 0..5
      BY <2>1 DEF MaskRun
    <2> QED BY <2>1, <2>2 DEF Reg1, Reg2, RegK, RET, Plain
  <1>2. gpwr[16] = Or(Or(Chosen, Others), Half)
    BY <1>1 DEF MaskRun
  <1> DEFINE N == (Byte - 1) - YL
             J == Or(Chosen, Others)
  <1>3. Bit(N, w) <=> ~Bit(YL, w)
    BY DigitsTyped, ComplementIs
  <1>4. Bit(Chosen, w) <=> Bit(XL, w) /\ Bit(YL, w)
    BY LogicIs DEF Chosen
  <1> HIDE DEF N
  <1>5. Bit(And(XH, N), w) <=> Bit(XH, w) /\ Bit(N, w)
    BY LogicIs
  <1>6. Others = And(XH, N)
    BY DEF Others, N
  <1>7. Bit(J, w) <=> Bit(Chosen, w) \/ Bit(Others, w)
    BY LogicIs
  <1> HIDE DEF J
  <1>8. Bit(Or(J, Half), w) <=> Bit(J, w) \/ Bit(Half, w)
    BY LogicIs
  <1>9. Bit(Half, w) <=> w = Half
    BY HighestBit
  <1>10. Bit(gpwr[16], w) <=> Bit(Or(J, Half), w)
    BY <1>2 DEF J
  <1>11. Bit(IF Bit(YL, w) THEN XL ELSE XH, w) <=>
            \/ Bit(YL, w) /\ Bit(XL, w)
            \/ ~Bit(YL, w) /\ Bit(XH, w)
    <2>1. CASE Bit(YL, w)
      BY <2>1
    <2>2. CASE ~Bit(YL, w)
      BY <2>2
    <2> QED BY <2>1, <2>2
  <1> QED BY <1>3, <1>4, <1>5, <1>6, <1>7, <1>8, <1>9, <1>10, <1>11

(* What holds while a shift or a mask runs. *)
ShiftsInv ==
    /\ InputTyped
    /\ LsrRun /\ AsrRun /\ RorRun /\ ShlRun /\ MaskRun

(* It holds at the first instruction. *)
LEMMA ShiftsStart == Init => ShiftsInv
  <1> SUFFICES ASSUME Init PROVE ShiftsInv
    OBVIOUS
  <1>1. /\ InputTyped /\ DOMAIN gpwr = 0..31 /\ PC = 0
        /\ Holds(16, XL, XH) /\ Holds(18, YL, YH)
    BY Starting
  <1>2. LsrRun /\ AsrRun /\ RorRun /\ ShlRun /\ MaskRun
    BY <1>1 DEF LsrRun, AsrRun, RightRun, RorRun, ShlRun, MaskRun, Holds
  <1> QED BY <1>1, <1>2 DEF ShiftsInv

(* Every step keeps it. *)
LEMMA ShiftsStep == ShiftsInv /\ [Next]_vars => ShiftsInv'
  <1> SUFFICES ASSUME ShiftsInv, [Next]_vars PROVE ShiftsInv'
    OBVIOUS
  <1>1. InputTyped
    BY DEF ShiftsInv
  <1>2. InputTyped'
    BY <1>1, SameRun DEF InputTyped, X, Y
  <1>3. LsrRun' /\ AsrRun' /\ RorRun' /\ ShlRun' /\ MaskRun'
    BY <1>1, LsrRuns, AsrRuns, RorRuns, ShlRuns, MaskRuns DEF ShiftsInv
  <1> QED BY <1>2, <1>3 DEF ShiftsInv

(* The carry and T take every bit that a shift drops to where it belongs,   *)
(* SWAP and the logical instructions move and select bits, whatever the     *)
(* width of a register.                                                     *)
THEOREM ShiftsAreRight == Spec => []ShiftsRight
  <1>1. ShiftsInv => ShiftsRight
    <2> SUFFICES ASSUME ShiftsInv PROVE ShiftsRight
      OBVIOUS
    <2>1. InputTyped /\ LsrRun /\ AsrRun /\ RorRun /\ ShlRun /\ MaskRun
      BY DEF ShiftsInv
    <2>2. Finished("mask") =>
            \A w \in Weights : Bit(gpwr[16], w) =
               (w = Half \/ Bit(IF Bit(Y % Byte, w) THEN X % Byte ELSE X \div Byte, w))
      <3> SUFFICES ASSUME Finished("mask"), NEW w \in Weights
                   PROVE Bit(gpwr[16], w) <=>
                         w = Half \/ Bit(IF Bit(Y % Byte, w) THEN X % Byte ELSE X \div Byte, w)
        BY DEF Bit
      <3> QED BY <2>1, MaskEnds DEF XL, XH, YL
    <2> QED BY <2>1, <2>2, LsrEnds, AsrEnds, RorEnds, ShlEnds, Zenon DEF ShiftsRight
  <1> QED BY <1>1, ShiftsStart, ShiftsStep, PTL DEF Spec

----------------------------------------------------------------------------
(* Products                                                                 *)

(* A word in two registers, the number of four that a product adds up to,   *)
(* and equality of such numbers up to a carry out of the highest register.  *)
PairOf(regs, r) == regs[r] + Byte * regs[r + 1]
Value(regs)     == PairOf(regs, 20) + Word * PairOf(regs, 22)
Congruent(a, b) == \E k \in Int : a = b + k * (Word * Word)

(* The program's registers, with the two numbers in them. *)
Registers(regs) ==
    /\ regs \in [0..31 -> Bytes]
    /\ regs[16] = XL /\ regs[17] = XH /\ regs[18] = YL /\ regs[19] = YH

(* Equal numbers, and numbers to which the same is added. *)
LEMMA CongruentSums ==
    /\ \A a \in Int : Congruent(a, a)
    /\ \A a, b, e \in Int : Congruent(a, b) => Congruent(a + e, b + e)
    /\ \A a, b, o \in Int : Congruent(a + (Word * Word) * o, b) => Congruent(a, b)
  <1> DEFINE T == Word * Word
  <1>1. T \in Int
    BY WordIs
  <1> HIDE DEF T
  <1>2. ASSUME NEW a \in Int PROVE \E k \in Int : a = a + k * T
    <2>1. 0 \in Int /\ a = a + 0 * T
      BY <1>1
    <2> QED BY <2>1
  <1>3. ASSUME NEW a \in Int, NEW b \in Int, NEW e \in Int, NEW k \in Int, a = b + k * T
        PROVE  \E j \in Int : a + e = b + e + j * T
    <2>1. a + e = b + e + k * T
      BY <1>1, <1>3
    <2> QED BY <2>1
  <1>4. ASSUME NEW a \in Int, NEW b \in Int, NEW o \in Int, NEW k \in Int,
               a + T * o = b + k * T
        PROVE  \E j \in Int : a = b + j * T
    <2>1. a = b + (k - o) * T /\ k - o \in Int
      BY <1>1, <1>4
    <2> QED BY <2>1
  <1> QED BY <1>2, <1>3, <1>4 DEF Congruent, T

(* What the sum of one digit does to a number of four.  The carry goes one   *)
(* place up, and out of the highest one.                                    *)
LEMMA LowAdded ==
    ASSUME NEW f \in [0..31 -> Bytes], NEW g \in [0..31 -> Bytes], NEW o \in {0, 1},
           g[21] + Byte * o = f[21] + f[0] + 0,
           \A i \in 0..31 : i # 21 => g[i] = f[i]
    PROVE  Value(g) + Word * o + Word * g[1] = Value(f) + Byte * PairOf(f, 0)
  <1> DEFINE B == Byte
             W == Word
             a == f[20]
             b == f[21]
             c == f[22]
             d == f[23]
             p == f[0]
             q == f[1]
             s == g[21]
  <1>1. /\ a \in Int /\ b \in Int /\ c \in Int /\ d \in Int /\ p \in Int /\ q \in Int
        /\ s \in Int /\ o \in Int /\ B \in Int /\ W \in Int /\ W = B * B
    BY Widths, WordIs DEF Bytes
  <1>2. g[20] = a /\ g[22] = c /\ g[23] = d /\ g[1] = q
    OBVIOUS
  <1>3. Value(g) = (a + B * s) + W * (c + B * d) /\ Value(f) = (a + B * b) + W * (c + B * d)
    BY <1>2 DEF Value, PairOf
  <1>4. PairOf(f, 0) = p + B * q
    BY DEF PairOf
  <1>5. s + B * o = b + p
    BY <1>1
  <1> HIDE DEF B, W, a, b, c, d, p, q, s
  <1>6. (a + B * s) + W * (c + B * d) + W * o + W * q
      = (a + B * b) + W * (c + B * d) + B * (p + B * q)
    <2>1. b = s + B * o - p
      BY <1>1, <1>5
    <2> QED BY <1>1, <2>1
  <1>7. Value(g) + W * o + W * g[1] = Value(f) + B * PairOf(f, 0)
    BY <1>2, <1>3, <1>4, <1>6
  <1> QED BY <1>7 DEF B, W

(* The next digit, which takes the carry in. *)
LEMMA MiddleAdded ==
    ASSUME NEW f \in [0..31 -> Bytes], NEW g \in [0..31 -> Bytes], NEW o \in {0, 1},
           NEW i \in {0, 1}, g[22] + Byte * o = f[22] + f[1] + i,
           \A r \in 0..31 : r # 22 => g[r] = f[r]
    PROVE  Value(g) + (Byte * Word) * o = Value(f) + Word * i + Word * f[1]
  <1> DEFINE B == Byte
             W == Word
             a == f[20]
             b == f[21]
             c == f[22]
             d == f[23]
             q == f[1]
             s == g[22]
  <1>1. /\ a \in Int /\ b \in Int /\ c \in Int /\ d \in Int /\ q \in Int
        /\ s \in Int /\ o \in Int /\ i \in Int /\ B \in Int /\ W \in Int
    BY Widths, WordIs DEF Bytes
  <1>2. g[20] = a /\ g[21] = b /\ g[23] = d
    OBVIOUS
  <1>3. Value(g) = (a + B * b) + W * (s + B * d) /\ Value(f) = (a + B * b) + W * (c + B * d)
    BY <1>2 DEF Value, PairOf
  <1>4. s + B * o = c + q + i
    BY <1>1
  <1> HIDE DEF B, W, a, b, c, d, q, s
  <1>5. (a + B * b) + W * (s + B * d) + (B * W) * o
      = (a + B * b) + W * (c + B * d) + W * i + W * q
    <2>1. c = s + B * o - q - i
      BY <1>1, <1>4
    <2> QED BY <1>1, <2>1
  <1>6. Value(g) + (B * W) * o = Value(f) + W * i + W * q
    BY <1>3, <1>5
  <1> QED BY <1>6 DEF B, W, q

(* The highest digit, from which a carry or a sign is added or taken away.   *)
LEMMA HighAdded ==
    ASSUME NEW f \in [0..31 -> Bytes], NEW g \in [0..31 -> Bytes], NEW o \in -1..1,
           NEW i \in -1..1, g[23] + Byte * o = f[23] + i,
           \A r \in 0..31 : r # 23 => g[r] = f[r]
    PROVE  Value(g) + (Word * Word) * o = Value(f) + (Byte * Word) * i
  <1> DEFINE B == Byte
             W == Word
             a == f[20]
             b == f[21]
             c == f[22]
             d == f[23]
             s == g[23]
  <1>1. /\ a \in Int /\ b \in Int /\ c \in Int /\ d \in Int
        /\ s \in Int /\ o \in Int /\ i \in Int /\ B \in Int /\ W \in Int /\ W = B * B
    BY Widths, WordIs DEF Bytes
  <1>2. g[20] = a /\ g[21] = b /\ g[22] = c
    OBVIOUS
  <1>3. Value(g) = (a + B * b) + W * (c + B * s) /\ Value(f) = (a + B * b) + W * (c + B * d)
    BY <1>2 DEF Value, PairOf
  <1>4. s + B * o = d + i
    BY <1>1
  <1> HIDE DEF B, W, a, b, c, d, s
  <1>5. (a + B * b) + W * (c + B * s) + (W * W) * o
      = (a + B * b) + W * (c + B * d) + (B * W) * i
    <2>1. d = s + B * o - i
      BY <1>1, <1>4
    <2> QED BY <1>1, <2>1
  <1>6. Value(g) + (W * W) * o = Value(f) + (B * W) * i
    BY <1>3, <1>5
  <1> QED BY <1>6 DEF B, W

(* What a multiplication leaves: res in R1:R0 and C from the product p. *)
MultipliesTo(p, res) ==
    /\ gpwr' = WithPair(gpwr, 0, res)
    /\ sreg' = (sreg \ {"Z", "C"}) \cup (ZeroFlag(res) \cup On("C", Bit(p, Byte * Half)))
    /\ Advances(1, 2) /\ sram' = sram

(* The product as a word, and doubled. *)
ProductTo(v)  == MultipliesTo(v % Word, v % Word)
FractionTo(v) == MultipliesTo(v % Word, (2 * (v % Word)) % Word)

(* MUL and its relatives, with the sign each gives its operands. *)
LEMMA ProductsRun ==
    ASSUME [Next]_vars, ~Paused, NEW d, NEW r
    PROVE  /\ ProgramWord(PC) = Reg2("MUL", d, r) => ProductTo(gpwr[d] * gpwr[r])
           /\ ProgramWord(PC) = Reg2("MULS", d, r) =>
                ProductTo(Signed(gpwr[d]) * Signed(gpwr[r]))
           /\ ProgramWord(PC) = Reg2("MULSU", d, r) => ProductTo(Signed(gpwr[d]) * gpwr[r])
           /\ ProgramWord(PC) = Reg2("FMUL", d, r) => FractionTo(gpwr[d] * gpwr[r])
           /\ ProgramWord(PC) = Reg2("FMULS", d, r) =>
                FractionTo(Signed(gpwr[d]) * Signed(gpwr[r]))
           /\ ProgramWord(PC) = Reg2("FMULSU", d, r) => FractionTo(Signed(gpwr[d]) * gpwr[r])
  <1>1. I = ProgramWord(PC) /\ Dispatched
    BY StepRuns
  <1>2. ASSUME I = Reg2("MUL", d, r) PROVE avr_op_MUL /\ I.d = d /\ I.r = r
    BY <1>1, <1>2 DEF Dispatched, Reg2
  <1>3. ASSUME I = Reg2("MULS", d, r) PROVE avr_op_MULS /\ I.d = d /\ I.r = r
    BY <1>1, <1>3 DEF Dispatched, Reg2
  <1>4. ASSUME I = Reg2("MULSU", d, r) PROVE avr_op_MULSU /\ I.d = d /\ I.r = r
    BY <1>1, <1>4 DEF Dispatched, Reg2
  <1>5. ASSUME I = Reg2("FMUL", d, r) PROVE avr_op_FMUL /\ I.d = d /\ I.r = r
    BY <1>1, <1>5 DEF Dispatched, Reg2
  <1>6. ASSUME I = Reg2("FMULS", d, r) PROVE avr_op_FMULS /\ I.d = d /\ I.r = r
    BY <1>1, <1>6 DEF Dispatched, Reg2
  <1>7. ASSUME I = Reg2("FMULSU", d, r) PROVE avr_op_FMULSU /\ I.d = d /\ I.r = r
    BY <1>1, <1>7 DEF Dispatched, Reg2
  <1>8. ASSUME NEW op, NEW v, Product(op, v) PROVE ProductTo(v)
    BY <1>8, Zenon DEF Product, Multiply, SetFlags, Continue, ProductTo, MultipliesTo, Advances
  <1>9. ASSUME NEW op, NEW v, Fraction(op, v) PROVE FractionTo(v)
    BY <1>9, Zenon DEF Fraction, Multiply, SetFlags, Continue, FractionTo, MultipliesTo,
                       Advances
  <1> QED BY <1>1, <1>2, <1>3, <1>4, <1>5, <1>6, <1>7, <1>8, <1>9, Zenon
          DEF avr_op_MUL, avr_op_MULS, avr_op_MULSU, avr_op_FMUL, avr_op_FMULS,
              avr_op_FMULSU, Rd, Rr

(* What a multiplication leaves alone, and the word it makes. *)
LEMMA ProductGoes ==
    ASSUME NEW p \in 0..(Word - 1), NEW res \in 0..(Word - 1), MultipliesTo(p, res),
           Registers(gpwr), PC \in Nat, PC_max \in Nat, PC + 1 < PC_max
    PROVE  /\ PC' = PC + 1 /\ gpwr' \in [0..31 -> Bytes]
           /\ PairOf(gpwr', 0) = res /\ gpwr'[0] = res % Byte
           /\ \A r \in 2..31 : gpwr'[r] = gpwr[r]
           /\ Carry' = IF p >= Byte * Half THEN 1 ELSE 0
  <1> DEFINE l == res % Byte
             h == res \div Byte
             F == ZeroFlag(res) \cup On("C", Bit(p, Byte * Half))
  <1>1. /\ gpwr' = [gpwr EXCEPT ![0] = l, ![0 + 1] = h]
        /\ sreg' = (sreg \ {"Z", "C"}) \cup F
    BY DEF MultipliesTo, WithPair
  <1>2. PC' = PC + 1
    BY DEF MultipliesTo, Advances, AdjustPC
  <1>3. l \in Bytes /\ h \in Bytes /\ res = l + Byte * h
    BY Digits
  <1>4. "C" \in F <=> p >= Byte * Half
    <2>1. p \in Int /\ p >= 0 /\ p < Word /\ 2 * (Byte * Half) = Word /\ Word \in Nat \ {0}
      BY WordIs
    <2>2. p % Word = p
      BY <2>1
    <2>3. Bit(p, Byte * Half) <=> p >= Byte * Half
      BY <2>1, <2>2 DEF Bit
    <2> QED BY <2>3 DEF ZeroFlag, On
  <1> HIDE DEF l, h, F
  <1>5. gpwr \in [0..31 -> Bytes]
    BY DEF Registers
  <1>6. /\ gpwr' \in [0..31 -> Bytes] /\ gpwr'[0] = l /\ gpwr'[1] = h
        /\ \A r \in 2..31 : gpwr'[r] = gpwr[r]
    BY <1>1, <1>3, <1>5
  <1>7. Carry' = IF p >= Byte * Half THEN 1 ELSE 0
    <2>1. "C" \in sreg' <=> p >= Byte * Half
      BY <1>1, <1>4
    <2> QED BY <2>1 DEF Carry
  <1>8. PairOf(gpwr', 0) = res
    BY <1>3, <1>6 DEF PairOf
  <1> QED BY <1>2, <1>6, <1>7, <1>8 DEF l

(* MOVW of R1:R0 to a pair of the sum. *)
LEMMA PairMoved ==
    ASSUME NEW d \in {20, 22}, [Next]_vars, ~Paused, ProgramWord(PC) = Reg2("MOVW", d, 0),
           Registers(gpwr), PC \in Nat, PC_max \in Nat, PC + 1 < PC_max
    PROVE  /\ PC' = PC + 1 /\ gpwr' \in [0..31 -> Bytes]
           /\ gpwr'[d] = gpwr[0] /\ gpwr'[d + 1] = gpwr[1] /\ PairOf(gpwr', d) = PairOf(gpwr, 0)
           /\ \A r \in 0..31 : r # d /\ r # d + 1 => gpwr'[r] = gpwr[r]
           /\ Carry' = Carry
  <1> DEFINE v == Pair(0)
  <1>1. Loads(WithPair(gpwr, d, v), 1, 1)
    BY MovesRun
  <1>2. gpwr \in [0..31 -> Bytes]
    BY DEF Registers
  <1>3. gpwr[0] \in Bytes /\ gpwr[1] \in Bytes /\ v = gpwr[0] + Byte * gpwr[1]
    BY <1>2 DEF Pair
  <1> DEFINE l == v % Byte
             h == v \div Byte
  <1>4. l = gpwr[0] /\ h = gpwr[1]
    BY <1>3, TwoDigits
  <1>5. /\ gpwr' = [gpwr EXCEPT ![d] = l, ![d + 1] = h]
        /\ PC' = PC + 1 /\ sreg' = sreg
    BY <1>1 DEF Loads, WithPair, Advances, AdjustPC
  <1> HIDE DEF v, l, h
  <1>6. /\ gpwr' \in [0..31 -> Bytes] /\ gpwr'[d] = gpwr[0] /\ gpwr'[d + 1] = gpwr[1]
        /\ \A r \in 0..31 : r # d /\ r # d + 1 => gpwr'[r] = gpwr[r]
    BY <1>2, <1>3, <1>4, <1>5
  <1>7. PairOf(gpwr', d) = PairOf(gpwr, 0)
    BY <1>6 DEF PairOf
  <1>8. Carry' = Carry
    BY <1>5 DEF Carry
  <1> QED BY <1>5, <1>6, <1>7, <1>8

(* The product of two registers is a word; doubled, it is one up to the C    *)
(* that the fractional multiplication leaves.                               *)
LEMMA UnsignedProduct ==
    ASSUME NEW a \in Bytes, NEW b \in Bytes
    PROVE  LET v == a * b
               c == IF v >= Byte * Half THEN 1 ELSE 0
           IN /\ v \in 0..(Word - 1) /\ v % Word = v
              /\ (2 * v) % Word \in 0..(Word - 1)
              /\ ((2 * v) % Word) + Word * c = 2 * v
  <1> DEFINE v == a * b
             H == Byte * Half
             B == Byte
  <1>1. /\ a \in Nat /\ b \in Nat /\ a <= B - 1 /\ b <= B - 1 /\ B \in Nat \ {0}
        /\ Word = B * B
    BY Widths, WordIs DEF Bytes
  <1>2. v \in Nat /\ v < Word
    <2> HIDE DEF B
    <2>1. a * b <= (B - 1) * (B - 1)
      <3>1. a * b <= a * (B - 1)
        BY <1>1
      <3>2. a * (B - 1) <= (B - 1) * (B - 1)
        BY <1>1
      <3>3. a * b \in Int /\ a * (B - 1) \in Int /\ (B - 1) * (B - 1) \in Int
        BY <1>1
      <3> QED BY <3>1, <3>2, <3>3
    <2>2. (B - 1) * (B - 1) < B * B
      BY <1>1
    <2> QED BY <1>1, <2>1, <2>2
  <1> HIDE DEF v, H
  <1>3. Word = 2 * H /\ H \in Nat \ {0} /\ Word \in Nat \ {0}
    BY WordIs DEF H
  <1>4. v % Word = v
    BY <1>2, <1>3
  <1>5. (2 * v) % Word = IF v >= H THEN 2 * v - Word ELSE 2 * v
    BY <1>2, <1>3
  <1> QED BY <1>2, <1>3, <1>4, <1>5 DEF v, H

(* The product of a signed register by an unsigned one, whose C is its sign. *)
LEMMA MixedProduct ==
    ASSUME NEW a \in Bytes, NEW b \in Bytes
    PROVE  LET v == Signed(a) * b
               p == v % Word
               c == IF p >= Byte * Half THEN 1 ELSE 0
           IN /\ v \in Int /\ p \in 0..(Word - 1)
              /\ p - Word * c = v
              /\ (2 * p) % Word \in 0..(Word - 1)
              /\ ((2 * p) % Word) - Word * c = 2 * v
  <1> DEFINE s == Signed(a)
             v == s * b
             p == v % Word
             H == Byte * Half
             h == Half
  <1>1. /\ s \in Int /\ s >= 0 - h /\ s <= h - 1 /\ b \in Nat /\ b <= Byte - 1
        /\ h \in Nat \ {0} /\ Byte \in Nat \ {0}
    BY TopBit, Widths DEF Signed, Bytes
  <1>2. H \in Int /\ H = h * Byte
    BY <1>1
  <1> HIDE DEF s, h, H
  <1>3. v \in Int /\ v > 0 - H /\ v < H
    <2>1. h * b <= h * (Byte - 1) /\ h * (Byte - 1) = H - h /\ h * b \in Int
      BY <1>1, <1>2
    <2>2. s * b <= (h - 1) * b /\ (h - 1) * b = h * b - b
      BY <1>1
    <2>3. s * b >= (0 - h) * b /\ (0 - h) * b = 0 - h * b
      BY <1>1
    <2> DEFINE x == s * b
               y == h * b
    <2>4. x \in Int /\ y \in Int /\ y <= H - h /\ x <= y - b /\ x >= 0 - y
      BY <1>1, <2>1, <2>2, <2>3
    <2> HIDE DEF x, y
    <2>5. x \in Int /\ x > 0 - H /\ x < H
      BY <1>1, <1>2, <2>4
    <2> QED BY <2>5 DEF x
  <1>4. Word = 2 * H /\ H \in Nat \ {0} /\ Word \in Nat \ {0}
    BY WordIs DEF H
  <1> HIDE DEF v
  <1>5. p = IF v >= 0 THEN v ELSE v + Word
    BY <1>3, <1>4
  <1> HIDE DEF p
  <1>6. (2 * p) % Word = IF v >= 0 THEN 2 * v ELSE 2 * v + Word
    BY <1>3, <1>4, <1>5
  <1>7. p >= H <=> v < 0
    BY <1>3, <1>4, <1>5
  <1> DEFINE c == IF p >= H THEN 1 ELSE 0
             f == (2 * p) % Word
  <1>8. p \in 0..(Word - 1) /\ p - Word * c = v
    BY <1>3, <1>4, <1>5, <1>7
  <1>9. f \in 0..(Word - 1) /\ f - Word * c = 2 * v
    BY <1>3, <1>4, <1>6, <1>7
  <1> QED BY <1>3, <1>8, <1>9, Zenon DEF f, c, p, v, s, H

(* Any product, in the high half of a sum, where carries out are lost.  Twice *)
(* a product leaves the lowest bit free.                                    *)
LEMMA HighProduct ==
    ASSUME NEW v \in Int
    PROVE  LET p == v % Word
               f == (2 * p) % Word
           IN /\ p \in 0..(Word - 1) /\ f \in 0..(Word - 1)
              /\ Congruent(Word * p, Word * v) /\ Congruent(Word * f, Word * (2 * v))
              /\ (f % Byte) % 2 = 0
  <1> DEFINE W == Word
             p == v % W
             q == v \div W
             t == 2 * p
             f == t % W
             j == t \div W
  <1>1. W \in Nat \ {0} /\ W = Word
    BY WordIs
  <1> HIDE DEF W
  <1>2. p \in 0..(W - 1) /\ q \in Int /\ v = q * W + p
    BY <1>1, Divided
  <1> HIDE DEF p, q
  <1>3. t \in Int
    BY <1>2
  <1>4. t = 2 * p
    OBVIOUS
  <1> HIDE DEF t
  <1>5. f \in 0..(W - 1) /\ j \in Int /\ t = j * W + f
    BY <1>1, <1>3, Divided
  <1> HIDE DEF f, j
  <1>6. W * p = W * v + (0 - q) * (W * W) /\ 0 - q \in Int
    BY <1>1, <1>2
  <1>7. W * f = W * (2 * v) + (0 - (2 * q + j)) * (W * W) /\ 0 - (2 * q + j) \in Int
    BY <1>1, <1>2, <1>4, <1>5
  <1>8. (f % Byte) % 2 = 0
    <2> DEFINE i == f \div Byte
               e == f % Byte
    <2>1. f \in Int /\ Byte \in Nat \ {0}
      BY <1>5, Widths
    <2>2. i \in Int /\ e \in 0..(Byte - 1) /\ f = i * Byte + e
      BY <2>1, Divided
    <2>3. Byte = 2 * Half /\ Half \in Int /\ W = 2 * (Byte * Half) /\ Byte * Half \in Int
      BY <1>1, Widths, WordIs
    <2> HIDE DEF i, e
    <2>4. e = 2 * (p - j * (Byte * Half) - i * Half)
      <3>1. j * W = 2 * (j * (Byte * Half)) /\ j * (Byte * Half) \in Int
        BY <1>5, <2>3
      <3>2. i * Byte = 2 * (i * Half) /\ i * Half \in Int
        BY <2>2, <2>3
      <3> QED BY <1>2, <1>4, <1>5, <2>2, <3>1, <3>2
    <2>5. p - j * (Byte * Half) - i * Half \in Int
      BY <1>2, <1>5, <2>2, <2>3
    <2>6. PICK n \in Int : e = n * 2 + 0
      BY <2>4, <2>5
    <2>7. 0 \in 0..(2 - 1)
      OBVIOUS
    <2>8. e % 2 = 0
      BY <2>6, <2>7, DivMod
    <2> QED BY <2>8 DEF e
  <1>9. Congruent(W * p, W * v) /\ Congruent(W * f, W * (2 * v))
    BY <1>1, <1>6, <1>7 DEF Congruent
  <1> QED BY <1>1, <1>2, <1>5, <1>8, <1>9 DEF f, t, p

(* One addition of the chain. *)
Added(d, r, c) ==
    /\ PC' = PC + 1 /\ gpwr' \in [0..31 -> Bytes]
    /\ Carry' \in {0, 1} /\ gpwr'[d] + Byte * Carry' = gpwr[d] + gpwr[r] + c
    /\ \A i \in 0..31 : i # d => gpwr'[i] = gpwr[i]

(* ADD and ADC do this. *)
LEMMA AddGoes ==
    ASSUME NEW d \in 20..23, NEW r \in 0..31, NEW c \in {0, 1}, AddsTo(d, gpwr[d], gpwr[r], c),
           Registers(gpwr), PC \in Nat, PC_max \in Nat, PC + 1 < PC_max
    PROVE  Added(d, r, c)
  <1> DEFINE a == gpwr[d]
             b == gpwr[r]
             s == Sum(a, b, c)
             o == CarryOf(a, b, c)
             F == AddFlags(s, a, b) \cup ZeroFlag(s)
  <1>1. gpwr \in [0..31 -> Bytes] /\ a \in Bytes /\ b \in Bytes /\ DOMAIN gpwr = 0..31
    BY DEF Registers
  <1>2. Carry' = o
    BY FlagsAfterAdding
  <1>3. Writes(d, s, Arithmetic, F)
    BY DEF AddsTo
  <1>4. s \in Bytes /\ o \in {0, 1} /\ s + Byte * o = a + b + c
    <2> DEFINE carry == get_add_carry(s, a, b, Half)
    <2>1. s \in Bytes /\ s + (IF carry THEN Byte ELSE 0) = a + b + c
      BY <1>1, SumIs, AddIsExact
    <2>2. o = IF carry THEN 1 ELSE 0
      BY DEF CarryOf
    <2> HIDE DEF s, o, carry
    <2> QED BY <2>1, <2>2, Widths DEF Bytes
  <1> HIDE DEF s, o, F
  <1>5. PC' = PC + 1 /\ gpwr' = [gpwr EXCEPT ![d] = s]
    BY <1>3 DEF Writes, Advances, AdjustPC
  <1>6. /\ gpwr' \in [0..31 -> Bytes] /\ gpwr'[d] = s
        /\ \A i \in 0..31 : i # d => gpwr'[i] = gpwr[i]
    BY <1>1, <1>4, <1>5
  <1> QED BY <1>2, <1>4, <1>5, <1>6 DEF a, b, Added

(* SBC of zero takes only the carry away: the subtraction of a sign. *)
LEMMA SignGoes ==
    ASSUME [Next]_vars, ~Paused, ProgramWord(PC) = Reg2("SBC", 23, 2), gpwr[2] = 0,
           Registers(gpwr), PC \in Nat, PC_max \in Nat, PC + 1 < PC_max
    PROVE  /\ PC' = PC + 1 /\ gpwr' \in [0..31 -> Bytes]
           /\ Carry' \in {0, 1} /\ gpwr'[23] - Byte * Carry' = gpwr[23] - Carry
           /\ \A i \in 0..31 : i # 23 => gpwr'[i] = gpwr[i]
  <1> DEFINE a == gpwr[23]
             c == Carry
             s == Diff(a, 0, c)
             o == BorrowOf(a, 0, c)
             F == SubFlags(s, a, 0) \cup ChainedZero(s)
  <1>1. gpwr \in [0..31 -> Bytes] /\ a \in Bytes /\ 0 \in Bytes /\ c \in {0, 1}
    BY Widths DEF Registers, Bytes, Carry
  <1>2. ChainsTo(23, a, 0)
    <2>1. ChainsTo(23, gpwr[23], gpwr[2])
      BY SubtractionsRun
    <2> QED BY <2>1
  <1>3. Carry' = o
    BY <1>2, FlagsAfterChaining
  <1>4. Writes(23, s, Arithmetic, F)
    BY <1>2 DEF ChainsTo
  <1> HIDE DEF c
  <1>5. s \in Bytes /\ o \in {0, 1} /\ s - Byte * o = a - c
    <2> DEFINE borrow == get_sub_carry(s, a, 0, Half)
    <2>1. s \in Bytes /\ s - (IF borrow THEN Byte ELSE 0) = a - 0 - c
      BY <1>1, DiffIs, SubIsExact
    <2>2. o = IF borrow THEN 1 ELSE 0
      BY DEF BorrowOf
    <2> HIDE DEF s, o, borrow, a
    <2> QED BY <1>1, <2>1, <2>2, Widths DEF Bytes
  <1> HIDE DEF s, o, F
  <1>6. PC' = PC + 1 /\ gpwr' = [gpwr EXCEPT ![23] = s]
    BY <1>4 DEF Writes, Advances, AdjustPC
  <1>7. /\ gpwr' \in [0..31 -> Bytes] /\ gpwr'[23] = s
        /\ \A i \in 0..31 : i # 23 => gpwr'[i] = gpwr[i]
    BY <1>1, <1>5, <1>6
  <1> QED BY <1>3, <1>5, <1>6, <1>7 DEF a, c

(* The three additions that put a product in the middle of the sum begin at  *)
(* address a: what is still to be added, after each.                        *)
BlockAt(a, regs, c, pc, v) ==
    /\ pc = a     => Congruent(Value(regs) + Byte * PairOf(regs, 0), v)
    /\ pc = a + 1 => Congruent(Value(regs) + Word * c + Word * regs[1], v)
    /\ pc = a + 2 => Congruent(Value(regs) + (Byte * Word) * c, v)
    /\ pc = a + 3 => Congruent(Value(regs), v)

(* The value of registers is a number. *)
LEMMA ValueTyped ==
    ASSUME NEW regs \in [0..31 -> Bytes]
    PROVE  /\ Value(regs) \in 0..(Word * Word - 1) /\ Value(regs) \in Int
           /\ PairOf(regs, 0) \in 0..(Word - 1) /\ PairOf(regs, 0) \in Int
           /\ PairOf(regs, 22) \in 0..(Word - 1) /\ PairOf(regs, 22) \in Int
  <1>1. /\ regs[0] \in Bytes /\ regs[1] \in Bytes /\ regs[20] \in Bytes
        /\ regs[21] \in Bytes /\ regs[22] \in Bytes /\ regs[23] \in Bytes
    OBVIOUS
  <1> DEFINE l == PairOf(regs, 20)
             h == PairOf(regs, 22)
             W == Word
  <1>2. l \in 0..(W - 1) /\ h \in 0..(W - 1) /\ PairOf(regs, 0) \in 0..(W - 1)
    BY <1>1, TwoDigits DEF PairOf
  <1>3. W \in Nat \ {0}
    BY WordIs
  <1>4. Value(regs) = l + W * h
    BY DEF Value
  <1> HIDE DEF l, h, W
  <1>5. W * h <= W * (W - 1) /\ W * h \in Nat /\ W * (W - 1) = W * W - W /\ W * W \in Int
    BY <1>2, <1>3
  <1>6. l + W * h \in 0..(W * W - 1)
    BY <1>2, <1>3, <1>5
  <1>7. Value(regs) \in 0..(W * W - 1) /\ Value(regs) \in Int
    BY <1>4, <1>5, <1>6
  <1> QED BY <1>2, <1>3, <1>7 DEF W, h

(* A change of R1 and R0 leaves the sum alone. *)
LEMMA SumStays ==
    ASSUME NEW f, NEW g, \A r \in 2..31 : g[r] = f[r]
    PROVE  Value(g) = Value(f) /\ PairOf(g, 22) = PairOf(f, 22)
  <1>1. g[20] = f[20] /\ g[21] = f[21] /\ g[22] = f[22] /\ g[23] = f[23]
    OBVIOUS
  <1> QED BY <1>1 DEF Value, PairOf

(* The factors stay in their registers. *)
LEMMA FactorsStay ==
    ASSUME Registers(gpwr), [Next]_vars, gpwr' \in [0..31 -> Bytes],
           \A i \in 16..19 : gpwr'[i] = gpwr[i]
    PROVE  Registers(gpwr)'
  <1>1. XL' = XL /\ XH' = XH /\ YL' = YL /\ YH' = YH
    BY SameRun DEF XL, XH, YL, YH, X, Y
  <1>2. gpwr'[16] = XL /\ gpwr'[17] = XH /\ gpwr'[18] = YL /\ gpwr'[19] = YH
    BY DEF Registers
  <1> QED BY <1>1, <1>2 DEF Registers

(* Each keeps it. *)
LEMMA BlockRuns ==
    ASSUME NEW a \in Nat, NEW v \in Int, [Next]_vars, ~Paused, PC \in a..(a + 2),
           ProgramWord(a) = Reg2("ADD", 21, 0), ProgramWord(a + 1) = Reg2("ADC", 22, 1),
           ProgramWord(a + 2) = Reg2("ADC", 23, 2), gpwr[2] = 0,
           Registers(gpwr), PC_max \in Nat, a + 3 < PC_max,
           BlockAt(a, gpwr, Carry, PC, v)
    PROVE  /\ PC' = PC + 1 /\ Registers(gpwr)' /\ gpwr'[2] = 0
           /\ BlockAt(a, gpwr', Carry', PC', v)
  <1>1. gpwr \in [0..31 -> Bytes]
    BY DEF Registers
  <1>2. PICK c \in {0, 1} : c = Carry
    BY DEF Carry
  <1>3. PC \in Nat /\ PC + 1 < PC_max
    OBVIOUS
  <1>4. CASE PC = a
    <2>1. PICK z \in {0, 1} : z = 0
      OBVIOUS
    <2>2. AddsTo(21, gpwr[21], gpwr[0], z)
      BY <1>4, <2>1, AdditionsRun
    <2>3. /\ PC' = PC + 1 /\ gpwr' \in [0..31 -> Bytes]
          /\ Carry' \in {0, 1} /\ gpwr'[21] + Byte * Carry' = gpwr[21] + gpwr[0] + 0
          /\ \A i \in 0..31 : i # 21 => gpwr'[i] = gpwr[i]
      <3>1. /\ PC' = PC + 1 /\ gpwr' \in [0..31 -> Bytes]
            /\ Carry' \in {0, 1} /\ gpwr'[21] + Byte * Carry' = gpwr[21] + gpwr[0] + z
            /\ \A i \in 0..31 : i # 21 => gpwr'[i] = gpwr[i]
        <4>1. Added(21, 0, z)
          BY <1>3, <2>2, AddGoes
        <4> QED BY <4>1 DEF Added
      <3> QED BY <2>1, <3>1
    <2>4. Value(gpwr') + Word * Carry' + Word * gpwr'[1] = Value(gpwr) + Byte * PairOf(gpwr, 0)
      BY <1>1, <2>3, LowAdded
    <2>5. Congruent(Value(gpwr') + Word * Carry' + Word * gpwr'[1], v)
      BY <1>4, <2>4 DEF BlockAt
    <2>6. PC' = a + 1
      BY <1>4, <2>3
    <2>7. Registers(gpwr)' /\ gpwr'[2] = 0
      BY <2>3, FactorsStay
    <2> QED BY <2>3, <2>5, <2>6, <2>7 DEF BlockAt
  <1>5. CASE PC = a + 1
    <2>1. AddsTo(22, gpwr[22], gpwr[1], c)
      BY <1>2, <1>5, AdditionsRun
    <2>2. /\ PC' = PC + 1 /\ gpwr' \in [0..31 -> Bytes]
          /\ Carry' \in {0, 1} /\ gpwr'[22] + Byte * Carry' = gpwr[22] + gpwr[1] + c
          /\ \A i \in 0..31 : i # 22 => gpwr'[i] = gpwr[i]
      <3>1. Added(22, 1, c)
        BY <1>3, <2>1, AddGoes
      <3> QED BY <3>1 DEF Added
    <2>3. Value(gpwr') + (Byte * Word) * Carry' = Value(gpwr) + Word * c + Word * gpwr[1]
      BY <1>1, <2>2, MiddleAdded
    <2>4. Congruent(Value(gpwr') + (Byte * Word) * Carry', v)
      BY <1>2, <1>5, <2>3 DEF BlockAt
    <2>5. PC' = a + 2
      BY <1>5, <2>2
    <2>6. Registers(gpwr)' /\ gpwr'[2] = 0
      BY <2>2, FactorsStay
    <2> QED BY <2>2, <2>4, <2>5, <2>6 DEF BlockAt
  <1>6. CASE PC = a + 2
    <2>1. AddsTo(23, gpwr[23], gpwr[2], c)
      BY <1>2, <1>6, AdditionsRun
    <2>2. /\ PC' = PC + 1 /\ gpwr' \in [0..31 -> Bytes]
          /\ Carry' \in {0, 1} /\ gpwr'[23] + Byte * Carry' = gpwr[23] + gpwr[2] + c
          /\ \A i \in 0..31 : i # 23 => gpwr'[i] = gpwr[i]
      <3>1. Added(23, 2, c)
        BY <1>3, <2>1, AddGoes
      <3> QED BY <3>1 DEF Added
    <2>3. gpwr'[23] + Byte * Carry' = gpwr[23] + c
      <3>1. gpwr[23] \in Int
        BY <1>1, Widths DEF Bytes
      <3> QED BY <2>2, <3>1
    <2>4. Value(gpwr') + (Word * Word) * Carry' = Value(gpwr) + (Byte * Word) * c
      BY <1>1, <2>2, <2>3, HighAdded
    <2>5. Congruent(Value(gpwr') + (Word * Word) * Carry', v)
      BY <1>2, <1>6, <2>4 DEF BlockAt
    <2>6. Congruent(Value(gpwr'), v)
      <3>1. Value(gpwr') \in Int /\ Carry' \in Int
        BY <2>2, ValueTyped
      <3> QED BY <2>5, <3>1, CongruentSums
    <2>7. PC' = a + 3
      BY <1>6, <2>2
    <2>8. Registers(gpwr)' /\ gpwr'[2] = 0
      BY <2>2, FactorsStay
    <2> QED BY <2>2, <2>6, <2>7, <2>8 DEF BlockAt
  <1> QED BY <1>4, <1>5, <1>6


(* EOR of R2 with itself: the zero that carries are added to. *)
LEMMA ZeroMade ==
    ASSUME [Next]_vars, ~Paused, ProgramWord(PC) = Reg2("EOR", 2, 2),
           Registers(gpwr), PC \in Nat, PC_max \in Nat, PC + 1 < PC_max
    PROVE  /\ PC' = PC + 1 /\ gpwr' \in [0..31 -> Bytes] /\ gpwr'[2] = 0
           /\ \A r \in 0..31 : r # 2 => gpwr'[r] = gpwr[r]
  <1>1. LogicTo(2, Xor(gpwr[2], gpwr[2]))
    BY LogicRuns
  <1>2. LogicTo(2, 0)
    BY <1>1, XorClears
  <1>3. gpwr \in [0..31 -> Bytes] /\ 0 \in Bytes
    BY NoBits DEF Registers
  <1> DEFINE F == LogicFlags(0) \cup ZeroFlag(0)
  <1>4. Writes(2, 0, Logic, F)
    BY <1>2 DEF LogicTo
  <1> HIDE DEF F
  <1>5. gpwr' = [gpwr EXCEPT ![2] = 0] /\ PC' = PC + 1
    BY <1>4 DEF Writes, Advances, AdjustPC
  <1> QED BY <1>3, <1>5

(* A product that goes to the middle of the sum, still in R1:R0. *)
LEMMA MiddleProduct ==
    ASSUME NEW f \in [0..31 -> Bytes], NEW g \in [0..31 -> Bytes], NEW v \in Int, NEW m \in Int,
           \A r \in 2..31 : g[r] = f[r], PairOf(g, 0) = m, Congruent(Value(f), v)
    PROVE  Congruent(Value(g) + Byte * PairOf(g, 0), v + Byte * m)
  <1>1. Value(g) = Value(f) /\ Value(f) \in Int /\ Byte * m \in Int
    BY SumStays, ValueTyped, Widths
  <1>2. Congruent(Value(f) + Byte * m, v + Byte * m)
    BY <1>1, CongruentSums
  <1> QED BY <1>1, <1>2

(* One that is negative, whose sign is in the carry and is taken away from   *)
(* the highest register.                                                    *)
LEMMA SignTaken ==
    ASSUME NEW f \in [0..31 -> Bytes], NEW g \in [0..31 -> Bytes], NEW v \in Int, NEW m \in Int,
           NEW c \in {0, 1}, NEW o \in {0, 1}, g[23] - Byte * o = f[23] - c,
           \A i \in 0..31 : i # 23 => g[i] = f[i],
           PairOf(f, 0) - Word * c = m, Congruent(Value(f), v)
    PROVE  Congruent(Value(g) + Byte * PairOf(g, 0), v + Byte * m)
  <1>1. PICK j \in -1..1 : j = 0 - o
    OBVIOUS
  <1>2. PICK i \in -1..1 : i = 0 - c
    OBVIOUS
  <1> DEFINE B == Byte
             W == Word
             T == W * W
             x == Value(f)
             y == Value(g)
             p == PairOf(f, 0)
  <1>3. /\ B \in Int /\ W \in Int /\ T \in Int /\ x \in Int /\ y \in Int /\ p \in Int
        /\ f[23] \in Int /\ g[23] \in Int
    BY ValueTyped, Widths, WordIs DEF Bytes
  <1>4. g[23] + B * j = f[23] + i
    BY <1>1, <1>2, <1>3
  <1>5. y + T * j = x + (B * W) * i
    BY <1>4, HighAdded
  <1>6. PairOf(g, 0) = p
    BY DEF PairOf
  <1>7. m = p + W * i
    BY <1>2, <1>3
  <1> HIDE DEF B, W, T, x, y, p
  <1>8. x + B * m = (y + B * p) + T * j
    BY <1>3, <1>5, <1>7
  <1>9. Congruent(x + B * m, v + B * m)
    BY <1>3, CongruentSums DEF x
  <1>10. Congruent((y + B * p) + T * j, v + B * m)
    BY <1>8, <1>9
  <1>11. Congruent(y + B * p, v + B * m)
    <2>1. y + B * p \in Int /\ v + B * m \in Int /\ j \in Int
      BY <1>3
    <2> QED BY <1>10, <2>1, CongruentSums DEF T, W
  <1> QED BY <1>6, <1>11 DEF y, B

(* The low product joins the high one. *)
LEMMA LowProduct ==
    ASSUME NEW f \in [0..31 -> Bytes], NEW g \in [0..31 -> Bytes], NEW v \in Int,
           PairOf(g, 20) = PairOf(f, 0),
           \A r \in 0..31 : r # 20 /\ r # 20 + 1 => g[r] = f[r],
           Congruent(PairOf(f, 0) + Word * PairOf(f, 22), v)
    PROVE  Congruent(Value(g), v)
  <1>1. PairOf(g, 22) = PairOf(f, 22)
    BY DEF PairOf
  <1> QED BY <1>1 DEF Value


(* The first product is that of the high digits, moved to the high half of   *)
(* the sum, the second that of the low ones: with what is still missing they *)
(* are v, at the addresses up to 5.                                         *)
Opens(pc, regs, ll, v) ==
    /\ pc >= 1 => regs[2] = 0
    /\ pc = 2 => Congruent(ll + Word * PairOf(regs, 0), v)
    /\ pc = 3 => Congruent(ll + Word * PairOf(regs, 22), v)
    /\ pc = 4 => Congruent(PairOf(regs, 0) + Word * PairOf(regs, 22), v)
    /\ pc = 5 => Congruent(Value(regs), v)

(* A multiplication of the high digits, signed or not. *)
HighTo(v) == \E p \in 0..(Word - 1), res \in 0..(Word - 1) :
                MultipliesTo(p, res) /\ Congruent(Word * res, Word * v)

(* After it the product is in R1:R0. *)
LEMMA HighGoes ==
    ASSUME NEW v \in Int, NEW l \in Int, HighTo(v),
           Registers(gpwr), PC \in Nat, PC_max \in Nat, PC + 1 < PC_max
    PROVE  /\ PC' = PC + 1 /\ gpwr' \in [0..31 -> Bytes]
           /\ \A r \in 2..31 : gpwr'[r] = gpwr[r]
           /\ Congruent(l + Word * PairOf(gpwr', 0), l + Word * v)
  <1>1. PICK p \in 0..(Word - 1), res \in 0..(Word - 1) :
             MultipliesTo(p, res) /\ Congruent(Word * res, Word * v)
    BY DEF HighTo
  <1>2. /\ PC' = PC + 1 /\ gpwr' \in [0..31 -> Bytes] /\ PairOf(gpwr', 0) = res
        /\ \A r \in 2..31 : gpwr'[r] = gpwr[r]
    BY <1>1, ProductGoes
  <1> DEFINE x == Word * res
             y == Word * v
  <1>3. x \in Int /\ y \in Int
    BY WordIs
  <1>4. Congruent(x, y)
    BY <1>1
  <1>5. x = Word * PairOf(gpwr', 0)
    BY <1>2
  <1> HIDE DEF x, y
  <1>6. Congruent(x + l, y + l)
    BY <1>3, <1>4, CongruentSums
  <1>7. x + l = l + x /\ y + l = l + y
    BY <1>3
  <1> QED BY <1>2, <1>5, <1>6, <1>7 DEF y

(* Each step of the opening keeps it. *)
LEMMA OpensRuns ==
    ASSUME NEW hh \in Int, NEW ll \in Int, ll = XL * YL, [Next]_vars, ~Paused,
           PC \in 0..4, ProgramWord(0) = Reg2("EOR", 2, 2), PC = 1 => HighTo(hh),
           ProgramWord(2) = Reg2("MOVW", 22, 0), ProgramWord(3) = Reg2("MUL", 16, 18),
           ProgramWord(4) = Reg2("MOVW", 20, 0), PC_max \in Nat, PC_max > 5,
           Registers(gpwr), Opens(PC, gpwr, ll, ll + Word * hh)
    PROVE  PC' = PC + 1 /\ Registers(gpwr)' /\ Opens(PC', gpwr', ll, ll + Word * hh)
  <1>1. PC \in Nat /\ PC + 1 < PC_max /\ gpwr \in [0..31 -> Bytes]
    BY DEF Registers
  <1>2. PICK v \in Int : v = ll + Word * hh
    BY WordIs
  <1>3. Opens(PC, gpwr, ll, v)
    BY <1>2
  <1>4. CASE PC = 0
    <2>1. /\ PC' = PC + 1 /\ gpwr' \in [0..31 -> Bytes] /\ gpwr'[2] = 0
          /\ \A r \in 0..31 : r # 2 => gpwr'[r] = gpwr[r]
      BY <1>1, <1>4, ZeroMade
    <2>2. Registers(gpwr)'
      BY <2>1, FactorsStay
    <2> QED BY <1>4, <2>1, <2>2 DEF Opens
  <1>5. CASE PC = 1
    <2>1. /\ PC' = PC + 1 /\ gpwr' \in [0..31 -> Bytes]
          /\ \A r \in 2..31 : gpwr'[r] = gpwr[r]
          /\ Congruent(ll + Word * PairOf(gpwr', 0), ll + Word * hh)
      BY <1>1, <1>5, HighGoes
    <2>2. Registers(gpwr)'
      BY <2>1, FactorsStay
    <2> QED BY <1>5, <2>1, <2>2 DEF Opens
  <1>6. CASE PC = 2
    <2>1. /\ PC' = PC + 1 /\ gpwr' \in [0..31 -> Bytes]
          /\ PairOf(gpwr', 22) = PairOf(gpwr, 0)
          /\ \A r \in 0..31 : r # 22 /\ r # 22 + 1 => gpwr'[r] = gpwr[r]
      BY <1>1, <1>6, PairMoved
    <2>2. Registers(gpwr)'
      BY <2>1, FactorsStay
    <2> QED BY <1>6, <2>1, <2>2 DEF Opens
  <1>7. CASE PC = 3
    <2>1. gpwr[16] = XL /\ gpwr[18] = YL /\ XL \in Bytes /\ YL \in Bytes
      BY <1>1 DEF Registers
    <2>2. ll \in 0..(Word - 1) /\ ll % Word = ll
      BY <2>1, UnsignedProduct
    <2>3. MultipliesTo(ll, ll)
      BY <1>7, <2>1, <2>2, ProductsRun DEF ProductTo
    <2>4. /\ PC' = PC + 1 /\ gpwr' \in [0..31 -> Bytes] /\ PairOf(gpwr', 0) = ll
          /\ \A r \in 2..31 : gpwr'[r] = gpwr[r]
      BY <1>1, <2>2, <2>3, ProductGoes
    <2>5. Registers(gpwr)'
      BY <2>4, FactorsStay
    <2>6. PairOf(gpwr', 22) = PairOf(gpwr, 22)
      BY <2>4, SumStays
    <2> QED BY <1>7, <2>4, <2>5, <2>6 DEF Opens
  <1>8. CASE PC = 4
    <2>1. /\ PC' = PC + 1 /\ gpwr' \in [0..31 -> Bytes]
          /\ PairOf(gpwr', 20) = PairOf(gpwr, 0)
          /\ \A r \in 0..31 : r # 20 /\ r # 20 + 1 => gpwr'[r] = gpwr[r]
      BY <1>1, <1>8, PairMoved
    <2>2. Registers(gpwr)'
      BY <2>1, FactorsStay
    <2>3. Congruent(PairOf(gpwr, 0) + Word * PairOf(gpwr, 22), v)
      BY <1>3, <1>8 DEF Opens
    <2>4. Congruent(Value(gpwr'), v)
      BY <1>1, <2>1, <2>3, LowProduct
    <2> QED BY <1>2, <1>8, <2>1, <2>2, <2>4 DEF Opens
  <1> QED BY <1>4, <1>5, <1>6, <1>7, <1>8

(* A product with a sign is subtracted from the highest register before it   *)
(* is added to the middle of the sum.                                       *)
SignedAt(a, regs, c, pc, v, m) ==
    /\ pc = a => Congruent(Value(regs), v) /\ PairOf(regs, 0) - Word * c = m
    /\ BlockAt(a + 1, regs, c, pc, v + Byte * m)

(* Each step of it keeps this. *)
LEMMA SignedRuns ==
    ASSUME NEW a \in Nat, NEW v \in Int, NEW m \in Int, [Next]_vars, ~Paused, PC \in a..(a + 3),
           ProgramWord(a) = Reg2("SBC", 23, 2), ProgramWord(a + 1) = Reg2("ADD", 21, 0),
           ProgramWord(a + 2) = Reg2("ADC", 22, 1), ProgramWord(a + 3) = Reg2("ADC", 23, 2),
           gpwr[2] = 0, Registers(gpwr), PC_max \in Nat, a + 4 < PC_max,
           SignedAt(a, gpwr, Carry, PC, v, m)
    PROVE  /\ PC' = PC + 1 /\ Registers(gpwr)' /\ gpwr'[2] = 0
           /\ SignedAt(a, gpwr', Carry', PC', v, m)
  <1>1. gpwr \in [0..31 -> Bytes]
    BY DEF Registers
  <1>2. CASE PC = a
    <2>1. /\ PC' = PC + 1 /\ gpwr' \in [0..31 -> Bytes]
          /\ Carry' \in {0, 1} /\ gpwr'[23] - Byte * Carry' = gpwr[23] - Carry
          /\ \A i \in 0..31 : i # 23 => gpwr'[i] = gpwr[i]
      <3>1. PC \in Nat /\ PC + 1 < PC_max /\ ProgramWord(PC) = Reg2("SBC", 23, 2)
        BY <1>2
      <3> QED BY <3>1, SignGoes
    <2>2. PICK c \in {0, 1} : c = Carry
      BY DEF Carry
    <2>3. PICK o \in {0, 1} : o = Carry'
      BY <2>1
    <2>4. gpwr'[23] - Byte * o = gpwr[23] - c
      BY <2>1, <2>2, <2>3
    <2>5. Congruent(Value(gpwr), v) /\ PairOf(gpwr, 0) - Word * c = m
      BY <1>2, <2>2 DEF SignedAt
    <2>6. Congruent(Value(gpwr') + Byte * PairOf(gpwr', 0), v + Byte * m)
      BY <1>1, <2>1, <2>4, <2>5, SignTaken
    <2>7. Registers(gpwr)' /\ gpwr'[2] = 0
      BY <2>1, FactorsStay
    <2>8. PC' = a + 1
      BY <1>2, <2>1
    <2> QED BY <2>1, <2>6, <2>7, <2>8 DEF SignedAt, BlockAt
  <1>3. CASE PC \in (a + 1)..(a + 3)
    <2>1. PICK b \in Nat : b = a + 1
      OBVIOUS
    <2>2. PICK w \in Int : w = v + Byte * m
      BY Widths
    <2>3. /\ PC \in b..(b + 2) /\ b + 3 < PC_max
          /\ ProgramWord(b) = Reg2("ADD", 21, 0) /\ ProgramWord(b + 1) = Reg2("ADC", 22, 1)
          /\ ProgramWord(b + 2) = Reg2("ADC", 23, 2)
      <3>1. b + 1 = a + 2 /\ b + 2 = a + 3 /\ b + 3 = a + 4
        BY <2>1
      <3> QED BY <1>3, <2>1, <3>1
    <2>4. BlockAt(b, gpwr, Carry, PC, w)
      BY <2>1, <2>2 DEF SignedAt
    <2>5. /\ PC' = PC + 1 /\ Registers(gpwr)' /\ gpwr'[2] = 0
          /\ BlockAt(b, gpwr', Carry', PC', w)
      BY <2>3, <2>4, BlockRuns
    <2>6. PC' # a
      BY <1>3, <2>5
    <2> QED BY <2>1, <2>2, <2>5, <2>6 DEF SignedAt
  <1> QED BY <1>2, <1>3


(* A multiplication of the high digits gives their product, up to a carry    *)
(* out of the highest register.                                             *)
LEMMA HighMultiplied ==
    ASSUME NEW v \in Int, ProductTo(v)
    PROVE  HighTo(v)
  <1> DEFINE p == v % Word
  <1>1. p \in 0..(Word - 1) /\ Congruent(Word * p, Word * v) /\ MultipliesTo(p, p)
    BY HighProduct DEF ProductTo
  <1> QED BY <1>1 DEF HighTo

(* A product for the middle of the sum, without signs. *)
LEMMA MiddleGoes ==
    ASSUME NEW d \in 16..19, NEW r \in 16..19, NEW v \in Int, NEW m \in Int,
           m = gpwr[d] * gpwr[r], [Next]_vars, ~Paused, ProgramWord(PC) = Reg2("MUL", d, r),
           Registers(gpwr), PC \in Nat, PC_max \in Nat, PC + 1 < PC_max,
           Congruent(Value(gpwr), v)
    PROVE  /\ PC' = PC + 1 /\ Registers(gpwr)' /\ gpwr'[2] = gpwr[2]
           /\ Congruent(Value(gpwr') + Byte * PairOf(gpwr', 0), v + Byte * m)
  <1>1. gpwr \in [0..31 -> Bytes] /\ gpwr[d] \in Bytes /\ gpwr[r] \in Bytes
    BY DEF Registers
  <1>2. m \in 0..(Word - 1) /\ m % Word = m
    BY <1>1, UnsignedProduct
  <1>3. MultipliesTo(m, m)
    BY <1>2, ProductsRun DEF ProductTo
  <1>4. /\ PC' = PC + 1 /\ gpwr' \in [0..31 -> Bytes] /\ PairOf(gpwr', 0) = m
        /\ \A i \in 2..31 : gpwr'[i] = gpwr[i]
    BY <1>2, <1>3, ProductGoes
  <1>5. Registers(gpwr)'
    BY <1>4, FactorsStay
  <1>6. Congruent(Value(gpwr') + Byte * PairOf(gpwr', 0), v + Byte * m)
    BY <1>1, <1>4, MiddleProduct
  <1> QED BY <1>4, <1>5, <1>6

(* One of a signed digit by an unsigned one, and twice that. *)
LEMMA MixedGoes ==
    ASSUME NEW d \in 16..19, NEW r \in 16..19, NEW v \in Int, NEW m \in Int,
           [Next]_vars, ~Paused,
           \/ ProgramWord(PC) = Reg2("MULSU", d, r) /\ m = Signed(gpwr[d]) * gpwr[r]
           \/ ProgramWord(PC) = Reg2("FMULSU", d, r) /\ m = 2 * (Signed(gpwr[d]) * gpwr[r]),
           Registers(gpwr), PC \in Nat, PC_max \in Nat, PC + 1 < PC_max,
           Congruent(Value(gpwr), v)
    PROVE  /\ PC' = PC + 1 /\ Registers(gpwr)' /\ gpwr'[2] = gpwr[2]
           /\ Congruent(Value(gpwr'), v) /\ PairOf(gpwr', 0) - Word * Carry' = m
  <1>1. gpwr \in [0..31 -> Bytes] /\ gpwr[d] \in Bytes /\ gpwr[r] \in Bytes
    BY DEF Registers
  <1> DEFINE u == Signed(gpwr[d]) * gpwr[r]
             p == u % Word
             f == (2 * p) % Word
             c == IF p >= Byte * Half THEN 1 ELSE 0
  <1>2. /\ p \in 0..(Word - 1) /\ p - Word * c = u
        /\ f \in 0..(Word - 1) /\ f - Word * c = 2 * u
    BY <1>1, MixedProduct
  <1>3. \/ MultipliesTo(p, p) /\ m = u
        \/ MultipliesTo(p, f) /\ m = 2 * u
    BY ProductsRun DEF ProductTo, FractionTo
  <1> HIDE DEF u, p, f
  <1>4. PICK res \in 0..(Word - 1) : MultipliesTo(p, res) /\ res - Word * c = m
    BY <1>2, <1>3
  <1>5. /\ PC' = PC + 1 /\ gpwr' \in [0..31 -> Bytes] /\ PairOf(gpwr', 0) = res
        /\ \A i \in 2..31 : gpwr'[i] = gpwr[i]
        /\ Carry' = c
    BY <1>2, <1>4, ProductGoes
  <1>6. Registers(gpwr)'
    BY <1>5, FactorsStay
  <1>7. Congruent(Value(gpwr'), v)
    BY <1>5, SumStays
  <1> HIDE DEF c
  <1> QED BY <1>4, <1>5, <1>6, <1>7

(* mul: what has been added up at each address, of the four products. *)
MulSum ==
    routine = "mul" =>
      LET ll == XL * YL
          v  == ll + Word * (XH * YH)
          w  == v + Byte * (XH * YL)
      IN /\ PC \in 0..13 /\ Registers(gpwr) /\ (PC >= 1 => gpwr[2] = 0)
         /\ Opens(PC, gpwr, ll, v)
         /\ BlockAt(6, gpwr, Carry, PC, w)
         /\ BlockAt(10, gpwr, Carry, PC, w + Byte * (YH * XL))

(* The digits are numbers. *)
LEMMA FactorsAre ==
    ASSUME Registers(gpwr)
    PROVE  /\ gpwr[16] = XL /\ gpwr[17] = XH /\ gpwr[18] = YL /\ gpwr[19] = YH
           /\ XL \in Bytes /\ XH \in Bytes /\ YL \in Bytes /\ YH \in Bytes
           /\ XL \in Int /\ XH \in Int /\ YL \in Int /\ YH \in Int
           /\ Signed(XH) \in Int /\ Signed(YH) \in Int
  <1>1. /\ gpwr[16] = XL /\ gpwr[17] = XH /\ gpwr[18] = YL /\ gpwr[19] = YH
        /\ XL \in Bytes /\ XH \in Bytes /\ YL \in Bytes /\ YH \in Bytes
    BY DEF Registers
  <1> QED BY <1>1, Widths DEF Bytes, Signed

(* Every step of mul keeps it. *)
LEMMA MulSums ==
    ASSUME MulSum, [Next]_vars
    PROVE  MulSum'
  <1> SUFFICES ASSUME routine = "mul" PROVE MulSum'
    BY SameRun DEF MulSum
  <1>1. /\ ProgramWord(0) = Reg2("EOR", 2, 2) /\ ProgramWord(1) = Reg2("MUL", 17, 19)
        /\ ProgramWord(2) = Reg2("MOVW", 22, 0) /\ ProgramWord(3) = Reg2("MUL", 16, 18)
        /\ ProgramWord(4) = Reg2("MOVW", 20, 0) /\ ProgramWord(5) = Reg2("MUL", 17, 18)
        /\ ProgramWord(6) = Reg2("ADD", 21, 0) /\ ProgramWord(7) = Reg2("ADC", 22, 1)
        /\ ProgramWord(8) = Reg2("ADC", 23, 2) /\ ProgramWord(9) = Reg2("MUL", 19, 16)
        /\ ProgramWord(10) = Reg2("ADD", 21, 0) /\ ProgramWord(11) = Reg2("ADC", 22, 1)
        /\ ProgramWord(12) = Reg2("ADC", 23, 2) /\ ProgramWord(13) = RET /\ PC_max = 14
    BY Program DEF Routines, PC_max, ProgramWord
  <1>2. Registers(gpwr) /\ PC \in 0..13 /\ (PC >= 1 => gpwr[2] = 0)
    BY DEF MulSum
  <1>3. /\ XL' = XL /\ XH' = XH /\ YL' = YL /\ YH' = YH /\ routine' = routine
    BY SameRun DEF XL, XH, YL, YH, X, Y
  <1>4. PICK ll \in Int : ll = XL * YL
    BY <1>2, FactorsAre
  <1>5. PICK hh \in Int : hh = XH * YH
    BY <1>2, FactorsAre
  <1>6. PICK hl \in Int : hl = XH * YL
    BY <1>2, FactorsAre
  <1>7. PICK lh \in Int : lh = YH * XL
    BY <1>2, FactorsAre
  <1>8. PICK v \in Int : v = ll + Word * hh
    BY WordIs
  <1>9. PICK w \in Int : w = v + Byte * hl
    BY Widths
  <1>10. PICK x \in Int : x = w + Byte * lh
    BY Widths
  <1>11. Opens(PC, gpwr, ll, v) /\ BlockAt(6, gpwr, Carry, PC, w) /\ BlockAt(10, gpwr, Carry, PC, x)
    BY <1>4, <1>5, <1>6, <1>7, <1>8, <1>9, <1>10 DEF MulSum
  <1>12. ASSUME PC' \in 0..13, Registers(gpwr)', PC' >= 1 => gpwr'[2] = 0,
                Opens(PC', gpwr', ll, v), BlockAt(6, gpwr', Carry', PC', w),
                BlockAt(10, gpwr', Carry', PC', x)
         PROVE  MulSum'
    BY <1>3, <1>4, <1>5, <1>6, <1>7, <1>8, <1>9, <1>10, <1>12 DEF MulSum
  <1>13. CASE Paused
    <2>1. PC' = PC /\ gpwr' = gpwr /\ Carry' = Carry
      BY <1>13 DEF Paused, Carry
    <2>2. Registers(gpwr)'
      BY <1>2, <2>1, FactorsStay DEF Registers
    <2> QED BY <1>2, <1>11, <1>12, <2>1, <2>2
  <1>14. CASE ~Paused /\ PC \in 0..4
    <2>1. PC = 1 => HighTo(hh)
      BY <1>1, <1>2, <1>5, <1>14, ProductsRun, FactorsAre, HighMultiplied
    <2>2. PC' = PC + 1 /\ Registers(gpwr)' /\ Opens(PC', gpwr', ll, v)
      BY <1>1, <1>2, <1>4, <1>8, <1>11, <1>14, <2>1, OpensRuns
    <2> QED BY <1>12, <1>14, <2>2 DEF Opens, BlockAt
  <1>15. CASE ~Paused /\ PC = 5
    <2>1. Congruent(Value(gpwr), v)
      BY <1>11, <1>15 DEF Opens
    <2>2. hl = gpwr[17] * gpwr[18]
      BY <1>2, <1>6, FactorsAre
    <2>3. /\ PC' = PC + 1 /\ Registers(gpwr)' /\ gpwr'[2] = gpwr[2]
          /\ Congruent(Value(gpwr') + Byte * PairOf(gpwr', 0), w)
      BY <1>1, <1>2, <1>9, <1>15, <2>1, <2>2, MiddleGoes
    <2> QED BY <1>2, <1>12, <1>15, <2>3 DEF Opens, BlockAt
  <1>16. CASE ~Paused /\ PC \in 6..8
    <2>1. PICK a \in Nat : a = 6
      OBVIOUS
    <2>2. /\ PC \in a..(a + 2) /\ a + 3 < PC_max
          /\ ProgramWord(a) = Reg2("ADD", 21, 0) /\ ProgramWord(a + 1) = Reg2("ADC", 22, 1)
          /\ ProgramWord(a + 2) = Reg2("ADC", 23, 2)
      BY <1>1, <1>16, <2>1
    <2>3. BlockAt(a, gpwr, Carry, PC, w)
      BY <1>11, <2>1
    <2>4. /\ PC' = PC + 1 /\ Registers(gpwr)' /\ gpwr'[2] = 0
          /\ BlockAt(a, gpwr', Carry', PC', w)
      BY <1>1, <1>2, <1>16, <2>2, <2>3, BlockRuns
    <2> QED BY <1>12, <1>16, <2>1, <2>4 DEF Opens, BlockAt
  <1>17. CASE ~Paused /\ PC = 9
    <2>1. Congruent(Value(gpwr), w)
      BY <1>11, <1>17 DEF BlockAt
    <2>2. lh = gpwr[19] * gpwr[16]
      BY <1>2, <1>7, FactorsAre
    <2>3. /\ PC' = PC + 1 /\ Registers(gpwr)' /\ gpwr'[2] = gpwr[2]
          /\ Congruent(Value(gpwr') + Byte * PairOf(gpwr', 0), x)
      BY <1>1, <1>2, <1>10, <1>17, <2>1, <2>2, MiddleGoes
    <2> QED BY <1>2, <1>12, <1>17, <2>3 DEF Opens, BlockAt
  <1>18. CASE ~Paused /\ PC \in 10..12
    <2>1. PICK a \in Nat : a = 10
      OBVIOUS
    <2>2. /\ PC \in a..(a + 2) /\ a + 3 < PC_max
          /\ ProgramWord(a) = Reg2("ADD", 21, 0) /\ ProgramWord(a + 1) = Reg2("ADC", 22, 1)
          /\ ProgramWord(a + 2) = Reg2("ADC", 23, 2)
      BY <1>1, <1>18, <2>1
    <2>3. BlockAt(a, gpwr, Carry, PC, x)
      BY <1>11, <2>1
    <2>4. /\ PC' = PC + 1 /\ Registers(gpwr)' /\ gpwr'[2] = 0
          /\ BlockAt(a, gpwr', Carry', PC', x)
      BY <1>1, <1>2, <1>18, <2>2, <2>3, BlockRuns
    <2> QED BY <1>12, <1>18, <2>1, <2>4 DEF Opens, BlockAt
  <1>19. CASE ~Paused /\ PC = 13
    BY <1>1, <1>19, ReturnStops
  <1> QED BY <1>2, <1>13, <1>14, <1>15, <1>16, <1>17, <1>18, <1>19


(* muls: the high digits are signed, so each of the middle products is.  *)
MulsSum ==
    routine = "muls" =>
      LET ll == XL * YL
          v  == ll + Word * (Signed(XH) * Signed(YH))
          hl == Signed(XH) * YL
          lh == Signed(YH) * XL
      IN /\ PC \in 0..15 /\ Registers(gpwr) /\ (PC >= 1 => gpwr[2] = 0)
         /\ Opens(PC, gpwr, ll, v)
         /\ SignedAt(6, gpwr, Carry, PC, v, hl)
         /\ SignedAt(11, gpwr, Carry, PC, v + Byte * hl, lh)

(* Every step of muls keeps it. *)
LEMMA MulsSums ==
    ASSUME MulsSum, [Next]_vars
    PROVE  MulsSum'
  <1> SUFFICES ASSUME routine = "muls" PROVE MulsSum'
    BY SameRun DEF MulsSum
  <1>1. /\ ProgramWord(0) = Reg2("EOR", 2, 2) /\ ProgramWord(1) = Reg2("MULS", 17, 19)
        /\ ProgramWord(2) = Reg2("MOVW", 22, 0) /\ ProgramWord(3) = Reg2("MUL", 16, 18)
        /\ ProgramWord(4) = Reg2("MOVW", 20, 0) /\ ProgramWord(5) = Reg2("MULSU", 17, 18)
        /\ ProgramWord(6) = Reg2("SBC", 23, 2) /\ ProgramWord(7) = Reg2("ADD", 21, 0)
        /\ ProgramWord(8) = Reg2("ADC", 22, 1) /\ ProgramWord(9) = Reg2("ADC", 23, 2)
        /\ ProgramWord(10) = Reg2("MULSU", 19, 16) /\ ProgramWord(11) = Reg2("SBC", 23, 2)
        /\ ProgramWord(12) = Reg2("ADD", 21, 0) /\ ProgramWord(13) = Reg2("ADC", 22, 1)
        /\ ProgramWord(14) = Reg2("ADC", 23, 2) /\ ProgramWord(15) = RET /\ PC_max = 16
    BY Program DEF Routines, PC_max, ProgramWord
  <1>2. Registers(gpwr) /\ PC \in 0..15 /\ (PC >= 1 => gpwr[2] = 0)
    BY DEF MulsSum
  <1>3. /\ XL' = XL /\ XH' = XH /\ YL' = YL /\ YH' = YH /\ routine' = routine
        /\ Signed(XH)' = Signed(XH) /\ Signed(YH)' = Signed(YH)
    BY SameRun DEF XL, XH, YL, YH, X, Y, Signed, Bit
  <1>4. PICK ll \in Int : ll = XL * YL
    BY <1>2, FactorsAre
  <1>5. PICK hh \in Int : hh = Signed(XH) * Signed(YH)
    BY <1>2, FactorsAre
  <1>6. PICK hl \in Int : hl = Signed(XH) * YL
    BY <1>2, FactorsAre
  <1>7. PICK lh \in Int : lh = Signed(YH) * XL
    BY <1>2, FactorsAre
  <1>8. PICK v \in Int : v = ll + Word * hh
    BY WordIs
  <1>9. PICK w \in Int : w = v + Byte * hl
    BY Widths
  <1>10. /\ Opens(PC, gpwr, ll, v) /\ SignedAt(6, gpwr, Carry, PC, v, hl)
         /\ SignedAt(11, gpwr, Carry, PC, w, lh)
    BY <1>4, <1>5, <1>6, <1>7, <1>8, <1>9 DEF MulsSum
  <1>11. ASSUME PC' \in 0..15, Registers(gpwr)', PC' >= 1 => gpwr'[2] = 0,
                Opens(PC', gpwr', ll, v), SignedAt(6, gpwr', Carry', PC', v, hl),
                SignedAt(11, gpwr', Carry', PC', w, lh)
         PROVE  MulsSum'
    BY <1>3, <1>4, <1>5, <1>6, <1>7, <1>8, <1>9, <1>11 DEF MulsSum
  <1>12. CASE Paused
    <2>1. PC' = PC /\ gpwr' = gpwr /\ Carry' = Carry
      BY <1>12 DEF Paused, Carry
    <2>2. Registers(gpwr)'
      BY <1>2, <2>1, FactorsStay DEF Registers
    <2> QED BY <1>2, <1>10, <1>11, <2>1, <2>2
  <1>13. CASE ~Paused /\ PC \in 0..4
    <2>1. PC = 1 => HighTo(hh)
      BY <1>1, <1>2, <1>5, <1>13, ProductsRun, FactorsAre, HighMultiplied
    <2>2. PC' = PC + 1 /\ Registers(gpwr)' /\ Opens(PC', gpwr', ll, v)
      BY <1>1, <1>2, <1>4, <1>8, <1>10, <1>13, <2>1, OpensRuns
    <2> QED BY <1>11, <1>13, <2>2 DEF Opens, SignedAt, BlockAt
  <1>14. CASE ~Paused /\ PC = 5
    <2>1. Congruent(Value(gpwr), v)
      BY <1>10, <1>14 DEF Opens
    <2>2. hl = Signed(gpwr[17]) * gpwr[18]
      BY <1>2, <1>6, FactorsAre
    <2>3. /\ PC' = PC + 1 /\ Registers(gpwr)' /\ gpwr'[2] = gpwr[2]
          /\ Congruent(Value(gpwr'), v) /\ PairOf(gpwr', 0) - Word * Carry' = hl
      BY <1>1, <1>2, <1>14, <2>1, <2>2, MixedGoes
    <2> QED BY <1>2, <1>11, <1>14, <2>3 DEF Opens, SignedAt, BlockAt
  <1>15. CASE ~Paused /\ PC \in 6..9
    <2>1. PICK a \in Nat : a = 6
      OBVIOUS
    <2>2. /\ PC \in a..(a + 3) /\ a + 4 < PC_max /\ ProgramWord(a) = Reg2("SBC", 23, 2)
          /\ ProgramWord(a + 1) = Reg2("ADD", 21, 0) /\ ProgramWord(a + 2) = Reg2("ADC", 22, 1)
          /\ ProgramWord(a + 3) = Reg2("ADC", 23, 2)
      BY <1>1, <1>15, <2>1
    <2>3. SignedAt(a, gpwr, Carry, PC, v, hl)
      BY <1>10, <2>1
    <2>4. /\ PC' = PC + 1 /\ Registers(gpwr)' /\ gpwr'[2] = 0
          /\ SignedAt(a, gpwr', Carry', PC', v, hl)
      BY <1>1, <1>2, <1>15, <2>2, <2>3, SignedRuns
    <2> QED BY <1>11, <1>15, <2>1, <2>4 DEF Opens, SignedAt, BlockAt
  <1>16. CASE ~Paused /\ PC = 10
    <2>1. Congruent(Value(gpwr), w)
      BY <1>9, <1>10, <1>16 DEF SignedAt, BlockAt
    <2>2. lh = Signed(gpwr[19]) * gpwr[16]
      BY <1>2, <1>7, FactorsAre
    <2>3. /\ PC' = PC + 1 /\ Registers(gpwr)' /\ gpwr'[2] = gpwr[2]
          /\ Congruent(Value(gpwr'), w) /\ PairOf(gpwr', 0) - Word * Carry' = lh
      BY <1>1, <1>2, <1>16, <2>1, <2>2, MixedGoes
    <2> QED BY <1>2, <1>11, <1>16, <2>3 DEF Opens, SignedAt, BlockAt
  <1>17. CASE ~Paused /\ PC \in 11..14
    <2>1. PICK a \in Nat : a = 11
      OBVIOUS
    <2>2. /\ PC \in a..(a + 3) /\ a + 4 < PC_max /\ ProgramWord(a) = Reg2("SBC", 23, 2)
          /\ ProgramWord(a + 1) = Reg2("ADD", 21, 0) /\ ProgramWord(a + 2) = Reg2("ADC", 22, 1)
          /\ ProgramWord(a + 3) = Reg2("ADC", 23, 2)
      BY <1>1, <1>17, <2>1
    <2>3. SignedAt(a, gpwr, Carry, PC, w, lh)
      BY <1>10, <2>1
    <2>4. /\ PC' = PC + 1 /\ Registers(gpwr)' /\ gpwr'[2] = 0
          /\ SignedAt(a, gpwr', Carry', PC', w, lh)
      BY <1>1, <1>2, <1>17, <2>2, <2>3, SignedRuns
    <2> QED BY <1>11, <1>17, <2>1, <2>4 DEF Opens, SignedAt, BlockAt
  <1>18. CASE ~Paused /\ PC = 15
    BY <1>1, <1>18, ReturnStops
  <1> QED BY <1>2, <1>12, <1>13, <1>14, <1>15, <1>16, <1>17, <1>18


(* fmuls: every product is doubled.  The carry of the low one goes to the    *)
(* high one, which leaves its lowest bit free.                              *)
OpensTwice(pc, regs, c, ll, v) ==
    /\ pc >= 1 => regs[2] = 0
    /\ pc = 2 => Congruent(ll + Word * PairOf(regs, 0), v) /\ regs[0] % 2 = 0
    /\ pc = 3 => Congruent(ll + Word * PairOf(regs, 22), v)
    /\ pc = 4 => Congruent(PairOf(regs, 0) + Word * c + Word * PairOf(regs, 22), v)
    /\ pc \in {3, 4} => regs[22] % 2 = 0
    /\ pc = 5 => Congruent(PairOf(regs, 0) + Word * PairOf(regs, 22), v)
    /\ pc = 6 => Congruent(Value(regs), v)

(* A fractional multiplication of the high digits. *)
LEMMA HighDoubled ==
    ASSUME NEW u \in Int, FractionTo(u),
           Registers(gpwr), PC \in Nat, PC_max \in Nat, PC + 1 < PC_max
    PROVE  HighTo(2 * u) /\ gpwr'[0] % 2 = 0
  <1> DEFINE p == u % Word
             f == (2 * p) % Word
  <1>1. /\ p \in 0..(Word - 1) /\ f \in 0..(Word - 1) /\ MultipliesTo(p, f)
        /\ Congruent(Word * f, Word * (2 * u)) /\ (f % Byte) % 2 = 0
    BY HighProduct DEF FractionTo
  <1> HIDE DEF p, f
  <1>2. gpwr'[0] = f % Byte
    BY <1>1, ProductGoes
  <1> QED BY <1>1, <1>2 DEF HighTo

(* The carry fits into the free bit. *)
LEMMA CarryFits ==
    ASSUME NEW f \in [0..31 -> Bytes], NEW g \in [0..31 -> Bytes], NEW c \in {0, 1}, NEW o \in {0, 1},
           f[22] % 2 = 0, g[22] + Byte * o = f[22] + 0 + c,
           \A i \in 0..31 : i # 22 => g[i] = f[i]
    PROVE  PairOf(g, 22) = c + PairOf(f, 22)
  <1> DEFINE a == f[22]
             b == g[22]
             h == f[23]
  <1>1. /\ a \in 0..(2 * Half - 1) /\ b \in 0..(2 * Half - 1) /\ h \in Int /\ Half \in Nat
        /\ Byte = 2 * Half
    BY Widths DEF Bytes
  <1>2. a % 2 = 0 /\ b + (2 * Half) * o = a + c
    BY <1>1
  <1>3. g[23] = h
    OBVIOUS
  <1> HIDE DEF a, b, h
  <1>4. a <= 2 * Half - 2
    BY <1>1, <1>2
  <1>5. b = a + c
    BY <1>1, <1>2, <1>4
  <1>6. PairOf(g, 22) = b + Byte * h /\ PairOf(f, 22) = a + Byte * h
    BY <1>3 DEF PairOf, a, b, h
  <1> DEFINE x == Byte * h
  <1>7. x \in Int
    BY <1>1
  <1> HIDE DEF x
  <1>8. b + x = c + (a + x)
    BY <1>1, <1>5, <1>7
  <1> QED BY <1>6, <1>8 DEF x

(* Each step of the opening keeps it. *)
LEMMA OpensTwiceRuns ==
    ASSUME NEW u \in Int, NEW hh \in Int, hh = 2 * u, NEW ll \in Int, ll = 2 * (XL * YL),
           [Next]_vars, ~Paused, PC \in 0..5,
           ProgramWord(0) = Reg2("EOR", 2, 2), PC = 1 => FractionTo(u),
           ProgramWord(2) = Reg2("MOVW", 22, 0), ProgramWord(3) = Reg2("FMUL", 16, 18),
           ProgramWord(4) = Reg2("ADC", 22, 2), ProgramWord(5) = Reg2("MOVW", 20, 0),
           PC_max \in Nat, PC_max > 6,
           Registers(gpwr), OpensTwice(PC, gpwr, Carry, ll, ll + Word * hh)
    PROVE  /\ PC' = PC + 1 /\ Registers(gpwr)'
           /\ OpensTwice(PC', gpwr', Carry', ll, ll + Word * hh)
  <1>1. PC \in Nat /\ PC + 1 < PC_max /\ gpwr \in [0..31 -> Bytes]
    BY DEF Registers
  <1>2. PICK v \in Int : v = ll + Word * hh
    BY WordIs
  <1>3. OpensTwice(PC, gpwr, Carry, ll, v)
    BY <1>2
  <1>4. CASE PC = 0
    <2>1. /\ PC' = PC + 1 /\ gpwr' \in [0..31 -> Bytes] /\ gpwr'[2] = 0
          /\ \A r \in 0..31 : r # 2 => gpwr'[r] = gpwr[r]
      BY <1>1, <1>4, ZeroMade
    <2>2. Registers(gpwr)'
      BY <2>1, FactorsStay
    <2> QED BY <1>4, <2>1, <2>2 DEF OpensTwice
  <1>5. CASE PC = 1
    <2>1. HighTo(hh) /\ gpwr'[0] % 2 = 0
      BY <1>1, <1>5, HighDoubled
    <2>2. /\ PC' = PC + 1 /\ gpwr' \in [0..31 -> Bytes]
          /\ \A r \in 2..31 : gpwr'[r] = gpwr[r]
          /\ Congruent(ll + Word * PairOf(gpwr', 0), ll + Word * hh)
      BY <1>1, <2>1, HighGoes
    <2>3. Registers(gpwr)'
      BY <2>2, FactorsStay
    <2> QED BY <1>5, <2>1, <2>2, <2>3 DEF OpensTwice
  <1>6. CASE PC = 2
    <2>1. /\ PC' = PC + 1 /\ gpwr' \in [0..31 -> Bytes] /\ gpwr'[22] = gpwr[0]
          /\ PairOf(gpwr', 22) = PairOf(gpwr, 0)
          /\ \A r \in 0..31 : r # 22 /\ r # 22 + 1 => gpwr'[r] = gpwr[r]
      BY <1>1, <1>6, PairMoved
    <2>2. Registers(gpwr)'
      BY <2>1, FactorsStay
    <2> QED BY <1>6, <2>1, <2>2 DEF OpensTwice
  <1>7. CASE PC = 3
    <2>1. gpwr[16] = XL /\ gpwr[18] = YL /\ XL \in Bytes /\ YL \in Bytes
      BY <1>1, FactorsAre
    <2> DEFINE p == XL * YL
               f == (2 * p) % Word
               c == IF p >= Byte * Half THEN 1 ELSE 0
    <2>2. /\ p \in 0..(Word - 1) /\ p % Word = p
          /\ f \in 0..(Word - 1) /\ f + Word * c = ll
      BY <2>1, UnsignedProduct
    <2>3. MultipliesTo(p, f)
      BY <1>7, <2>1, <2>2, ProductsRun DEF FractionTo
    <2> HIDE DEF p, f
    <2>4. /\ PC' = PC + 1 /\ gpwr' \in [0..31 -> Bytes] /\ PairOf(gpwr', 0) = f /\ Carry' = c
          /\ \A r \in 2..31 : gpwr'[r] = gpwr[r]
      BY <1>1, <2>2, <2>3, ProductGoes
    <2> HIDE DEF c
    <2>5. Registers(gpwr)'
      BY <2>4, FactorsStay
    <2>6. PairOf(gpwr', 22) = PairOf(gpwr, 22) /\ gpwr'[22] = gpwr[22]
      BY <2>4, SumStays
    <2>7. PairOf(gpwr', 0) + Word * Carry' = ll
      BY <2>2, <2>4
    <2>8. Congruent(ll + Word * PairOf(gpwr, 22), v) /\ gpwr[22] % 2 = 0 /\ gpwr[2] = 0
      BY <1>3, <1>7 DEF OpensTwice
    <2>9. Congruent(PairOf(gpwr', 0) + Word * Carry' + Word * PairOf(gpwr', 22), v)
      BY <2>6, <2>7, <2>8
    <2> QED BY <1>2, <1>7, <2>4, <2>5, <2>6, <2>8, <2>9 DEF OpensTwice
  <1>8. CASE PC = 4
    <2>1. PICK c \in {0, 1} : c = Carry
      BY DEF Carry
    <2>2. AddsTo(22, gpwr[22], gpwr[2], c)
      BY <1>8, <2>1, AdditionsRun
    <2>3. /\ PC' = PC + 1 /\ gpwr' \in [0..31 -> Bytes]
          /\ Carry' \in {0, 1} /\ gpwr'[22] + Byte * Carry' = gpwr[22] + gpwr[2] + c
          /\ \A i \in 0..31 : i # 22 => gpwr'[i] = gpwr[i]
      <3>1. Added(22, 2, c)
        BY <1>1, <2>2, AddGoes
      <3> QED BY <3>1 DEF Added
    <2>4. Registers(gpwr)'
      BY <2>3, FactorsStay
    <2>5. /\ Congruent(PairOf(gpwr, 0) + Word * c + Word * PairOf(gpwr, 22), v)
          /\ gpwr[22] % 2 = 0 /\ gpwr[2] = 0
      BY <1>3, <1>8, <2>1 DEF OpensTwice
    <2>6. PairOf(gpwr', 22) = c + PairOf(gpwr, 22)
      BY <1>1, <2>3, <2>5, CarryFits
    <2>7. PairOf(gpwr', 0) = PairOf(gpwr, 0)
      BY <2>3 DEF PairOf
    <2>8. PairOf(gpwr, 0) + Word * c + Word * PairOf(gpwr, 22)
        = PairOf(gpwr', 0) + Word * PairOf(gpwr', 22)
      <3>1. PairOf(gpwr, 0) \in Int /\ PairOf(gpwr, 22) \in Int /\ Word \in Int
        BY <1>1, ValueTyped, WordIs
      <3> QED BY <2>6, <2>7, <3>1
    <2> QED BY <1>2, <1>8, <2>3, <2>4, <2>5, <2>8 DEF OpensTwice
  <1>9. CASE PC = 5
    <2>1. /\ PC' = PC + 1 /\ gpwr' \in [0..31 -> Bytes]
          /\ PairOf(gpwr', 20) = PairOf(gpwr, 0)
          /\ \A r \in 0..31 : r # 20 /\ r # 20 + 1 => gpwr'[r] = gpwr[r]
      BY <1>1, <1>9, PairMoved
    <2>2. Registers(gpwr)'
      BY <2>1, FactorsStay
    <2>3. Congruent(PairOf(gpwr, 0) + Word * PairOf(gpwr, 22), v)
      BY <1>3, <1>9 DEF OpensTwice
    <2>4. Congruent(Value(gpwr'), v)
      BY <1>1, <2>1, <2>3, LowProduct
    <2> QED BY <1>2, <1>9, <2>1, <2>2, <2>4 DEF OpensTwice
  <1> QED BY <1>4, <1>5, <1>6, <1>7, <1>8, <1>9

(* fmuls: then it goes on as muls does. *)
FmulsSum ==
    routine = "fmuls" =>
      LET ll == 2 * (XL * YL)
          v  == ll + Word * (2 * (Signed(XH) * Signed(YH)))
          hl == 2 * (Signed(XH) * YL)
          lh == 2 * (Signed(YH) * XL)
      IN /\ PC \in 0..16 /\ Registers(gpwr) /\ (PC >= 1 => gpwr[2] = 0)
         /\ OpensTwice(PC, gpwr, Carry, ll, v)
         /\ SignedAt(7, gpwr, Carry, PC, v, hl)
         /\ SignedAt(12, gpwr, Carry, PC, v + Byte * hl, lh)

(* Every step of fmuls keeps it. *)
LEMMA FmulsSums ==
    ASSUME FmulsSum, [Next]_vars
    PROVE  FmulsSum'
  <1> SUFFICES ASSUME routine = "fmuls" PROVE FmulsSum'
    BY SameRun DEF FmulsSum
  <1>1. /\ ProgramWord(0) = Reg2("EOR", 2, 2) /\ ProgramWord(1) = Reg2("FMULS", 17, 19)
        /\ ProgramWord(2) = Reg2("MOVW", 22, 0) /\ ProgramWord(3) = Reg2("FMUL", 16, 18)
        /\ ProgramWord(4) = Reg2("ADC", 22, 2) /\ ProgramWord(5) = Reg2("MOVW", 20, 0)
        /\ ProgramWord(6) = Reg2("FMULSU", 17, 18) /\ ProgramWord(7) = Reg2("SBC", 23, 2)
        /\ ProgramWord(8) = Reg2("ADD", 21, 0) /\ ProgramWord(9) = Reg2("ADC", 22, 1)
        /\ ProgramWord(10) = Reg2("ADC", 23, 2) /\ ProgramWord(11) = Reg2("FMULSU", 19, 16)
        /\ ProgramWord(12) = Reg2("SBC", 23, 2) /\ ProgramWord(13) = Reg2("ADD", 21, 0)
        /\ ProgramWord(14) = Reg2("ADC", 22, 1) /\ ProgramWord(15) = Reg2("ADC", 23, 2)
        /\ ProgramWord(16) = RET /\ PC_max = 17
    BY Program DEF Routines, PC_max, ProgramWord
  <1>2. Registers(gpwr) /\ PC \in 0..16 /\ (PC >= 1 => gpwr[2] = 0)
    BY DEF FmulsSum
  <1>3. /\ XL' = XL /\ XH' = XH /\ YL' = YL /\ YH' = YH /\ routine' = routine
        /\ Signed(XH)' = Signed(XH) /\ Signed(YH)' = Signed(YH)
    BY SameRun DEF XL, XH, YL, YH, X, Y, Signed, Bit
  <1>4. PICK ll \in Int : ll = 2 * (XL * YL)
    BY <1>2, FactorsAre
  <1>5. PICK u \in Int, hh \in Int : u = Signed(XH) * Signed(YH) /\ hh = 2 * u
    BY <1>2, FactorsAre
  <1>6. PICK hl \in Int : hl = 2 * (Signed(XH) * YL)
    BY <1>2, FactorsAre
  <1>7. PICK lh \in Int : lh = 2 * (Signed(YH) * XL)
    BY <1>2, FactorsAre
  <1>8. PICK v \in Int : v = ll + Word * hh
    BY WordIs
  <1>9. PICK w \in Int : w = v + Byte * hl
    BY Widths
  <1>10. /\ OpensTwice(PC, gpwr, Carry, ll, v) /\ SignedAt(7, gpwr, Carry, PC, v, hl)
         /\ SignedAt(12, gpwr, Carry, PC, w, lh)
    BY <1>4, <1>5, <1>6, <1>7, <1>8, <1>9 DEF FmulsSum
  <1>11. ASSUME PC' \in 0..16, Registers(gpwr)', PC' >= 1 => gpwr'[2] = 0,
                OpensTwice(PC', gpwr', Carry', ll, v), SignedAt(7, gpwr', Carry', PC', v, hl),
                SignedAt(12, gpwr', Carry', PC', w, lh)
         PROVE  FmulsSum'
    BY <1>3, <1>4, <1>5, <1>6, <1>7, <1>8, <1>9, <1>11 DEF FmulsSum
  <1>12. CASE Paused
    <2>1. PC' = PC /\ gpwr' = gpwr /\ Carry' = Carry
      BY <1>12 DEF Paused, Carry
    <2>2. Registers(gpwr)'
      BY <1>2, <2>1, FactorsStay DEF Registers
    <2> QED BY <1>2, <1>10, <1>11, <2>1, <2>2
  <1>13. CASE ~Paused /\ PC \in 0..5
    <2>1. PC = 1 => FractionTo(u)
      BY <1>1, <1>2, <1>5, <1>13, ProductsRun, FactorsAre
    <2>2. PC' = PC + 1 /\ Registers(gpwr)' /\ OpensTwice(PC', gpwr', Carry', ll, v)
      BY <1>1, <1>2, <1>4, <1>5, <1>8, <1>10, <1>13, <2>1, OpensTwiceRuns
    <2> QED BY <1>11, <1>13, <2>2 DEF OpensTwice, SignedAt, BlockAt
  <1>14. CASE ~Paused /\ PC = 6
    <2>1. Congruent(Value(gpwr), v)
      BY <1>10, <1>14 DEF OpensTwice
    <2>2. hl = 2 * (Signed(gpwr[17]) * gpwr[18])
      BY <1>2, <1>6, FactorsAre
    <2>3. /\ PC' = PC + 1 /\ Registers(gpwr)' /\ gpwr'[2] = gpwr[2]
          /\ Congruent(Value(gpwr'), v) /\ PairOf(gpwr', 0) - Word * Carry' = hl
      BY <1>1, <1>2, <1>14, <2>1, <2>2, MixedGoes
    <2> QED BY <1>2, <1>11, <1>14, <2>3 DEF OpensTwice, SignedAt, BlockAt
  <1>15. CASE ~Paused /\ PC \in 7..10
    <2>1. PICK a \in Nat : a = 7
      OBVIOUS
    <2>2. /\ PC \in a..(a + 3) /\ a + 4 < PC_max /\ ProgramWord(a) = Reg2("SBC", 23, 2)
          /\ ProgramWord(a + 1) = Reg2("ADD", 21, 0) /\ ProgramWord(a + 2) = Reg2("ADC", 22, 1)
          /\ ProgramWord(a + 3) = Reg2("ADC", 23, 2)
      BY <1>1, <1>15, <2>1
    <2>3. SignedAt(a, gpwr, Carry, PC, v, hl)
      BY <1>10, <2>1
    <2>4. /\ PC' = PC + 1 /\ Registers(gpwr)' /\ gpwr'[2] = 0
          /\ SignedAt(a, gpwr', Carry', PC', v, hl)
      BY <1>1, <1>2, <1>15, <2>2, <2>3, SignedRuns
    <2> QED BY <1>11, <1>15, <2>1, <2>4 DEF OpensTwice, SignedAt, BlockAt
  <1>16. CASE ~Paused /\ PC = 11
    <2>1. Congruent(Value(gpwr), w)
      BY <1>9, <1>10, <1>16 DEF SignedAt, BlockAt
    <2>2. lh = 2 * (Signed(gpwr[19]) * gpwr[16])
      BY <1>2, <1>7, FactorsAre
    <2>3. /\ PC' = PC + 1 /\ Registers(gpwr)' /\ gpwr'[2] = gpwr[2]
          /\ Congruent(Value(gpwr'), w) /\ PairOf(gpwr', 0) - Word * Carry' = lh
      BY <1>1, <1>2, <1>16, <2>1, <2>2, MixedGoes
    <2> QED BY <1>2, <1>11, <1>16, <2>3 DEF OpensTwice, SignedAt, BlockAt
  <1>17. CASE ~Paused /\ PC \in 12..15
    <2>1. PICK a \in Nat : a = 12
      OBVIOUS
    <2>2. /\ PC \in a..(a + 3) /\ a + 4 < PC_max /\ ProgramWord(a) = Reg2("SBC", 23, 2)
          /\ ProgramWord(a + 1) = Reg2("ADD", 21, 0) /\ ProgramWord(a + 2) = Reg2("ADC", 22, 1)
          /\ ProgramWord(a + 3) = Reg2("ADC", 23, 2)
      BY <1>1, <1>17, <2>1
    <2>3. SignedAt(a, gpwr, Carry, PC, w, lh)
      BY <1>10, <2>1
    <2>4. /\ PC' = PC + 1 /\ Registers(gpwr)' /\ gpwr'[2] = 0
          /\ SignedAt(a, gpwr', Carry', PC', w, lh)
      BY <1>1, <1>2, <1>17, <2>2, <2>3, SignedRuns
    <2> QED BY <1>11, <1>17, <2>1, <2>4 DEF OpensTwice, SignedAt, BlockAt
  <1>18. CASE ~Paused /\ PC = 16
    BY <1>1, <1>18, ReturnStops
  <1> QED BY <1>2, <1>12, <1>13, <1>14, <1>15, <1>16, <1>17, <1>18


(* The four products, shifted to their places, are the product of the two    *)
(* words, and doubled they are twice it.                                    *)
LEMMA ProductsJoin ==
    ASSUME NEW a \in Int, NEW b \in Int, NEW e \in Int, NEW d \in Int
    PROVE  /\ a * e + Word * (b * d) + Byte * (b * e) + Byte * (d * a)
                = (a + Byte * b) * (e + Byte * d)
           /\ 2 * (a * e) + Word * (2 * (b * d)) + Byte * (2 * (b * e)) + Byte * (2 * (d * a))
                = 2 * ((a + Byte * b) * (e + Byte * d))
  <1> DEFINE B == Byte
  <1>1. B \in Int /\ Word = B * B
    BY Widths, WordIs
  <1> HIDE DEF B
  <1>2. a * e + (B * B) * (b * d) + B * (b * e) + B * (d * a) = (a + B * b) * (e + B * d)
    BY <1>1
  <1>3. 2 * (a * e) + (B * B) * (2 * (b * d)) + B * (2 * (b * e)) + B * (2 * (d * a))
          = 2 * (a * e + (B * B) * (b * d) + B * (b * e) + B * (d * a))
    BY <1>1
  <1> QED BY <1>1, <1>2, <1>3 DEF B

(* What four registers hold is what they are congruent to, wrapped. *)
LEMMA ValueIs ==
    ASSUME Registers(gpwr), NEW v \in Int, Congruent(Value(gpwr), v)
    PROVE  Quad(20) = v % (Word * Word)
  <1> DEFINE T == Word * Word
             x == Value(gpwr)
  <1>1. T \in Nat \ {0}
    BY WordIs
  <1>2. x \in 0..(T - 1) /\ x \in Int
    BY ValueTyped DEF Registers
  <1>3. Quad(20) = x
    BY DEF Quad, Pair, Value, PairOf
  <1>4. PICK k \in Int : x = v + k * T
    BY DEF Congruent
  <1> HIDE DEF T, x
  <1>5. PICK q \in Int : q = 0 - k
    BY <1>4
  <1>6. v = q * T + x
    <2> DEFINE y == k * T
    <2>1. y \in Int /\ q * T = 0 - y
      BY <1>1, <1>4, <1>5
    <2> HIDE DEF y
    <2>2. x = v + y
      BY <1>4 DEF y
    <2> QED BY <1>2, <2>1, <2>2
  <1>7. v % T = x
    BY <1>1, <1>2, <1>6, DivMod
  <1> QED BY <1>3, <1>7 DEF T

(* The words that are multiplied, as digits. *)
LEMMA FactorsJoin ==
    ASSUME InputTyped
    PROVE  /\ X = XL + Byte * XH /\ Y = YL + Byte * YH
           /\ SignedWord(X) = XL + Byte * Signed(XH)
           /\ SignedWord(Y) = YL + Byte * Signed(YH)
  <1>1. /\ XL \in Bytes /\ XH \in Bytes /\ X = XL + Byte * XH
        /\ YL \in Bytes /\ YH \in Bytes /\ Y = YL + Byte * YH
    BY Digits DEF InputTyped, XL, XH, YL, YH
  <1> QED BY <1>1, TwoDigits

(* Where mul ends. *)
LEMMA MulEnds ==
    ASSUME InputTyped, MulSum, Finished("mul")
    PROVE  Quad(20) = X * Y
  <1>1. routine = "mul" /\ ProgramWord(PC) = RET
    BY DEF Finished
  <1>2. \A a \in 0..12 : ProgramWord(a).op # "RET"
    BY <1>1, Program, OpOf, SMTT(20) DEF Routines, ProgramWord
  <1>3. PC = 13 /\ Registers(gpwr)
    BY <1>1, <1>2 DEF MulSum, RET, Plain
  <1> DEFINE v == XL * YL + Word * (XH * YH) + Byte * (XH * YL) + Byte * (YH * XL)
  <1>4. Congruent(Value(gpwr), v)
    BY <1>1, <1>3 DEF MulSum, BlockAt
  <1>5. v = X * Y
    BY <1>3, ProductsJoin, FactorsAre, FactorsJoin
  <1> HIDE DEF v
  <1>6. Quad(20) = (X * Y) % (Word * Word)
    <2>1. v \in Int
      BY <1>5 DEF InputTyped
    <2> QED BY <1>3, <1>4, <1>5, <2>1, ValueIs
  <1>7. X * Y \in 0..(Word * Word - 1)
    <2> DEFINE W == Word
    <2>1. X \in 0..(W - 1) /\ Y \in 0..(W - 1) /\ W \in Nat \ {0}
      BY WordIs DEF InputTyped
    <2> HIDE DEF W
    <2>2. X * Y <= X * (W - 1) /\ X * Y \in Nat /\ X * (W - 1) \in Nat
      BY <2>1
    <2>3. X * (W - 1) <= (W - 1) * (W - 1) /\ (W - 1) * (W - 1) \in Nat
      BY <2>1
    <2>4. (W - 1) * (W - 1) <= W * W - 1 /\ W * W \in Nat
      BY <2>1
    <2> QED BY <2>2, <2>3, <2>4 DEF W
  <1> DEFINE x == X * Y
             T == Word * Word
  <1>8. T \in Nat \ {0}
    BY WordIs
  <1> HIDE DEF x, T
  <1>9. x % T = x
    BY <1>7, <1>8 DEF x, T
  <1> QED BY <1>6, <1>9 DEF x, T

(* Where muls and fmuls end. *)
LEMMA SignedEnds ==
    ASSUME InputTyped, MulsSum, FmulsSum
    PROVE  /\ Finished("muls") =>
                Quad(20) = (SignedWord(X) * SignedWord(Y)) % (Word * Word)
           /\ Finished("fmuls") =>
                Quad(20) = (2 * SignedWord(X) * SignedWord(Y)) % (Word * Word)
  <1>1. SignedWord(X) = XL + Byte * Signed(XH) /\ SignedWord(Y) = YL + Byte * Signed(YH)
    BY FactorsJoin
  <1>2. ASSUME Finished("muls")
        PROVE  Quad(20) = (SignedWord(X) * SignedWord(Y)) % (Word * Word)
    <2>1. routine = "muls" /\ ProgramWord(PC) = RET
      BY <1>2 DEF Finished
    <2>2. \A a \in 0..14 : ProgramWord(a).op # "RET"
      BY <2>1, Program, OpOf, SMTT(20) DEF Routines, ProgramWord
    <2>3. PC = 15 /\ Registers(gpwr)
      BY <2>1, <2>2 DEF MulsSum, RET, Plain
    <2> DEFINE v == XL * YL + Word * (Signed(XH) * Signed(YH)) + Byte * (Signed(XH) * YL)
                    + Byte * (Signed(YH) * XL)
    <2>4. Congruent(Value(gpwr), v)
      BY <2>1, <2>3 DEF MulsSum, SignedAt, BlockAt
    <2>5. v = SignedWord(X) * SignedWord(Y) /\ v \in Int
      <3>1. XL \in Int /\ YL \in Int /\ Signed(XH) \in Int /\ Signed(YH) \in Int
        BY <2>3, FactorsAre
      <3>2. v = (XL + Byte * Signed(XH)) * (YL + Byte * Signed(YH))
        <4>1. PICK a \in Int, b \in Int, e \in Int, d \in Int :
                   a = XL /\ b = Signed(XH) /\ e = YL /\ d = Signed(YH)
          BY <3>1
        <4>2. a * e + Word * (b * d) + Byte * (b * e) + Byte * (d * a)
                  = (a + Byte * b) * (e + Byte * d)
          BY ProductsJoin
        <4> QED BY <4>1, <4>2
      <3>3. SignedWord(X) * SignedWord(Y) \in Int
        BY <1>1, <3>1, Widths
      <3> QED BY <1>1, <3>2, <3>3
    <2> HIDE DEF v
    <2> QED BY <2>3, <2>4, <2>5, ValueIs
  <1>3. ASSUME Finished("fmuls")
        PROVE  Quad(20) = (2 * SignedWord(X) * SignedWord(Y)) % (Word * Word)
    <2>1. routine = "fmuls" /\ ProgramWord(PC) = RET
      BY <1>3 DEF Finished
    <2>2. \A a \in 0..15 : ProgramWord(a).op # "RET"
      BY <2>1, Program, OpOf, SMTT(20) DEF Routines, ProgramWord
    <2>3. PC = 16 /\ Registers(gpwr)
      BY <2>1, <2>2 DEF FmulsSum, RET, Plain
    <2> DEFINE v == 2 * (XL * YL) + Word * (2 * (Signed(XH) * Signed(YH)))
                    + Byte * (2 * (Signed(XH) * YL)) + Byte * (2 * (Signed(YH) * XL))
    <2>4. Congruent(Value(gpwr), v)
      BY <2>1, <2>3 DEF FmulsSum, SignedAt, BlockAt
    <2>5. v = 2 * SignedWord(X) * SignedWord(Y) /\ v \in Int
      <3>1. XL \in Int /\ YL \in Int /\ Signed(XH) \in Int /\ Signed(YH) \in Int
        BY <2>3, FactorsAre
      <3>2. v = 2 * ((XL + Byte * Signed(XH)) * (YL + Byte * Signed(YH)))
        <4>1. PICK a \in Int, b \in Int, e \in Int, d \in Int :
                   a = XL /\ b = Signed(XH) /\ e = YL /\ d = Signed(YH)
          BY <3>1
        <4>2. 2 * (a * e) + Word * (2 * (b * d)) + Byte * (2 * (b * e)) + Byte * (2 * (d * a))
                  = 2 * ((a + Byte * b) * (e + Byte * d))
          BY ProductsJoin
        <4> QED BY <4>1, <4>2
      <3>3. SignedWord(X) \in Int /\ SignedWord(Y) \in Int
        BY <1>1, <3>1, Widths
      <3>4. v = 2 * (SignedWord(X) * SignedWord(Y))
        BY <1>1, <3>2
      <3> HIDE DEF v
      <3> QED BY <3>3, <3>4
    <2> HIDE DEF v
    <2> QED BY <2>3, <2>4, <2>5, ValueIs
  <1> QED BY <1>2, <1>3

(* What holds while a product is added up. *)
ProductsInv ==
    InputTyped /\ MulSum /\ MulsSum /\ FmulsSum

(* It holds at the first instruction. *)
LEMMA ProductsStart == Init => ProductsInv
  <1> SUFFICES ASSUME Init PROVE ProductsInv
    OBVIOUS
  <1>1. /\ InputTyped /\ DOMAIN gpwr = 0..31 /\ PC = 0
        /\ Holds(16, XL, XH) /\ Holds(18, YL, YH)
    BY Starting
  <1>2. XL \in Bytes /\ XH \in Bytes /\ YL \in Bytes /\ YH \in Bytes
    BY <1>1, Digits DEF InputTyped, XL, XH, YL, YH
  <1>3. gpwr = [r \in 0..31 |->
                 CASE r = 16 -> XL [] r = 17 -> XH [] r = 18 -> YL [] r = 19 -> YH
                   [] OTHER  -> Byte - 1]
    BY Zenon DEF Init, XL, XH, YL, YH, X, Y
  <1>4. Byte - 1 \in Bytes
    BY Widths DEF Bytes
  <1>5. gpwr \in [0..31 -> Bytes]
    BY <1>2, <1>3, <1>4
  <1>6. Registers(gpwr)
    BY <1>1, <1>5 DEF Registers, Holds
  <1>7. MulSum /\ MulsSum /\ FmulsSum
    BY <1>1, <1>6 DEF MulSum, MulsSum, FmulsSum, Opens, OpensTwice, SignedAt, BlockAt
  <1> QED BY <1>1, <1>7 DEF ProductsInv

(* Every step keeps it. *)
LEMMA ProductsStep == ProductsInv /\ [Next]_vars => ProductsInv'
  <1> SUFFICES ASSUME ProductsInv, [Next]_vars PROVE ProductsInv'
    OBVIOUS
  <1>1. InputTyped'
    BY SameRun DEF ProductsInv, InputTyped, X, Y
  <1>2. MulSum' /\ MulsSum' /\ FmulsSum'
    BY MulSums, MulsSums, FmulsSums DEF ProductsInv
  <1> QED BY <1>1, <1>2 DEF ProductsInv

(* The products of two registers, with the signs the multiplications give    *)
(* their operands, the bit that doubling shifts out and the carries between  *)
(* four registers, add up to the product of the words.                      *)
THEOREM ProductsAreRight == Spec => []ProductsRight
  <1>1. ProductsInv => ProductsRight
    BY MulEnds, SignedEnds DEF ProductsInv, ProductsRight
  <1> QED BY <1>1, ProductsStart, ProductsStep, PTL DEF Spec
=============================================================================
