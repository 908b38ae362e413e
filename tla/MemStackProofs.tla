---------------------------- MODULE MemStackProofs ----------------------------
(***************************************************************************)
(* The stack in data memory keeps the promise of ControlStack, for every   *)
(* width of a byte, both sizes of return addresses, every size of flash    *)
(* and wherever in the address space the stack lies.                       *)
(***************************************************************************)
EXTENDS MemStack, SequenceTheorems, TLAPS

FrameOK(f) == f.bytes \in {1, PC_size} /\ f.bytes <= Height(f.sp)

StackTypes ==
    /\ mem \in [Ram -> Bytes]
    /\ SPL \in Bytes /\ SPH \in Bytes
    /\ PC \in 0..(PC_max - 1) /\ Rd \in Bytes
    /\ bottom \in SPValues
    /\ frames \in Seq([sp : SPValues, bytes : 1..3])

(* The frames lie one on the other, from the bottom up to the stack        *)
(* pointer, in addresses that hold a byte.  The order of any two frames is *)
(* stated beside that of neighbours: it would take induction to derive.    *)
FramesStacked ==
    /\ SP = IF frames = <<>> THEN bottom ELSE frames[Len(frames)].sp
    /\ \A n \in DOMAIN frames :
          /\ FrameOK(frames[n])
          /\ Height(frames[n].sp) =
                frames[n].bytes + IF n = 1 THEN 0 ELSE Height(frames[n - 1].sp)
    /\ \A k, n \in DOMAIN frames :
          k < n => Height(frames[k].sp) <= Height(frames[n].sp) - frames[n].bytes
    /\ InUse(0) \subseteq Ram

(* The addresses on the stack are addresses of flash: a return that would   *)
(* find another would leave the range of PC.                                *)
ItemValues == [byte : Bytes] \cup [address : 0..(PC_max - 1)]
ItemsTyped == Items \in Seq(ItemValues)

StackInv == StackTypes /\ FramesStacked /\ ItemsTyped

----------------------------------------------------------------------------
(* Arithmetic of the stack pointer and of the bytes of a value. *)

(* The remainder of a number at most once outside its range. *)
LEMMA WrapOnce ==
    ASSUME NEW M \in Nat \ {0}, NEW a \in Int, -M <= a, a < 2 * M
    PROVE  a % M = IF a < 0 THEN a + M ELSE IF a >= M THEN a - M ELSE a
  OBVIOUS

(* Quotient and remainder by a byte, and what one shift leaves. *)
LEMMA Divided ==
    ASSUME NEW B \in Nat \ {0}, NEW v \in Nat
    PROVE  /\ v \div B \in Nat /\ v % B \in 0..(B - 1)
           /\ v = B * (v \div B) + (v % B)
           /\ \A c \in Nat : v < B * c => v \div B < c
  <1>1. v \div B \in Nat /\ v % B \in 0..(B - 1) /\ v = B * (v \div B) + (v % B)
    OBVIOUS
  <1>2. ASSUME NEW c \in Nat, v < B * c PROVE v \div B < c
    <2> DEFINE q == v \div B
    <2>1. q \in Nat /\ B * q < B * c
      BY <1>1, <1>2
    <2> HIDE DEF q
    <2>2. CASE q >= c
      <3>1. PICK d \in Nat : q = c + d
        BY <2>1, <2>2
      <3>2. B * q = B * c + B * d /\ B * d \in Nat
        BY <3>1
      <3> QED BY <2>1, <3>2
    <2> QED BY <2>1, <2>2 DEF q
  <1> QED BY <1>1, <1>2

(* A number below a product of two bytes is its two digits. *)
LEMMA DigitsUnique ==
    ASSUME NEW B \in Nat \ {0}, NEW h \in 0..(B - 1), NEW l \in 0..(B - 1)
    PROVE  h * B + l \in 0..(B * B - 1)
  <1>1. PICK d \in Nat : B = h + 1 + d
    OBVIOUS
  <1>2. B * B = h * B + B + d * B
    BY <1>1
  <1>3. d * B \in Nat /\ h * B \in Nat
    BY <1>1
  <1> QED BY <1>2, <1>3

(* Quotient and remainder are the only such pair. *)
LEMMA DividedOnly ==
    ASSUME NEW B \in Nat \ {0}, NEW q \in Nat, NEW r \in 0..(B - 1)
    PROVE  (B * q + r) \div B = q /\ (B * q + r) % B = r
  <1> DEFINE v == B * q + r
             p == v \div B
             t == v % B
  <1>1. v \in Nat
    OBVIOUS
  <1>2. p \in Nat /\ t \in 0..(B - 1) /\ v = B * p + t
    BY <1>1, Divided
  <1>3. B * q + r = B * p + t
    BY <1>2
  <1> HIDE DEF v, p, t
  <1>4. ASSUME p < q PROVE FALSE
    <2>1. PICK d \in Nat : q = p + 1 + d
      BY <1>2, <1>4
    <2>2. B * q = B * p + B + B * d /\ B * d \in Nat /\ B * p \in Nat
      BY <2>1, <1>2
    <2> QED BY <1>2, <1>3, <2>2
  <1>5. ASSUME p > q PROVE FALSE
    <2>1. PICK d \in Nat : p = q + 1 + d
      BY <1>2, <1>5
    <2>2. B * p = B * q + B + B * d /\ B * d \in Nat /\ B * q \in Nat
      BY <2>1, <1>2
    <2> QED BY <1>2, <1>3, <2>2
  <1>6. p = q
    BY <1>2, <1>4, <1>5
  <1>7. t = r
    <2>1. B * q \in Nat
      OBVIOUS
    <2> QED BY <2>1, <1>2, <1>3, <1>6
  <1> QED BY <1>6, <1>7 DEF p, t, v

(* Heights above the bottom b of a stack in a ring of M addresses: below s, *)
(* above s, and how far an address a is from s.                             *)
LEMMA Ring ==
    ASSUME NEW M \in Nat \ {0}, NEW b \in 0..(M - 1), NEW s \in 0..(M - 1)
    PROVE  /\ (b - s) % M \in 0..(M - 1)
           /\ (b - ((b - s) % M)) % M = s
           /\ \A i \in 0..((b - s) % M) :
                 /\ (s + i) % M \in 0..(M - 1)
                 /\ (b - ((s + i) % M)) % M = ((b - s) % M) - i
           /\ \A i \in 0..(M - 1) : ((b - s) % M) + i < M =>
                 /\ (s - i) % M \in 0..(M - 1)
                 /\ (b - ((s - i) % M)) % M = ((b - s) % M) + i
           /\ \A a \in 0..(M - 1) :
                 (s - a) % M = IF (b - a) % M >= (b - s) % M
                               THEN ((b - a) % M) - ((b - s) % M)
                               ELSE M + ((b - a) % M) - ((b - s) % M)
  <1> DEFINE W(a) == a % M
             R(a) == IF a < 0 THEN a + M ELSE IF a >= M THEN a - M ELSE a
  <1>1. ASSUME NEW a \in Int, -M <= a, a < 2 * M PROVE W(a) = R(a)
    BY <1>1, WrapOnce
  <1> HIDE DEF W
  <1>2. W(b - s) = R(b - s) /\ W(b - s) \in 0..(M - 1)
    BY <1>1
  <1>3. W(b - W(b - s)) = s
    <2>1. W(b - W(b - s)) = R(b - W(b - s))
      BY <1>1, <1>2
    <2> QED BY <2>1, <1>2
  <1>4. ASSUME NEW i \in 0..W(b - s)
        PROVE  W(s + i) \in 0..(M - 1) /\ W(b - W(s + i)) = W(b - s) - i
    <2>1. W(s + i) = R(s + i) /\ W(s + i) \in 0..(M - 1)
      BY <1>1, <1>2
    <2>2. W(b - W(s + i)) = R(b - W(s + i))
      BY <1>1, <2>1
    <2> QED BY <2>1, <2>2, <1>2
  <1>5. ASSUME NEW i \in 0..(M - 1), W(b - s) + i < M
        PROVE  W(s - i) \in 0..(M - 1) /\ W(b - W(s - i)) = W(b - s) + i
    <2>1. W(s - i) = R(s - i) /\ W(s - i) \in 0..(M - 1)
      BY <1>1
    <2>2. W(b - W(s - i)) = R(b - W(s - i))
      BY <1>1, <2>1
    <2> QED BY <2>1, <2>2, <1>2, <1>5
  <1>6. ASSUME NEW a \in 0..(M - 1)
        PROVE  W(s - a) = IF W(b - a) >= W(b - s) THEN W(b - a) - W(b - s)
                          ELSE M + W(b - a) - W(b - s)
    <2>1. W(s - a) = R(s - a) /\ W(b - a) = R(b - a)
      BY <1>1
    <2> QED BY <2>1, <1>2
  <1> QED BY <1>2, <1>3, <1>4, <1>5, <1>6 DEF W

(* What stack.c takes apart and puts together again: the bytes of a value   *)
(* of one byte, and of one of PC_size bytes.  A return address one beyond   *)
(* the last of a full flash comes back as 0.                                *)
LEMMA BytesTogether ==
    ASSUME MemStackAssumption
    PROVE  /\ \A v \in Bytes : ByteOf(v, 0) = v
           /\ \A v \in 0..Capacity, i \in 0..2 : ByteOf(v, i) \in Bytes
           /\ \A v \in 0..Capacity : PC_size = 2 =>
                 ByteOf(v, 1) * Byte + ByteOf(v, 0) = IF v = Capacity THEN 0 ELSE v
           /\ \A v \in 0..Capacity : PC_size = 3 =>
                 (ByteOf(v, 2) * Byte + ByteOf(v, 1)) * Byte + ByteOf(v, 0)
                    = IF v = Capacity THEN 0 ELSE v
  <1> DEFINE B == Byte
             D(v) == v \div B
             R(v) == v % B
  <1>1. B \in Nat \ {0} /\ 1 < B /\ B * B \in Nat \ {0}
    BY DEF MemStackAssumption
  <1>2. ASSUME NEW v \in Nat
        PROVE  D(v) \in Nat /\ R(v) \in 0..(B - 1) /\ v = B * D(v) + R(v)
    BY <1>1, Divided
  <1>3. ASSUME NEW v \in Nat, NEW c \in Nat, v < B * c PROVE D(v) < c
    BY <1>1, <1>3, Divided
  <1>4. ASSUME NEW c \in Nat PROVE D(B * c) = c /\ R(B * c) = 0
    <2>1. B * c + 0 = B * c
      BY <1>1
    <2> QED BY <2>1, <1>1, DividedOnly
  <1>5. ASSUME NEW v \in Nat, v < B PROVE R(v) = v /\ D(v) = 0
    <2>1. B * 0 + v = v
      BY <1>1
    <2> QED BY <2>1, <1>1, <1>5, DividedOnly
  <1>6. ASSUME NEW v \in Nat
        PROVE  ByteOf(v, 0) = R(v) /\ ByteOf(v, 1) = R(D(v)) /\ ByteOf(v, 2) = R(D(D(v)))
    BY DEF ByteOf
  <1>7. Bytes = 0..(B - 1)
    BY DEF Bytes
  <1> HIDE DEF B, D, R
  <1>8. \A v \in Bytes : ByteOf(v, 0) = v
    BY <1>1, <1>5, <1>6, <1>7
  <1>9. Capacity \in Nat
    BY <1>1 DEF Capacity, B, MemStackAssumption
  <1>10. \A v \in 0..Capacity, i \in 0..2 : ByteOf(v, i) \in Bytes
    <2> TAKE v \in 0..Capacity, i \in 0..2
    <2>1. v \in Nat
      BY <1>9
    <2>2. i = 0 \/ i = 1 \/ i = 2
      OBVIOUS
    <2>3. R(v) \in Bytes /\ R(D(v)) \in Bytes /\ R(D(D(v))) \in Bytes
      BY <2>1, <1>2, <1>7
    <2> QED BY <2>1, <2>2, <2>3, <1>6
  <1>11. \A v \in 0..Capacity : PC_size = 2 =>
            ByteOf(v, 1) * B + ByteOf(v, 0) = IF v = Capacity THEN 0 ELSE v
    <2> SUFFICES ASSUME NEW v \in 0..Capacity, PC_size = 2
                 PROVE  R(D(v)) * B + R(v) = IF v = Capacity THEN 0 ELSE v
      BY <1>6, <1>9
    <2>1. v \in Nat /\ Capacity = B * B
      BY <1>9 DEF Capacity, B
    <2>2. CASE v = Capacity
      <3>1. D(v) = B /\ R(v) = 0
        BY <2>1, <2>2, <1>1, <1>4
      <3>2. B = B * 1
        BY <1>1
      <3>3. R(B) = 0
        BY <3>2, <1>4
      <3> QED BY <3>1, <3>3, <2>2, <1>1
    <2>3. CASE v < Capacity
      <3>1. D(v) \in Nat /\ D(v) < B
        BY <2>1, <2>3, <1>1, <1>2, <1>3
      <3>2. R(D(v)) = D(v)
        BY <3>1, <1>5
      <3>3. v = B * D(v) + R(v) /\ R(v) \in Int
        BY <2>1, <1>2
      <3> QED BY <3>1, <3>2, <3>3, <2>3, <1>1
    <2> QED BY <2>1, <2>2, <2>3, <1>9
  <1>12. \A v \in 0..Capacity : PC_size = 3 =>
            (ByteOf(v, 2) * B + ByteOf(v, 1)) * B + ByteOf(v, 0)
               = IF v = Capacity THEN 0 ELSE v
    <2> SUFFICES ASSUME NEW v \in 0..Capacity, PC_size = 3
                 PROVE  (R(D(D(v))) * B + R(D(v))) * B + R(v)
                           = IF v = Capacity THEN 0 ELSE v
      BY <1>6, <1>9
    <2>1. v \in Nat /\ Capacity = B * (B * B)
      BY <1>1, <1>9 DEF Capacity, B
    <2>2. CASE v = Capacity
      <3>1. D(v) = B * B /\ R(v) = 0
        BY <2>1, <2>2, <1>1, <1>4
      <3>2. D(D(v)) = B /\ R(D(v)) = 0
        BY <3>1, <1>1, <1>4
      <3>3. B = B * 1
        BY <1>1
      <3>4. R(B) = 0
        BY <3>3, <1>4
      <3> QED BY <3>1, <3>2, <3>4, <2>2, <1>1
    <2>3. CASE v < Capacity
      <3>1. D(v) \in Nat /\ D(v) < B * B
        BY <2>1, <2>3, <1>1, <1>2, <1>3
      <3>2. D(D(v)) \in Nat /\ D(D(v)) < B
        BY <3>1, <1>1, <1>2, <1>3
      <3>3. R(D(D(v))) = D(D(v))
        BY <3>2, <1>5
      <3>4. D(v) = B * D(D(v)) + R(D(v)) /\ R(D(v)) \in Int
        BY <3>1, <1>2
      <3>5. D(v) = R(D(D(v))) * B + R(D(v))
        BY <3>2, <3>3, <3>4, <1>1
      <3>6. v = D(v) * B + R(v)
        BY <2>1, <3>1, <1>1, <1>2
      <3> QED BY <3>5, <3>6, <2>3
    <2> QED BY <2>1, <2>2, <2>3, <1>9
  <1> QED BY <1>8, <1>10, <1>11, <1>12 DEF B

----------------------------------------------------------------------------
(* The stack pointer and the addresses of a frame. *)

(* sp_set and sp_get: the two registers hold the 16 bits. *)
LEMMA PointerSet ==
    ASSUME MemStackAssumption, NEW sp \in SPValues, SPBecomes(sp)
    PROVE  SPL' \in Bytes /\ SPH' \in Bytes /\ SP' = sp
  <1>1. Byte \in Nat \ {0} /\ sp \in Nat /\ sp < Byte * Byte
    BY DEF MemStackAssumption, SPValues
  <1>2. /\ SPL' \in 0..(Byte - 1) /\ SPH' \in Nat /\ SPH' < Byte
        /\ sp = Byte * SPH' + SPL'
    BY <1>1, Divided DEF SPBecomes
  <1>3. Byte * SPH' = SPH' * Byte
    BY <1>1, <1>2
  <1> QED BY <1>1, <1>2, <1>3 DEF SP, Bytes

(* The stack pointer, as two bytes make it. *)
LEMMA PointerTyped ==
    ASSUME MemStackAssumption, SPL \in Bytes, SPH \in Bytes
    PROVE  SP \in SPValues
  <1>1. Byte \in Nat \ {0} /\ SPL \in 0..(Byte - 1) /\ SPH \in 0..(Byte - 1)
    BY DEF MemStackAssumption, Bytes
  <1>2. SPH * Byte + SPL \in 0..(Byte * Byte - 1)
    BY <1>1, DigitsUnique
  <1> QED BY <1>2 DEF SP, SPValues

(* Heights, for the addresses of data memory. *)
LEMMA Heights ==
    ASSUME MemStackAssumption, bottom \in SPValues, NEW s \in SPValues
    PROVE  /\ Height(s) \in SPValues
           /\ Wrapped(bottom - Height(s)) = s
           /\ \A i \in 0..Height(s) :
                 Wrapped(s + i) \in SPValues /\ Height(Wrapped(s + i)) = Height(s) - i
           /\ \A i \in SPValues : Height(s) + i < Byte * Byte =>
                 Wrapped(s - i) \in SPValues /\ Height(Wrapped(s - i)) = Height(s) + i
           /\ \A a \in SPValues :
                 Wrapped(s - a) = IF Height(a) >= Height(s) THEN Height(a) - Height(s)
                                  ELSE Byte * Byte + Height(a) - Height(s)
           /\ Height(bottom) = 0
  <1> DEFINE M == Byte * Byte
  <1>1. M \in Nat \ {0} /\ SPValues = 0..(M - 1)
    BY DEF MemStackAssumption, SPValues
  <1>2. \A a : Wrapped(a) = a % M /\ Height(a) = (bottom - a) % M
    BY DEF Wrapped, Height
  <1> HIDE DEF M
  <1>3. bottom \in 0..(M - 1) /\ s \in 0..(M - 1)
    BY <1>1
  <1>4. Height(bottom) = 0
    <2>1. bottom - bottom = 0 /\ 0 % M = 0
      BY <1>1, <1>3, WrapOnce
    <2> QED BY <2>1, <1>2
  <1>5. (bottom - s) % M \in 0..(M - 1) /\ (bottom - ((bottom - s) % M)) % M = s
    BY <1>1, <1>3, Ring
  <1>6. \A i \in 0..((bottom - s) % M) :
           /\ (s + i) % M \in 0..(M - 1)
           /\ (bottom - ((s + i) % M)) % M = ((bottom - s) % M) - i
    BY <1>1, <1>3, Ring
  <1>7. \A i \in 0..(M - 1) : ((bottom - s) % M) + i < M =>
           /\ (s - i) % M \in 0..(M - 1)
           /\ (bottom - ((s - i) % M)) % M = ((bottom - s) % M) + i
    BY <1>1, <1>3, Ring
  <1>8. \A a \in 0..(M - 1) :
           (s - a) % M = IF (bottom - a) % M >= (bottom - s) % M
                         THEN ((bottom - a) % M) - ((bottom - s) % M)
                         ELSE M + ((bottom - a) % M) - ((bottom - s) % M)
    BY <1>1, <1>3, Ring
  <1>9. Height(s) \in SPValues /\ Wrapped(bottom - Height(s)) = s
    BY <1>1, <1>2, <1>5
  <1>10. \A i \in 0..Height(s) :
            Wrapped(s + i) \in SPValues /\ Height(Wrapped(s + i)) = Height(s) - i
    BY <1>1, <1>2, <1>6
  <1>11. \A i \in SPValues : Height(s) + i < M =>
            Wrapped(s - i) \in SPValues /\ Height(Wrapped(s - i)) = Height(s) + i
    BY <1>1, <1>2, <1>7
  <1>12. \A a \in SPValues :
            Wrapped(s - a) = IF Height(a) >= Height(s) THEN Height(a) - Height(s)
                             ELSE M + Height(a) - Height(s)
    BY <1>1, <1>2, <1>8
  <1> QED BY <1>4, <1>9, <1>10, <1>11, <1>12 DEF M

(* The addresses of the stack are those of lesser height than its pointer. *)
LEMMA InUseHeights ==
    ASSUME MemStackAssumption, bottom \in SPValues, SPL \in Bytes, SPH \in Bytes,
           NEW b \in Nat, Height(SP) + b < Byte * Byte
    PROVE  \A a \in SPValues : a \in InUse(b) <=> Height(a) < Height(SP) + b
  <1>1. Byte * Byte \in Nat /\ SPValues = 0..(Byte * Byte - 1)
    BY DEF MemStackAssumption, SPValues
  <1>2. SP \in SPValues /\ Height(SP) \in SPValues
    BY PointerTyped, Heights
  <1> SUFFICES ASSUME NEW a \in SPValues
               PROVE  a \in InUse(b) <=> Height(a) < Height(SP) + b
    OBVIOUS
  <1>3. Height(a) \in SPValues /\ Wrapped(bottom - Height(a)) = a
    BY Heights
  <1>4. ASSUME Height(a) < Height(SP) + b PROVE a \in InUse(b)
    <2>1. Height(a) \in 0..(Height(SP) + b - 1)
      BY <1>1, <1>2, <1>3, <1>4
    <2> QED BY <2>1, <1>3 DEF InUse
  <1>5. ASSUME a \in InUse(b) PROVE Height(a) < Height(SP) + b
    <2>1. PICK i \in 0..(Height(SP) + b - 1) : a = Wrapped(bottom - i)
      BY <1>5 DEF InUse
    <2>2. Height(bottom) = 0
      BY Heights
    <2>3. i \in SPValues /\ i \in Nat /\ i < Height(SP) + b /\ i < Byte * Byte
      BY <1>1, <1>2
    <2>4. Height(bottom) + i < Byte * Byte
      BY <2>2, <2>3
    <2>5. Height(Wrapped(bottom - i)) = Height(bottom) + i
      BY <2>3, <2>4, Heights
    <2> QED BY <2>1, <2>2, <2>3, <2>5
  <1> QED BY <1>4, <1>5

----------------------------------------------------------------------------
(* What a push leaves in memory, and what is then read from it. *)

(* What an item says depends on the bytes of its frame only. *)
LEMMA SameItem ==
    ASSUME NEW m, NEW w, NEW f, f.bytes \in 1..3,
           \A i \in 1..f.bytes : m[Wrapped(f.sp + i)] = w[Wrapped(f.sp + i)]
    PROVE  Item(m, f) = Item(w, f)
  <1>1. CASE f.bytes = 1
    BY <1>1 DEF Item, Popped
  <1>2. CASE f.bytes = 2
    BY <1>2 DEF Item, Popped
  <1>3. CASE f.bytes = 3
    BY <1>3 DEF Item, Popped
  <1> QED BY <1>1, <1>2, <1>3

(* A store to an address that is not of the stack, or of a height not below *)
(* that of a frame, leaves the frame's item alone.                          *)
LEMMA ItemUntouched ==
    ASSUME MemStackAssumption, bottom \in SPValues, NEW m, NEW w,
           NEW f \in [sp : SPValues, bytes : 1..3], FrameOK(f),
           \A a \in SPValues : Height(a) < Height(f.sp) => m[a] = w[a]
    PROVE  Item(m, f) = Item(w, f)
  <1>1. f.bytes \in 1..3 /\ f.sp \in SPValues /\ f.bytes <= Height(f.sp)
    BY DEF FrameOK
  <1>2. Height(f.sp) \in Int
    BY <1>1, Heights DEF SPValues
  <1>3. ASSUME NEW i \in 1..f.bytes
        PROVE  m[Wrapped(f.sp + i)] = w[Wrapped(f.sp + i)]
    <2>1. i \in 0..Height(f.sp) /\ i > 0
      BY <1>1, <1>2
    <2>2. Wrapped(f.sp + i) \in SPValues /\ Height(Wrapped(f.sp + i)) = Height(f.sp) - i
      BY <2>1, <1>1, Heights
    <2> QED BY <2>1, <2>2, <1>2
  <1> QED BY <1>1, <1>3, SameItem

(* A push stores the bytes of the value above the stack, where there is     *)
(* room, and leaves what is on the stack alone.                             *)
LEMMA PushStores ==
    ASSUME MemStackAssumption, StackTypes, NEW b \in 1..3, NEW v, Room(b)
    PROVE  /\ \A i \in 1..b :
                 Pushed(mem, SP, b, v)[Wrapped(Wrapped(SP - b) + i)] = ByteOf(v, b - i)
           /\ \A a \in SPValues : Height(a) < Height(SP) /\ InUse(0) \subseteq Ram =>
                 Pushed(mem, SP, b, v)[a] = mem[a]
           /\ Wrapped(SP - b) \in SPValues
           /\ Height(Wrapped(SP - b)) = Height(SP) + b
  <1> DEFINE M == Byte * Byte
             H == Height(SP)
             top == Wrapped(SP - b)
  <1>1. M \in Nat /\ SPValues = 0..(M - 1)
    BY DEF MemStackAssumption, SPValues
  <1>2. bottom \in SPValues /\ SPL \in Bytes /\ SPH \in Bytes
    BY DEF StackTypes
  <1>3. SP \in SPValues
    BY <1>2, PointerTyped
  <1>4. H \in SPValues
    BY <1>2, <1>3, Heights
  <1>5. H + b < M /\ InUse(b) \subseteq Ram
    BY DEF Room
  <1>6. b \in SPValues
    BY <1>1, <1>4, <1>5
  <1>7. top \in SPValues /\ Height(top) = H + b
    BY <1>2, <1>3, <1>5, <1>6, Heights
  <1>8. ASSUME NEW a \in SPValues
        PROVE  Height(a) \in SPValues
               /\ Wrapped(SP - a) = IF Height(a) >= H THEN Height(a) - H ELSE M + Height(a) - H
    BY <1>2, <1>3, Heights
  <1>9. ASSUME NEW a \in SPValues, a \in Ram
        PROVE  Pushed(mem, SP, b, v)[a] =
                  IF Wrapped(SP - a) < b THEN ByteOf(v, Wrapped(SP - a)) ELSE mem[a]
    BY <1>9 DEF Pushed
  <1>10. \A n \in Nat, a \in SPValues :
            H + n < M => (a \in InUse(n) <=> Height(a) < H + n)
    BY <1>2, InUseHeights
  <1> HIDE DEF M, H, top
  <1>11. ASSUME NEW i \in 1..b
         PROVE  Pushed(mem, SP, b, v)[Wrapped(top + i)] = ByteOf(v, b - i)
    <2> DEFINE a == Wrapped(top + i)
    <2>1. i \in 0..Height(top)
      BY <1>1, <1>4, <1>7
    <2>2. Wrapped(top + i) \in SPValues /\ Height(Wrapped(top + i)) = Height(top) - i
      BY <2>1, <1>2, <1>7, Heights
    <2>3. a \in SPValues /\ Height(a) = H + b - i
      BY <2>2, <1>1, <1>4, <1>7
    <2> HIDE DEF a
    <2>4. a \in Ram
      BY <2>3, <1>1, <1>4, <1>5, <1>10
    <2>5. Wrapped(SP - a) = b - i
      BY <2>3, <1>8, <1>1, <1>4
    <2> QED BY <2>3, <2>4, <2>5, <1>9 DEF a
  <1>12. ASSUME NEW a \in SPValues, Height(a) < H, InUse(0) \subseteq Ram
         PROVE  Pushed(mem, SP, b, v)[a] = mem[a]
    <2>1. a \in Ram
      BY <1>12, <1>1, <1>4, <1>5, <1>10, <1>8
    <2>2. Height(a) \in Nat /\ Wrapped(SP - a) = M + Height(a) - H
      BY <1>12, <1>8, <1>1, <1>4
    <2>3. ~ Wrapped(SP - a) < b
      BY <2>2, <1>1, <1>4, <1>5
    <2> QED BY <2>1, <2>3, <1>9
  <1> QED BY <1>7, <1>11, <1>12 DEF H, top

(* What was pushed is what mem_pop reads where the pointer then is. *)
LEMMA PushedValue ==
    ASSUME MemStackAssumption, StackTypes, NEW b \in {1, PC_size}, Room(b),
           NEW v \in IF b = 1 THEN Bytes ELSE 0..Capacity
    PROVE  Popped(Pushed(mem, SP, b, v), Wrapped(SP - b), b) =
              IF b # 1 /\ v = Capacity THEN 0 ELSE v
  <1> DEFINE m(i) == Pushed(mem, SP, b, v)[Wrapped(Wrapped(SP - b) + i)]
  <1>1. b \in 1..3 /\ (b = 1 \/ b = 2 \/ b = 3) /\ PC_size \in 2..3
    BY DEF MemStackAssumption
  <1>2. \A i \in 1..b : m(i) = ByteOf(v, b - i)
    BY <1>1, PushStores
  <1>3. Popped(Pushed(mem, SP, b, v), Wrapped(SP - b), b) =
           IF b = 1 THEN m(1)
           ELSE IF b = 2 THEN m(1) * Byte + m(2) ELSE (m(1) * Byte + m(2)) * Byte + m(3)
    BY DEF Popped
  <1> HIDE DEF m
  <1>4. CASE b = 1
    <2>1. v \in Bytes /\ m(1) = ByteOf(v, 0)
      BY <1>2, <1>4
    <2> QED BY <2>1, <1>3, <1>4, BytesTogether
  <1>5. CASE b = 2
    <2>1. v \in 0..Capacity /\ PC_size = 2 /\ m(1) = ByteOf(v, 1) /\ m(2) = ByteOf(v, 0)
      BY <1>1, <1>2, <1>5
    <2>2. ByteOf(v, 1) * Byte + ByteOf(v, 0) = IF v = Capacity THEN 0 ELSE v
      BY <2>1, BytesTogether
    <2> QED BY <2>1, <2>2, <1>3, <1>5
  <1>6. CASE b = 3
    <2>1. /\ v \in 0..Capacity /\ PC_size = 3
          /\ m(1) = ByteOf(v, 2) /\ m(2) = ByteOf(v, 1) /\ m(3) = ByteOf(v, 0)
      BY <1>1, <1>2, <1>6
    <2>2. (ByteOf(v, 2) * Byte + ByteOf(v, 1)) * Byte + ByteOf(v, 0)
             = IF v = Capacity THEN 0 ELSE v
      BY <2>1, BytesTogether
    <2> QED BY <2>1, <2>2, <1>3, <1>6
  <1> QED BY <1>1, <1>4, <1>5, <1>6

(* A value that was pushed has bytes. *)
LEMMA PushedTyped ==
    ASSUME MemStackAssumption, StackTypes, NEW b \in {1, PC_size}, Room(b),
           NEW v \in IF b = 1 THEN Bytes ELSE 0..Capacity
    PROVE  Pushed(mem, SP, b, v) \in [Ram -> Bytes]
  <1>1. b \in 1..3 /\ SPValues \subseteq Int /\ Ram \subseteq SPValues
    BY DEF MemStackAssumption, SPValues
  <1>2. SP \in SPValues
    BY PointerTyped DEF StackTypes
  <1>3. \A i \in Nat : i < b => ByteOf(v, i) \in Bytes
    <2>1. CASE b = 1
      <3>1. v \in Bytes /\ ByteOf(v, 0) = v
        BY <2>1, BytesTogether
      <3> QED BY <3>1, <2>1
    <2>2. CASE b # 1
      <3>1. v \in 0..Capacity
        BY <2>2
      <3> QED BY <3>1, <1>1, BytesTogether
    <2> QED BY <2>1, <2>2
  <1>4. ASSUME NEW a \in Ram PROVE Wrapped(SP - a) \in Nat
    <2>1. SP - a \in Int /\ Byte * Byte \in Nat \ {0}
      BY <1>1, <1>2 DEF MemStackAssumption
    <2> QED BY <2>1 DEF Wrapped
  <1>5. mem \in [Ram -> Bytes]
    BY DEF StackTypes
  <1>6. ASSUME NEW a \in Ram
        PROVE  (IF Wrapped(SP - a) < b THEN ByteOf(v, Wrapped(SP - a)) ELSE mem[a]) \in Bytes
    BY <1>3, <1>4, <1>5
  <1> QED BY <1>6 DEF Pushed

(* PC_set: what CALL pushed leads to the address after it, also when that  *)
(* is the one beyond the last, which a full flash cannot tell from 0.      *)
LEMMA Adjusted ==
    ASSUME MemStackAssumption, NEW v \in 0..PC_max
    PROVE  /\ AdjustPC(v) = v % PC_max
           /\ AdjustPC(v) \in 0..(PC_max - 1)
           /\ AdjustPC(IF v = Capacity THEN 0 ELSE v) = v % PC_max
           /\ v \in 0..Capacity
  <1>1. Capacity \in Nat /\ PC_max \in Nat \ {0} /\ PC_max <= Capacity
    <2>1. Byte * Byte \in Nat /\ Byte * Byte * Byte \in Nat
      BY DEF MemStackAssumption
    <2> QED BY <2>1 DEF MemStackAssumption, Capacity
  <1>2. v % PC_max = IF v >= PC_max THEN v - PC_max ELSE v
    <2>1. v \in Int /\ -PC_max <= v /\ v < 2 * PC_max /\ ~ v < 0
      BY <1>1
    <2> QED BY <1>1, <2>1, WrapOnce
  <1> QED BY <1>1, <1>2 DEF AdjustPC

----------------------------------------------------------------------------
(* Steps that push and pop *)

(* A function of 1..L is a sequence of L elements. *)
LEMMA AsSequence ==
    ASSUME NEW S, NEW L \in Nat, NEW s \in [1..L -> S]
    PROVE  s \in Seq(S) /\ Len(s) = L
  <1>1. s \in Seq(S)
    BY SeqDef
  <1>2. Len(s) \in Nat /\ 1..Len(s) = 1..L
    BY <1>1, LenProperties
  <1>3. Len(s) = L
    <2> DEFINE k == Len(s)
    <2>1. k \in Nat /\ \A i \in Int : i \in 1..k <=> i \in 1..L
      BY <1>2
    <2> HIDE DEF k
    <2>2. (k \in 1..k <=> k \in 1..L) /\ (L \in 1..k <=> L \in 1..L)
      BY <2>1
    <2>3. k = L
      BY <2>1, <2>2
    <2> QED BY <2>3 DEF k
  <1> QED BY <1>1, <1>3

(* A sequence that continues another by one element. *)
LEMMA AppendIs ==
    ASSUME NEW S, NEW L \in Nat, NEW s \in [1..L -> S], NEW t \in [1..(L + 1) -> S],
           \A n \in 1..L : t[n] = s[n]
    PROVE  t = Append(s, t[L + 1])
  <1>1. s \in Seq(S) /\ Len(s) = L
    BY AsSequence
  <1>2. t \in Seq(S) /\ Len(t) = L + 1
    <2>1. L + 1 \in Nat
      OBVIOUS
    <2> QED BY <2>1, AsSequence
  <1> DEFINE u == Append(s, t[L + 1])
  <1>3. t[L + 1] \in S
    OBVIOUS
  <1>4. u \in Seq(S) /\ Len(u) = L + 1 /\ u[L + 1] = t[L + 1] /\ \A n \in 1..L : u[n] = s[n]
    BY <1>1, <1>3
  <1> HIDE DEF u
  <1>5. \A n \in 1..Len(t) : t[n] = u[n]
    BY <1>2, <1>4
  <1>6. t = u
    BY <1>2, <1>4, <1>5, SeqEqual
  <1> QED BY <1>6 DEF u

(* Front takes the last element away. *)
LEMMA FrontFacts ==
    ASSUME NEW S, NEW s \in Seq(S), s # <<>>
    PROVE  /\ Front(s) \in Seq(S) /\ Len(Front(s)) = Len(s) - 1
           /\ \A n \in 1..(Len(s) - 1) : Front(s)[n] = s[n]
  <1> DEFINE n == Len(s) - 1
  <1>1. n \in Nat /\ \A i \in 1..n : s[i] \in S
    BY LenProperties, EmptySeq
  <1> HIDE DEF n
  <1>2. /\ SubSeq(s, 1, n) \in Seq(S)
        /\ Len(SubSeq(s, 1, n)) = IF 1 <= n THEN n - 1 + 1 ELSE 0
        /\ \A i \in 1..(n - 1 + 1) : SubSeq(s, 1, n)[i] = s[1 + i - 1]
    BY <1>1, SubSeqProperties
  <1>3. /\ Len(SubSeq(s, 1, n)) = n
        /\ \A i \in 1..n : SubSeq(s, 1, n)[i] = s[i]
    BY <1>1, <1>2
  <1> QED BY <1>2, <1>3 DEF Front, n

(* Last takes an element. *)
LEMMA LastFacts ==
    ASSUME NEW S, NEW s \in Seq(S), s # <<>>
    PROVE  Last(s) \in S
  <1>1. Len(s) \in 1..Len(s)
    BY LenProperties, EmptySeq
  <1> QED BY <1>1, ElementOfSeq DEF Last

(* A sequence that has one element less. *)
LEMMA FrontIs ==
    ASSUME NEW S, NEW k \in Nat, NEW s \in [1..(k + 1) -> S], NEW t \in [1..k -> S],
           \A n \in 1..k : t[n] = s[n]
    PROVE  t = Front(s) /\ Last(s) = s[k + 1] /\ s # <<>>
  <1>1. s \in Seq(S) /\ Len(s) = k + 1
    <2>1. k + 1 \in Nat
      OBVIOUS
    <2> QED BY <2>1, AsSequence
  <1>2. t \in Seq(S) /\ Len(t) = k
    BY AsSequence
  <1>3. s # <<>>
    BY <1>1, EmptySeq
  <1> DEFINE u == Front(s)
  <1>4. u \in Seq(S) /\ Len(u) = k /\ \A n \in 1..k : u[n] = s[n]
    BY <1>1, <1>3, FrontFacts
  <1> HIDE DEF u
  <1>5. \A n \in 1..Len(t) : t[n] = u[n]
    BY <1>2, <1>4
  <1>6. t = u
    BY <1>2, <1>4, <1>5, SeqEqual
  <1>7. Last(s) = s[k + 1]
    BY <1>1 DEF Last
  <1> QED BY <1>3, <1>6, <1>7 DEF u

(* No frame reaches beyond the stack pointer. *)
LEMMA TopIsHighest ==
    ASSUME MemStackAssumption, StackTypes, FramesStacked
    PROVE  \A n \in DOMAIN frames : /\ Height(frames[n].sp) \in Nat
                                    /\ Height(frames[n].sp) <= Height(SP)
  <1> DEFINE F == [sp : SPValues, bytes : 1..3]
             L == Len(frames)
  <1>1. frames \in Seq(F) /\ bottom \in SPValues
    BY DEF StackTypes
  <1>2. \A f \in F : f.sp \in SPValues /\ f.bytes \in Nat
    OBVIOUS
  <1> HIDE DEF F
  <1>3. DOMAIN frames = 1..L /\ L \in Nat /\ \A n \in 1..L : frames[n] \in F
    BY <1>1
  <1>4. \A n \in 1..L : Height(frames[n].sp) \in Nat /\ frames[n].bytes \in Nat
    <2>1. \A n \in 1..L : Height(frames[n].sp) \in SPValues
      BY <1>1, <1>2, <1>3, Heights
    <2> QED BY <2>1, <1>2, <1>3 DEF SPValues
  <1>5. /\ frames # <<>> => SP = frames[L].sp
        /\ \A k, n \in 1..L :
              k < n => Height(frames[k].sp) <= Height(frames[n].sp) - frames[n].bytes
    BY <1>3 DEF FramesStacked
  <1> HIDE DEF L
  <1>6. ASSUME NEW n \in 1..L PROVE Height(frames[n].sp) <= Height(SP)
    <2>1. L \in 1..L /\ SP = frames[L].sp
      BY <1>3, <1>5
    <2>2. CASE n = L
      BY <2>1, <2>2, <1>4
    <2>3. CASE n # L
      <3>1. n < L
        BY <2>3, <1>3
      <3>2. Height(frames[n].sp) <= Height(frames[L].sp) - frames[L].bytes
        BY <3>1, <2>1, <1>5
      <3> QED BY <3>2, <2>1, <1>4
    <2> QED BY <2>2, <2>3
  <1> QED BY <1>3, <1>4, <1>6

(* What a push adds to the frames and to the promised items. *)
LEMMA PushKeeps ==
    ASSUME MemStackAssumption, StackInv, NEW b \in {1, PC_size}, Room(b),
           NEW v \in IF b = 1 THEN Bytes ELSE 0..PC_max,
           StackPush(b, v), bottom' = bottom
    PROVE  /\ mem' \in [Ram -> Bytes] /\ SPL' \in Bytes /\ SPH' \in Bytes
           /\ frames' \in Seq([sp : SPValues, bytes : 1..3])
           /\ FramesStacked'
           /\ Items' = Append(Items, IF b = 1 THEN [byte |-> v]
                                     ELSE [address |-> v % PC_max])
  <1> DEFINE top == Wrapped(SP - b)
             new == [sp |-> top, bytes |-> b]
             F   == [sp : SPValues, bytes : 1..3]
             L   == Len(frames)
  <1>1. b \in 1..3 /\ (b = 1 \/ b = PC_size) /\ PC_size # 1
    BY DEF MemStackAssumption
  <1>2. StackTypes /\ FramesStacked
    BY DEF StackInv
  <1>3. v \in IF b = 1 THEN Bytes ELSE 0..Capacity
    BY Adjusted
  <1>4. top \in SPValues /\ Height(top) = Height(SP) + b
    BY <1>1, <1>2, PushStores
  <1>5. mem' = Pushed(mem, SP, b, v) /\ SPBecomes(top) /\ frames' = Append(frames, new)
    BY DEF StackPush
  <1>6. mem' \in [Ram -> Bytes]
    BY <1>2, <1>3, <1>5, PushedTyped
  <1>7. SPL' \in Bytes /\ SPH' \in Bytes /\ SP' = top
    BY <1>4, <1>5, PointerSet
  <1>8. frames \in Seq(F) /\ L \in Nat /\ new \in F /\ new.sp = top /\ new.bytes = b
    BY <1>1, <1>2, <1>4 DEF StackTypes
  <1>9. \A f \in F : f.sp \in SPValues /\ f.bytes \in Nat
    OBVIOUS
  <1> HIDE DEF F, new
  <1>10. /\ frames' \in Seq(F) /\ Len(frames') = L + 1 /\ frames' # <<>>
         /\ frames'[L + 1] = new
         /\ \A n \in 1..L : frames'[n] = frames[n] /\ frames[n] \in F
         /\ DOMAIN frames = 1..L /\ DOMAIN frames' = 1..(L + 1)
    BY <1>5, <1>8
  <1>11. /\ Height(SP) \in Nat /\ SPValues \subseteq Nat /\ Height(bottom) = 0
         /\ bottom \in SPValues /\ SP \in SPValues
    <2>1. SP \in SPValues /\ bottom \in SPValues /\ SPValues \subseteq Nat
      BY <1>2, PointerTyped DEF StackTypes, SPValues
    <2> QED BY <2>1, Heights
  <1>12. /\ SP = IF L = 0 THEN bottom ELSE frames[L].sp
         /\ \A n \in 1..L :
               /\ FrameOK(frames[n])
               /\ Height(frames[n].sp) =
                     frames[n].bytes + IF n = 1 THEN 0 ELSE Height(frames[n - 1].sp)
         /\ \A k, n \in 1..L :
               k < n => Height(frames[k].sp) <= Height(frames[n].sp) - frames[n].bytes
         /\ InUse(0) \subseteq Ram
    <2>1. frames = <<>> <=> L = 0
      BY <1>8
    <2> QED BY <1>2, <1>10, <2>1 DEF FramesStacked
  <1>13. \A n \in 1..L : frames[n].sp \in SPValues /\ frames[n].bytes \in Nat
    BY <1>9, <1>10
  <1>14. \A n \in 1..L : /\ Height(frames[n].sp) \in Nat
                         /\ Height(frames[n].sp) <= Height(SP)
    BY <1>2, <1>10, TopIsHighest
  <1> HIDE DEF top, L
  <1>15. FramesStacked'
    <2>1. SP' = frames'[Len(frames')].sp
      BY <1>7, <1>8, <1>10
    <2>2. \A n \in 1..(L + 1) : FrameOK(frames'[n])
      <3> TAKE n \in 1..(L + 1)
      <3>1. CASE n = L + 1
        BY <3>1, <1>1, <1>4, <1>8, <1>10, <1>11 DEF FrameOK
      <3>2. CASE n # L + 1
        <4>1. n \in 1..L
          BY <3>2, <1>8
        <4> QED BY <4>1, <1>10, <1>12
      <3> QED BY <3>1, <3>2
    <2>3. \A n \in 1..(L + 1) : Height(frames'[n].sp) =
              frames'[n].bytes + IF n = 1 THEN 0 ELSE Height(frames'[n - 1].sp)
      <3> TAKE n \in 1..(L + 1)
      <3>1. CASE n = L + 1
        <4>1. frames'[n].bytes = b /\ frames'[n].sp = top
          BY <3>1, <1>8, <1>10
        <4>2. CASE L = 0
          BY <4>1, <4>2, <3>1, <1>1, <1>4, <1>11, <1>12
        <4>3. CASE L # 0
          <5>1. L \in 1..L /\ n - 1 = L /\ n # 1
            BY <4>3, <3>1, <1>8
          <5>2. frames'[n - 1] = frames[L] /\ SP = frames[L].sp
            BY <5>1, <1>10, <1>12
          <5> QED BY <4>1, <5>1, <5>2, <1>1, <1>4, <1>11
        <4> QED BY <4>2, <4>3
      <3>2. CASE n # L + 1
        <4>1. n \in 1..L /\ (n # 1 => n - 1 \in 1..L)
          BY <3>2, <1>8
        <4>2. frames'[n] = frames[n] /\ (n # 1 => frames'[n - 1] = frames[n - 1])
          BY <4>1, <1>10
        <4> QED BY <4>1, <4>2, <1>12
      <3> QED BY <3>1, <3>2
    <2>4. ASSUME NEW k \in 1..(L + 1), NEW n \in 1..(L + 1), k < n
          PROVE  Height(frames'[k].sp) <= Height(frames'[n].sp) - frames'[n].bytes
      <3>1. k \in 1..L /\ frames'[k] = frames[k]
        BY <2>4, <1>8, <1>10
      <3>2. CASE n = L + 1
        BY <3>1, <3>2, <1>1, <1>4, <1>8, <1>10, <1>11, <1>14
      <3>3. CASE n # L + 1
        <4>1. n \in 1..L /\ frames'[n] = frames[n]
          BY <3>3, <1>8, <1>10
        <4> QED BY <3>1, <4>1, <2>4, <1>12
      <3> QED BY <3>2, <3>3
    <2>5. InUse(0)' \subseteq Ram
      <3>1. Height(SP)' = Height(SP) + b
        BY <1>4, <1>7 DEF Height, Wrapped
      <3>2. InUse(0)' = InUse(b)
        BY <3>1, <1>1, <1>11 DEF InUse, Wrapped
      <3> QED BY <3>2 DEF Room
    <2> QED BY <2>1, <2>2, <2>3, <2>4, <2>5, <1>10 DEF FramesStacked, FrameOK, Height
  <1> DEFINE S == {Items[n] : n \in 1..L} \cup {Items'[n] : n \in 1..(L + 1)}
  <1>16. Items \in [1..L -> S] /\ \A n \in 1..L : Items[n] = Item(mem, frames[n])
    BY <1>10 DEF Items
  <1>17. /\ Items' \in [1..(L + 1) -> S]
         /\ \A n \in 1..(L + 1) : Items'[n] = Item(mem', frames'[n])
    BY <1>10 DEF Items
  <1> HIDE DEF S
  <1>18. \A n \in 1..L : Items'[n] = Items[n]
    <2> TAKE n \in 1..L
    <2>1. frames'[n] = frames[n] /\ Items'[n] = Item(mem', frames'[n])
      BY <1>8, <1>10, <1>17
    <2>2. frames[n] \in [sp : SPValues, bytes : 1..3] /\ FrameOK(frames[n])
      BY <1>10, <1>12 DEF F
    <2>3. ASSUME NEW a \in SPValues, Height(a) < Height(frames[n].sp)
          PROVE  mem[a] = mem'[a]
      <3>1. Height(a) \in Nat
        BY <1>11, Heights
      <3>2. Height(a) < Height(SP)
        BY <2>3, <3>1, <1>11, <1>14
      <3> QED BY <3>2, <1>1, <1>2, <1>5, <1>12, PushStores
    <2>4. Item(mem, frames[n]) = Item(mem', frames[n])
      BY <2>2, <2>3, <1>11, ItemUntouched
    <2> QED BY <2>1, <2>4, <1>16
  <1>19. Items'[L + 1] = IF b = 1 THEN [byte |-> v] ELSE [address |-> v % PC_max]
    <2>1. Items'[L + 1] = Item(mem', new)
      BY <1>8, <1>10, <1>17
    <2>2. Popped(mem', top, b) = IF b # 1 /\ v = Capacity THEN 0 ELSE v
      BY <1>2, <1>3, <1>5, PushedValue DEF top
    <2>3. b # 1 => AdjustPC(IF v = Capacity THEN 0 ELSE v) = v % PC_max
      BY Adjusted
    <2> QED BY <2>1, <2>2, <2>3, <1>8 DEF Item
  <1>20. Items' = Append(Items, Items'[L + 1])
    BY <1>8, <1>16, <1>17, <1>18, AppendIs
  <1> QED BY <1>6, <1>7, <1>10, <1>15, <1>19, <1>20 DEF F

(* What a pop takes away from them, and that it reads the last item. *)
LEMMA PopKeeps ==
    ASSUME MemStackAssumption, StackInv, NEW b \in {1, PC_size},
           StackPop(b), bottom' = bottom
    PROVE  /\ mem' \in [Ram -> Bytes] /\ SPL' \in Bytes /\ SPH' \in Bytes
           /\ frames' \in Seq([sp : SPValues, bytes : 1..3])
           /\ FramesStacked'
           /\ Items # <<>> /\ Items' = Front(Items)
           /\ LET v == Popped(mem, SP, b) IN
              Last(Items) = IF b = 1 THEN [byte |-> v] ELSE [address |-> AdjustPC(v)]
  <1> DEFINE F   == [sp : SPValues, bytes : 1..3]
             L   == Len(frames)
             top == Wrapped(SP + b)
  <1>1. b \in 1..3
    BY DEF MemStackAssumption
  <1>2. StackTypes /\ FramesStacked
    BY DEF StackInv
  <1>3. /\ frames # <<>> /\ Last(frames).bytes = b /\ SPBecomes(top)
        /\ frames' = Front(frames) /\ mem' = mem
    BY DEF StackPop
  <1>4. \A f \in F : f.sp \in SPValues /\ f.bytes \in Nat
    OBVIOUS
  <1>5. frames \in Seq(F)
    BY <1>2 DEF StackTypes
  <1> HIDE DEF F
  <1>6. /\ L \in Nat \ {0} /\ DOMAIN frames = 1..L
        /\ \A n \in 1..L : frames[n] \in F
    BY <1>3, <1>5
  <1>7. /\ frames' \in Seq(F) /\ Len(frames') = L - 1 /\ DOMAIN frames' = 1..(L - 1)
        /\ (frames' = <<>> <=> L = 1)
        /\ \A n \in 1..(L - 1) : frames'[n] = frames[n]
        /\ frames[L].bytes = b
    <2>1. /\ frames' \in Seq(F) /\ Len(frames') = L - 1
          /\ \A n \in 1..(L - 1) : frames'[n] = frames[n]
      BY <1>3, <1>5, FrontFacts
    <2>2. DOMAIN frames' = 1..(L - 1) /\ (frames' = <<>> <=> L - 1 = 0)
      BY <2>1, LenProperties, EmptySeq
    <2>3. frames[L].bytes = b
      BY <1>3 DEF Last
    <2> QED BY <2>1, <2>2, <2>3, <1>6
  <1>8. /\ Height(SP) \in Nat /\ SPValues \subseteq Nat
        /\ bottom \in SPValues /\ SP \in SPValues
    <2>1. SP \in SPValues /\ bottom \in SPValues /\ SPValues \subseteq Nat
      BY <1>2, PointerTyped DEF StackTypes, SPValues
    <2> QED BY <2>1, Heights
  <1>9. /\ SP = frames[L].sp
        /\ \A n \in 1..L :
              /\ FrameOK(frames[n])
              /\ Height(frames[n].sp) =
                    frames[n].bytes + IF n = 1 THEN 0 ELSE Height(frames[n - 1].sp)
        /\ \A k, n \in 1..L :
              k < n => Height(frames[k].sp) <= Height(frames[n].sp) - frames[n].bytes
        /\ InUse(0) \subseteq Ram
    BY <1>2, <1>3, <1>6 DEF FramesStacked
  <1> HIDE DEF L
  <1>10. top \in SPValues /\ Height(top) = Height(SP) - b
    <2>1. b \in 0..Height(SP)
      BY <1>1, <1>6, <1>7, <1>8, <1>9 DEF FrameOK
    <2> QED BY <2>1, <1>8, Heights
  <1>11. SPL' \in Bytes /\ SPH' \in Bytes /\ SP' = top
    BY <1>3, <1>10, PointerSet
  <1> HIDE DEF top
  <1>12. top = IF L = 1 THEN bottom ELSE frames[L - 1].sp
    <2> DEFINE under == IF L = 1 THEN bottom ELSE frames[L - 1].sp
    <2>1. under \in SPValues
      BY <1>4, <1>6, <1>8
    <2>2. Height(under) = Height(SP) - b
      <3>1. Height(SP) = b + IF L = 1 THEN 0 ELSE Height(frames[L - 1].sp)
        BY <1>6, <1>7, <1>9
      <3>2. CASE L = 1
        <4>1. Height(bottom) = 0
          BY <1>8, Heights
        <4> QED BY <4>1, <3>1, <3>2, <1>1
      <3>3. CASE L # 1
        <4>1. Height(frames[L - 1].sp) \in Nat
          BY <3>3, <2>1, <1>8, Heights
        <4> QED BY <4>1, <3>1, <3>3, <1>1
      <3> QED BY <3>2, <3>3
    <2> HIDE DEF under
    <2>3. Wrapped(bottom - Height(under)) = under /\ Wrapped(bottom - Height(top)) = top
      BY <2>1, <1>8, <1>10, Heights
    <2>4. under = top
      BY <2>2, <2>3, <1>10
    <2> QED BY <2>4 DEF under
  <1>13. FramesStacked'
    <2>1. SP' = IF frames' = <<>> THEN bottom ELSE frames'[Len(frames')].sp
      <3>1. CASE L = 1
        BY <3>1, <1>7, <1>11, <1>12
      <3>2. CASE L # 1
        <4>1. L - 1 \in 1..(L - 1)
          BY <3>2, <1>6
        <4> QED BY <4>1, <3>2, <1>7, <1>11, <1>12
      <3> QED BY <3>1, <3>2
    <2>2. ASSUME NEW n \in 1..(L - 1)
          PROVE  n \in 1..L /\ frames'[n] = frames[n]
                 /\ (n # 1 => n - 1 \in 1..(L - 1) /\ frames'[n - 1] = frames[n - 1])
      BY <1>6, <1>7
    <2>3. \A n \in 1..(L - 1) : FrameOK(frames'[n])
      BY <2>2, <1>9
    <2>4. \A n \in 1..(L - 1) : Height(frames'[n].sp) =
              frames'[n].bytes + IF n = 1 THEN 0 ELSE Height(frames'[n - 1].sp)
      <3> TAKE n \in 1..(L - 1)
      <3>1. Height(frames[n].sp) =
               frames[n].bytes + IF n = 1 THEN 0 ELSE Height(frames[n - 1].sp)
        BY <2>2, <1>9
      <3> QED BY <3>1, <2>2
    <2>5. \A k, n \in 1..(L - 1) :
             k < n => Height(frames'[k].sp) <= Height(frames'[n].sp) - frames'[n].bytes
      BY <2>2, <1>9
    <2>6. InUse(0)' \subseteq Ram
      <3>1. Height(SP)' = Height(SP) - b
        BY <1>10, <1>11 DEF Height, Wrapped
      <3>2. InUse(0)' \subseteq InUse(0)
        BY <3>1, <1>1, <1>8 DEF InUse, Wrapped
      <3> QED BY <3>2, <1>9
    <2> QED BY <2>1, <2>3, <2>4, <2>5, <2>6, <1>7 DEF FramesStacked, FrameOK, Height
  <1> DEFINE S == {Items[n] : n \in 1..L}
  <1>14. Items \in [1..L -> S] /\ \A n \in 1..L : Items[n] = Item(mem, frames[n])
    BY <1>6 DEF Items
  <1>15. Items' = [n \in 1..(L - 1) |-> Item(mem, frames'[n])]
    BY <1>3, <1>7 DEF Items
  <1>16. \A n \in 1..(L - 1) : Item(mem, frames'[n]) = Items[n] /\ Items[n] \in S
    BY <1>6, <1>7, <1>14
  <1> HIDE DEF S
  <1>17. Items' \in [1..(L - 1) -> S] /\ \A n \in 1..(L - 1) : Items'[n] = Items[n]
    BY <1>15, <1>16
  <1>18. Items # <<>> /\ Items' = Front(Items) /\ Last(Items) = Items[L]
    <2> DEFINE k == L - 1
    <2>1. k \in Nat /\ L = k + 1
      BY <1>6
    <2> HIDE DEF k
    <2>2. Items \in [1..(k + 1) -> S]
      BY <2>1, <1>14
    <2>3. Items' \in [1..k -> S] /\ \A n \in 1..k : Items'[n] = Items[n]
      BY <1>17 DEF k
    <2>4. Items' = Front(Items) /\ Last(Items) = Items[k + 1] /\ Items # <<>>
      BY <2>1, <2>2, <2>3, FrontIs
    <2> QED BY <2>1, <2>4
  <1>19. Items[L] = LET v == Popped(mem, SP, b) IN
                    IF b = 1 THEN [byte |-> v] ELSE [address |-> AdjustPC(v)]
    BY <1>6, <1>7, <1>9, <1>14 DEF Item
  <1>20. mem' \in [Ram -> Bytes]
    BY <1>2, <1>3 DEF StackTypes
  <1> QED BY <1>7, <1>11, <1>13, <1>18, <1>19, <1>20 DEF F

(* The next address, as PC_incr makes it. *)
LEMMA NextPC ==
    ASSUME MemStackAssumption, PC \in 0..(PC_max - 1)
    PROVE  /\ PC_max \in Nat \ {0}
           /\ AdjustPC(PC + 1) = (PC + 1) % PC_max
           /\ AdjustPC(PC + 1) \in 0..(PC_max - 1)
  <1>1. PC_max \in Nat \ {0} /\ PC + 1 \in 0..PC_max
    <2>1. Byte * Byte \in Nat /\ Byte * Byte * Byte \in Nat
      BY DEF MemStackAssumption
    <2>2. PC_max \in Nat \ {0}
      BY <2>1 DEF MemStackAssumption, Capacity
    <2> QED BY <2>2
  <1> QED BY <1>1, Adjusted

----------------------------------------------------------------------------
(* Every step keeps the invariant, and is one of the promise's. *)

(* The invariant holds at the start. *)
LEMMA StackInit ==
    ASSUME MemStackAssumption, Init
    PROVE  StackInv /\ Promise!Init
  <1>1. Byte \in Nat /\ Byte > 1 /\ Byte * Byte \in Nat /\ Byte * Byte > 0
    BY DEF MemStackAssumption
  <1>2. PC_max \in Nat /\ PC_max > 1
    <2>1. Byte * Byte \in Nat /\ Byte * Byte * Byte \in Nat
      BY <1>1
    <2> QED BY <2>1 DEF MemStackAssumption, Capacity
  <1>3. 0 \in Bytes /\ 0 \in SPValues /\ 0 \in 0..(PC_max - 1)
    BY <1>1, <1>2 DEF Bytes, SPValues
  <1>4. /\ mem = [a \in Ram |-> 0] /\ SPL = 0 /\ SPH = 0 /\ PC = 0 /\ Rd = 0
        /\ bottom = 0 /\ frames = <<>>
    BY DEF Init
  <1>5. StackTypes
    BY <1>3, <1>4 DEF StackTypes
  <1>6. SP = 0
    BY <1>1, <1>4 DEF SP
  <1>7. FramesStacked
    <2>1. Height(0) = 0
      BY <1>3, <1>4, Heights
    <2>2. InUse(0) = {}
      BY <2>1, <1>6 DEF InUse
    <2>3. DOMAIN frames = {}
      BY <1>4
    <2> QED BY <2>2, <2>3, <1>4, <1>6 DEF FramesStacked
  <1>8. Items = <<>>
    BY <1>4 DEF Items
  <1>9. ItemsTyped
    BY <1>8 DEF ItemsTyped
  <1> QED BY <1>4, <1>5, <1>7, <1>8, <1>9 DEF StackInv, Promise!Init

(* A call, of two words only where the second lies in flash. *)
LEMMA CallStep ==
    ASSUME MemStackAssumption, StackInv, NEW n \in 0..2, Call(n)
    PROVE  StackInv' /\ Promise!Call(n)
  <1>1. PC_size \in {1, PC_size} /\ PC_size # 1 /\ Targets \subseteq 0..(PC_max - 1)
    BY DEF MemStackAssumption
  <1>2. PC \in 0..(PC_max - 1) /\ Rd \in Bytes /\ bottom \in SPValues
    BY DEF StackInv, StackTypes
  <1>3. PC + n \in 0..PC_max
    BY <1>2, NextPC DEF Call
  <1>4. /\ Room(PC_size) /\ StackPush(PC_size, PC + n)
        /\ PC' \in Targets /\ Rd' = Rd /\ bottom' = bottom
    BY DEF Call
  <1>5. /\ mem' \in [Ram -> Bytes] /\ SPL' \in Bytes /\ SPH' \in Bytes
        /\ frames' \in Seq([sp : SPValues, bytes : 1..3])
        /\ FramesStacked'
        /\ Items' = Append(Items, [address |-> (PC + n) % PC_max])
    BY <1>1, <1>3, <1>4, PushKeeps
  <1>6. ItemsTyped'
    <2>1. [address |-> (PC + n) % PC_max] \in ItemValues
      BY <1>3, Adjusted DEF ItemValues
    <2> QED BY <2>1, <1>5 DEF StackInv, ItemsTyped, ItemValues
  <1>7. StackInv'
    BY <1>1, <1>2, <1>4, <1>5, <1>6 DEF StackInv, StackTypes
  <1> QED BY <1>1, <1>4, <1>5, <1>7 DEF Promise!Call, Promise!Addresses

(* RET and RETI. *)
LEMMA ReturnStep ==
    ASSUME MemStackAssumption, StackInv, Return
    PROVE  StackInv' /\ Promise!Return
  <1>1. PC_size \in {1, PC_size} /\ PC_size # 1 /\ PC_size \in 1..3
    BY DEF MemStackAssumption
  <1>2. PC \in 0..(PC_max - 1) /\ Rd \in Bytes /\ bottom \in SPValues
    BY DEF StackInv, StackTypes
  <1>3. /\ StackPop(PC_size) /\ PC' = AdjustPC(Popped(mem, SP, PC_size))
        /\ Rd' = Rd /\ bottom' = bottom
    BY DEF Return
  <1>4. /\ mem' \in [Ram -> Bytes] /\ SPL' \in Bytes /\ SPH' \in Bytes
        /\ frames' \in Seq([sp : SPValues, bytes : 1..3])
        /\ FramesStacked'
        /\ Items # <<>> /\ Items' = Front(Items)
        /\ Last(Items) = [address |-> AdjustPC(Popped(mem, SP, PC_size))]
    BY <1>1, <1>3, PopKeeps
  <1>5. Last(Items) \in ItemValues /\ Items' \in Seq(ItemValues)
    BY <1>4, LastFacts, FrontFacts DEF StackInv, ItemsTyped
  <1>6. PC' \in 0..(PC_max - 1)
    BY <1>3, <1>4, <1>5 DEF ItemValues
  <1>7. StackInv'
    BY <1>2, <1>3, <1>4, <1>5, <1>6 DEF StackInv, StackTypes, ItemsTyped, ItemValues
  <1>8. PC' = Last(Items).address /\ "address" \in DOMAIN Last(Items)
    BY <1>3, <1>4
  <1> QED BY <1>3, <1>4, <1>7, <1>8
          DEF Promise!Return, Promise!Last, Promise!Front, Last, Front

(* PUSH. *)
LEMMA PushStep ==
    ASSUME MemStackAssumption, StackInv, Push
    PROVE  StackInv' /\ Promise!Push
  <1>1. /\ PC \in 0..(PC_max - 1) /\ Rd \in Bytes /\ bottom \in SPValues
        /\ AdjustPC(PC + 1) = (PC + 1) % PC_max
        /\ AdjustPC(PC + 1) \in 0..(PC_max - 1)
    BY NextPC DEF StackInv, StackTypes
  <1>2. /\ Room(1) /\ StackPush(1, Rd) /\ PC' = AdjustPC(PC + 1)
        /\ Rd' = Rd /\ bottom' = bottom
    BY DEF Push
  <1>3. /\ mem' \in [Ram -> Bytes] /\ SPL' \in Bytes /\ SPH' \in Bytes
        /\ frames' \in Seq([sp : SPValues, bytes : 1..3])
        /\ FramesStacked'
        /\ Items' = Append(Items, [byte |-> Rd])
    BY <1>1, <1>2, PushKeeps
  <1>4. ItemsTyped'
    <2>1. [byte |-> Rd] \in ItemValues
      BY <1>1 DEF ItemValues
    <2> QED BY <2>1, <1>3 DEF StackInv, ItemsTyped, ItemValues
  <1>5. StackInv'
    BY <1>1, <1>2, <1>3, <1>4 DEF StackInv, StackTypes
  <1> QED BY <1>1, <1>2, <1>3, <1>5 DEF Promise!Push

(* POP. *)
LEMMA PopStep ==
    ASSUME MemStackAssumption, StackInv, Pop
    PROVE  StackInv' /\ Promise!Pop
  <1>1. /\ PC \in 0..(PC_max - 1) /\ bottom \in SPValues
        /\ AdjustPC(PC + 1) = (PC + 1) % PC_max
        /\ AdjustPC(PC + 1) \in 0..(PC_max - 1)
    BY NextPC DEF StackInv, StackTypes
  <1>2. /\ StackPop(1) /\ Rd' = Popped(mem, SP, 1) /\ PC' = AdjustPC(PC + 1)
        /\ bottom' = bottom
    BY DEF Pop
  <1>3. /\ mem' \in [Ram -> Bytes] /\ SPL' \in Bytes /\ SPH' \in Bytes
        /\ frames' \in Seq([sp : SPValues, bytes : 1..3])
        /\ FramesStacked'
        /\ Items # <<>> /\ Items' = Front(Items)
        /\ Last(Items) = [byte |-> Popped(mem, SP, 1)]
    BY <1>1, <1>2, PopKeeps
  <1>4. Last(Items) \in ItemValues /\ Items' \in Seq(ItemValues)
    BY <1>3, LastFacts, FrontFacts DEF StackInv, ItemsTyped
  <1>5. Rd' = Last(Items).byte /\ "byte" \in DOMAIN Last(Items) /\ Rd' \in Bytes
    BY <1>2, <1>3, <1>4 DEF ItemValues
  <1>6. StackInv'
    BY <1>1, <1>2, <1>3, <1>4, <1>5 DEF StackInv, StackTypes, ItemsTyped, ItemValues
  <1> QED BY <1>1, <1>2, <1>3, <1>5, <1>6
          DEF Promise!Pop, Promise!Last, Promise!Front, Last, Front

(* Other instructions. *)
LEMMA OtherStep ==
    ASSUME MemStackAssumption, StackInv, Other
    PROVE  StackInv' /\ Promise!Other
  <1>1. /\ PC \in 0..(PC_max - 1) /\ Rd \in Bytes
        /\ AdjustPC(PC + 1) \in 0..(PC_max - 1) /\ Targets \subseteq 0..(PC_max - 1)
    BY NextPC DEF StackInv, StackTypes, MemStackAssumption
  <1>2. /\ UNCHANGED <<mem, SPL, SPH, bottom, frames>>
        /\ Rd' \in Bytes /\ PC' \in 0..(PC_max - 1)
    BY <1>1 DEF Other
  <1>3. Items' = Items
    BY <1>2 DEF Items
  <1>4. FramesStacked'
    BY <1>2 DEF StackInv, FramesStacked, FrameOK, Height, InUse, SP
  <1>5. StackInv'
    BY <1>2, <1>3, <1>4 DEF StackInv, StackTypes, ItemsTyped, ItemValues
  <1> QED BY <1>2, <1>3, <1>5 DEF Promise!Other, Promise!Addresses

(* A store beside the stack. *)
LEMMA StoreStep ==
    ASSUME MemStackAssumption, StackInv, Store
    PROVE  StackInv' /\ Promise!Other
  <1>1. /\ PC \in 0..(PC_max - 1) /\ Rd \in Bytes
        /\ AdjustPC(PC + 1) \in 0..(PC_max - 1)
        /\ mem \in [Ram -> Bytes] /\ frames \in Seq([sp : SPValues, bytes : 1..3])
        /\ bottom \in SPValues /\ SPL \in Bytes /\ SPH \in Bytes
    BY NextPC DEF StackInv, StackTypes
  <1>2. PICK a \in Stores \ InUse(0), v \in Bytes :
           /\ mem' = [mem EXCEPT ![a] = v]
           /\ UNCHANGED <<SPL, SPH, Rd, bottom, frames>>
           /\ PC' \in 0..(PC_max - 1)
    BY <1>1 DEF Store
  <1>3. mem' \in [Ram -> Bytes]
    BY <1>1, <1>2
  <1>4. /\ SP \in SPValues /\ Height(SP) \in Nat /\ Height(SP) < Byte * Byte
        /\ SPValues \subseteq Int
    <2>1. SP \in SPValues
      BY <1>1, PointerTyped
    <2>2. Height(SP) \in SPValues
      BY <1>1, <2>1, Heights
    <2>3. Byte * Byte \in Nat
      BY DEF MemStackAssumption
    <2> QED BY <2>1, <2>2, <2>3 DEF SPValues
  <1>5. \A d \in SPValues : Height(d) < Height(SP) => d # a
    <2>1. 0 \in Nat /\ Height(SP) + 0 < Byte * Byte /\ Height(SP) + 0 = Height(SP)
      BY <1>4
    <2>2. \A d \in SPValues : d \in InUse(0) <=> Height(d) < Height(SP) + 0
      BY <1>1, <2>1, InUseHeights
    <2> QED BY <2>1, <2>2, <1>2
  <1>6. Items' = Items
    <2>1. ASSUME NEW n \in DOMAIN frames
          PROVE  Item(mem', frames[n]) = Item(mem, frames[n])
      <3>1. frames[n] \in [sp : SPValues, bytes : 1..3] /\ FrameOK(frames[n])
        <4>1. FrameOK(frames[n])
          BY DEF StackInv, FramesStacked
        <4>2. n \in 1..Len(frames)
          BY <1>1, LenProperties
        <4> QED BY <4>1, <4>2, <1>1, ElementOfSeq
      <3>2. Height(frames[n].sp) <= Height(SP)
        BY <1>1, <1>4, TopIsHighest DEF StackInv
      <3>3. \A d \in SPValues : Height(d) \in Nat
        BY <1>1, Heights DEF SPValues
      <3>4. ASSUME NEW d \in SPValues, Height(d) < Height(frames[n].sp)
            PROVE  mem'[d] = mem[d]
        <4>1. Height(frames[n].sp) \in Nat
          BY <3>1, <3>3
        <4>2. Height(d) < Height(SP)
          BY <3>2, <3>3, <3>4, <4>1, <1>4
        <4>3. d # a
          BY <4>2, <1>5
        <4> QED BY <4>3, <1>1, <1>2
      <3> QED BY <3>1, <3>4, <1>1, ItemUntouched
    <2> QED BY <2>1, <1>2 DEF Items
  <1>7. FramesStacked'
    BY <1>2 DEF StackInv, FramesStacked, FrameOK, Height, InUse, SP
  <1>8. StackInv'
    BY <1>1, <1>2, <1>3, <1>6, <1>7 DEF StackInv, StackTypes, ItemsTyped, ItemValues
  <1> QED BY <1>1, <1>2, <1>6, <1>8 DEF Promise!Other, Promise!Addresses

(* The program sets a byte of the stack pointer, while the stack is empty. *)
LEMMA SetSPStep ==
    ASSUME MemStackAssumption, StackInv, SetSP
    PROVE  StackInv' /\ Promise!Other
  <1>1. /\ PC \in 0..(PC_max - 1) /\ Rd \in Bytes
        /\ AdjustPC(PC + 1) \in 0..(PC_max - 1)
        /\ SPL \in Bytes /\ SPH \in Bytes
    BY NextPC DEF StackInv, StackTypes
  <1>2. /\ frames = <<>> /\ frames' = frames /\ mem' = mem /\ Rd' = Rd
        /\ SPL' \in Bytes /\ SPH' \in Bytes /\ bottom' = SP'
        /\ PC' = AdjustPC(PC + 1)
    BY <1>1 DEF SetSP, SP
  <1>3. SP' \in SPValues
    <2>1. Byte \in Nat \ {0} /\ SPL' \in 0..(Byte - 1) /\ SPH' \in 0..(Byte - 1)
      BY <1>2 DEF MemStackAssumption, Bytes
    <2>2. SPH' * Byte + SPL' \in 0..(Byte * Byte - 1)
      BY <2>1, DigitsUnique
    <2> QED BY <2>2 DEF SP, SPValues
  <1>4. Height(SP)' = 0
    <2>1. Height(SP)' = (bottom' - bottom') % (Byte * Byte)
      BY <1>2 DEF Height, Wrapped
    <2>2. bottom' - bottom' = 0 /\ Byte * Byte \in Nat \ {0}
      <3>1. bottom' \in Int
        BY <1>2, <1>3 DEF SPValues
      <3>2. Byte * Byte \in Nat \ {0}
        BY DEF MemStackAssumption
      <3>3. \A x \in Int : x - x = 0
        OBVIOUS
      <3>4. bottom' - bottom' = 0
        BY <3>1, <3>3
      <3> QED BY <3>2, <3>4
    <2>3. 0 % (Byte * Byte) = 0
      BY <2>2, WrapOnce
    <2> QED BY <2>1, <2>2, <2>3
  <1>5. InUse(0)' = {}
    BY <1>4 DEF InUse
  <1>6. FramesStacked'
    BY <1>2, <1>5 DEF FramesStacked
  <1>7. Items = <<>> /\ Items' = Items
    BY <1>2 DEF Items
  <1>8. StackInv'
    BY <1>1, <1>2, <1>3, <1>6, <1>7 DEF StackInv, StackTypes, ItemsTyped, ItemValues
  <1> QED BY <1>1, <1>2, <1>7, <1>8 DEF Promise!Other, Promise!Addresses

----------------------------------------------------------------------------
(* The step, for the invariant and for the refinement. *)
LEMMA StackStep ==
    ASSUME MemStackAssumption, StackInv, [Next]_vars
    PROVE  StackInv' /\ [Promise!Next]_Promise!vars
  <1>1. ASSUME NEW n \in 0..2, Call(n) PROVE StackInv' /\ Promise!Next
    BY <1>1, CallStep DEF Promise!Next
  <1>2. CASE Return
    BY <1>2, ReturnStep DEF Promise!Next
  <1>3. CASE Push
    BY <1>3, PushStep DEF Promise!Next
  <1>4. CASE Pop
    BY <1>4, PopStep DEF Promise!Next
  <1>5. CASE Other
    BY <1>5, OtherStep DEF Promise!Next
  <1>6. CASE Store
    BY <1>6, StoreStep DEF Promise!Next
  <1>7. CASE SetSP
    BY <1>7, SetSPStep DEF Promise!Next
  <1>8. CASE UNCHANGED vars
    <2>1. UNCHANGED <<mem, SPL, SPH, PC, Rd, bottom, frames>>
      BY <1>8 DEF vars
    <2>2. Items' = Items
      BY <2>1 DEF Items
    <2>3. FramesStacked'
      BY <2>1 DEF StackInv, FramesStacked, FrameOK, Height, InUse, SP
    <2>4. StackInv'
      BY <2>1, <2>2, <2>3 DEF StackInv, StackTypes, ItemsTyped, ItemValues
    <2> QED BY <2>1, <2>2, <2>4 DEF Promise!vars
  <1> QED BY <1>1, <1>2, <1>3, <1>4, <1>5, <1>6, <1>7, <1>8 DEF Next

(* The stack always lies, frame upon frame, in memory that holds a byte,    *)
(* and what it holds are bytes and addresses of flash: mem_push and mem_pop *)
(* move SP by what they were asked to, across address 0 too.                *)
THEOREM StackStays == Spec => []StackInv
  <1>1. Init => StackInv
    BY StackInit, MemStackAssumed
  <1>2. StackInv /\ [Next]_vars => StackInv'
    BY StackStep, MemStackAssumed
  <1> QED BY <1>1, <1>2, PTL DEF Spec

(* The stack of stack.c, under every program that keeps its discipline, is  *)
(* a stack: RET and RETI go to the address after their call or to where the *)
(* interrupt came, and POP gives back the byte of its PUSH.                 *)
THEOREM StackKeepsPromise == Spec => KeepsStackPromise
  <1>1. Init => Promise!Init
    BY StackInit, MemStackAssumed
  <1>2. StackInv /\ [Next]_vars => [Promise!Next]_Promise!vars
    BY StackStep, MemStackAssumed
  <1> QED BY <1>1, <1>2, StackStays, PTL DEF Spec, KeepsStackPromise, Promise!Spec
=============================================================================
