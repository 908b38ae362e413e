------------------------------- MODULE OsEID -------------------------------
(***************************************************************************)
(* The card devices of OsEID.c: the FIFO through which the card's firmware *)
(* talks to a reader on stdin and stdout, and the EEPROM.                  *)
(***************************************************************************)
EXTENDS Bus

CONSTANTS
    FIFO_LEN,          \* 266
    FIFO_RESET,        \* the cells a reset clears: 256
    FlenModulus,       \* the count is a uint16_t: 2^16
    Bytes,             \* what a cell holds, 0 among them
    EeHigh, EeLow      \* the values of EEARH and EEARL; an address is the pair

ASSUME OsEIDAssumed ==
    /\ {FIFO_LEN, FlenModulus} \subseteq Nat
    /\ FIFO_RESET \in 1..FIFO_LEN /\ FIFO_LEN < FlenModulus
    /\ 0 \in Bytes /\ 0 \in EeHigh /\ 0 \in EeLow

VARIABLES oseid, ee

(* fifo[i] is cell i + 1.  Neither the constructor nor the reset sets the   *)
(* count and the protocol; they are whatever malloc left.                   *)
OseidInits == [fifo : {f \in [1..FIFO_LEN -> Bytes] : \A i \in 1..FIFO_RESET : f[i] = 0},
               flen : 0..(FlenModulus - 1), protocol : {"T0", "T1", "other"}]
OseidType == [fifo : [1..FIFO_LEN -> Bytes], flen : 0..(FlenModulus - 1),
              protocol : {"T0", "T1", "other"}]

(* FIFO read: the first byte, whether or not there is one. *)
OseidFront == oseid.fifo[1]

(* As below, with the move one byte short. *)
OseidPop_MovesLess ==
    /\ oseid' = [oseid EXCEPT
          !.fifo = [i \in 1..FIFO_LEN |-> oseid.fifo[IF i < FIFO_LEN - 1 THEN i + 1
                                                     ELSE i]],
          !.flen = (@ + FlenModulus - 1) % FlenModulus]
    /\ UNCHANGED <<ee, lists>>

(* As below, with a signed count. *)
OseidPop_Signed ==
    /\ oseid' = [oseid EXCEPT
          !.fifo = [i \in 1..FIFO_LEN |-> oseid.fifo[IF i < FIFO_LEN THEN i + 1 ELSE i]],
          !.flen = @ - 1]
    /\ UNCHANGED <<ee, lists>>

OseidPop ==
    /\ oseid' = [oseid EXCEPT
          !.fifo = [i \in 1..FIFO_LEN |-> oseid.fifo[IF i < FIFO_LEN THEN i + 1 ELSE i]],
          !.flen = (@ + FlenModulus - 1) % FlenModulus]
    /\ UNCHANGED <<ee, lists>>

(* FIFOCTRL read: is a character available. *)
OseidAvailable == oseid.flen # 0

(* FIFO written.  The test lets one byte too many in: it lands in flen,     *)
(* which then is any count.                                                 *)
OseidPush(b) ==
    /\ \/ /\ oseid.flen < FIFO_LEN
          /\ oseid' = [oseid EXCEPT !.fifo = [@ EXCEPT ![oseid.flen + 1] = b],
                                   !.flen = @ + 1]
       \/ /\ oseid.flen = FIFO_LEN
          /\ \E n \in 0..(FlenModulus - 1) : oseid' = [oseid EXCEPT !.flen = n]
       \/ /\ oseid.flen > FIFO_LEN
          /\ oseid' = oseid
    /\ UNCHANGED <<ee, lists>>

(* FIFOCTRL written: 0 empties, 1 prints and empties, 3 leaves a random     *)
(* byte in the first cell.                                                  *)
OseidClear == oseid' = [oseid EXCEPT !.flen = 0] /\ UNCHANGED <<ee, lists>>
OseidRandom ==
    /\ \E b \in Bytes : oseid' = [oseid EXCEPT !.fifo = [@ EXCEPT ![1] = b], !.flen = 0]
    /\ UNCHANGED <<ee, lists>>

(* FIFOCTRL written with 2: lines are read until one carries data.  Those   *)
(* that reset or power the card or select a protocol are answered at once.  *)
OseidControlLine(protocol) ==
    /\ oseid' = [oseid EXCEPT !.flen = 0, !.protocol = protocol]
    /\ UNCHANGED <<ee, lists>>

OseidDataLine(line) ==
    LET n == Min({Len(line), FIFO_LEN}) IN
    /\ oseid' = [oseid EXCEPT
          !.fifo = [i \in 1..FIFO_LEN |-> IF i <= n THEN line[i] ELSE oseid.fifo[i]],
          !.flen = n]
    /\ UNCHANGED <<ee, lists>>

(* oseid_reset *)
OseidReset ==
    [oseid EXCEPT !.fifo = [i \in 1..FIFO_LEN |-> IF i <= FIFO_RESET THEN 0 ELSE oseid.fifo[i]]]

----------------------------------------------------------------------------
(* The EEPROM *)

EeAddrs == EeHigh \X EeLow
EeType  == [mem : [EeAddrs -> Bytes], EEDR : Bytes, EEARH : EeHigh, EEARL : EeLow]

(* The constructor sets nothing, and a reset keeps everything. *)
EeInits == EeType

EeAddr == <<ee.EEARH, ee.EEARL>>

EeWriteRegister ==
    /\ \/ \E b \in Bytes  : ee' = [ee EXCEPT !.EEDR = b]
       \/ \E h \in EeHigh : ee' = [ee EXCEPT !.EEARH = h]
       \/ \E l \in EeLow  : ee' = [ee EXCEPT !.EEARL = l]
    /\ UNCHANGED <<oseid, lists>>

(* EECR written: 1 reads a cell, and 2 or 3 write one. *)
EeTriggerRead  == /\ ee' = [ee EXCEPT !.EEDR = ee.mem[EeAddr]]
                  /\ UNCHANGED <<oseid, lists>>
EeTriggerWrite == /\ ee' = [ee EXCEPT !.mem[EeAddr] = ee.EEDR]
                  /\ UNCHANGED <<oseid, lists>>

(* gdb_ee_write: the debugger and the loader write the cells directly. *)
GdbEeWrite == /\ \E a \in EeAddrs, b \in Bytes : ee' = [ee EXCEPT !.mem[a] = b]
              /\ UNCHANGED <<oseid, lists>>
=============================================================================
