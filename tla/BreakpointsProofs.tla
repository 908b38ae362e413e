------------------------- MODULE BreakpointsProofs -------------------------
(***************************************************************************)
(* Breakpoints are transparent, for any memory, program and use of them    *)
(* that does not write to a word under a breakpoint; and setting or        *)
(* removing one twice is the same as doing it once.                        *)
(***************************************************************************)
EXTENDS Breakpoints, DListProofs

(* The types, and an address has one node at most. *)
BpInv == TypeOK /\ DListUnique(breakpoints, brk_pt_key)

(* What makes Transparent inductive. *)
TransparentInv == BpInv /\ Transparent

(* Breakpoints are compared by their address. *)
LEMMA KeyIsPc ==
    \A b \in BreakPts : brk_pt_key[b] = b.pc /\ b.pc \in Addrs /\ b.opcode \in Words
  BY DEF brk_pt_key, BreakPts

(* The node of an address, and the list without it. *)
LEMMA LookupFinds ==
    ASSUME NEW s \in Seq(BreakPts), DListUnique(s, brk_pt_key),
           NEW i \in DOMAIN s
    PROVE  /\ Lookup(s, s[i].pc) = s[i]
           /\ DListDelete(s, s[i], brk_pt_key) = RemoveAt(s, i)
  <1> DEFINE a == s[i].pc
             First(k) == s[k].pc = a /\ \A j \in DOMAIN s : s[j].pc = a => k <= j
             FirstKey(k) == /\ brk_pt_key[s[k]] = brk_pt_key[s[i]]
                            /\ \A j \in DOMAIN s : brk_pt_key[s[j]] = brk_pt_key[s[i]] => k <= j
  <1>1. DOMAIN s \subseteq Nat /\ \A k \in DOMAIN s : s[k] \in BreakPts
    OBVIOUS
  <1>2. \A k \in DOMAIN s : brk_pt_key[s[k]] = s[k].pc
    BY <1>1, KeyIsPc
  <1>3. \A k \in DOMAIN s : s[k].pc = a => k = i
    BY <1>2 DEF DListUnique
  <1>4. First(i) /\ \A k \in DOMAIN s : First(k) => k = i
    BY <1>1, <1>3
  <1>5. (CHOOSE k \in DOMAIN s : First(k)) = i
    BY <1>4
  <1>6. FirstKey(i) /\ \A k \in DOMAIN s : FirstKey(k) => k = i
    BY <1>1, <1>2, <1>3
  <1>7. (CHOOSE k \in DOMAIN s : FirstKey(k)) = i
    BY <1>6
  <1>8. DListHas(s, s[i], brk_pt_key)
    BY DEF DListHas
  <1>9. DListDelete(s, s[i], brk_pt_key) = RemoveAt(s, i)
    BY <1>7, <1>8 DEF DListDelete
  <1> QED BY <1>5, <1>9 DEF Lookup

(* The list and the memory. *)
Memories == [breakpoints : Seq(BreakPts), flash : [Addrs -> Words]]

(* HasBreakpoint in such a state. *)
Has(m, a) == \E i \in DOMAIN m.breakpoints : m.breakpoints[i].pc = a

(* The types of the memory and the list. *)
LEMMA MemoryFields ==
    /\ \A m \in Memories :
          /\ m.breakpoints \in Seq(BreakPts)
          /\ m.flash \in [Addrs -> Words]
    /\ \A m, n \in Memories :
          m.breakpoints = n.breakpoints /\ m.flash = n.flash => m = n
    /\ \A l \in Seq(BreakPts), g \in [Addrs -> Words] :
          [breakpoints |-> l, flash |-> g] \in Memories
  BY DEF Memories

(* What inserting does to the list: nothing if the address has a node, or   *)
(* else a node at the end.                                                  *)
LEMMA InsertedList ==
    ASSUME BreakpointsAssumption, NEW m \in Memories, NEW a \in Addrs,
           NEW b, b = [pc |-> a, opcode |-> m.flash[a]],
           NEW t, t = Inserted(m, a)
    PROVE  /\ b \in BreakPts
           /\ t \in Memories
           /\ t.flash = [m.flash EXCEPT ![a] = BREAK]
           /\ Has(m, a) => t.breakpoints = m.breakpoints
           /\ ~Has(m, a) => t.breakpoints = Append(m.breakpoints, b)
           /\ DListUnique(m.breakpoints, brk_pt_key) =>
                 DListUnique(t.breakpoints, brk_pt_key)
  <1>0. /\ m.breakpoints \in Seq(BreakPts)
        /\ m.flash \in [Addrs -> Words]
        /\ BREAK \in Words
    BY MemoryFields, Zenon DEF BreakpointsAssumption
  <1>1. b \in BreakPts /\ b.pc = a
    BY <1>0 DEF BreakPts
  <1>2. \A i \in DOMAIN m.breakpoints : brk_pt_key[m.breakpoints[i]] = m.breakpoints[i].pc
    BY <1>0, KeyIsPc
  <1>3. brk_pt_key[b] = a
    BY <1>1, KeyIsPc
  <1>4. DListHas(m.breakpoints, b, brk_pt_key)
          <=> Has(m, a)
    BY <1>2, <1>3 DEF DListHas, Has
  <1> DEFINE l == DListAdd(m.breakpoints, b, brk_pt_key)
             g == [m.flash EXCEPT ![a] = BREAK]
  <1>5. t = [breakpoints |-> l, flash |-> g]
    BY DEF Inserted
  <1>6. (Has(m, a) => l = m.breakpoints) /\ (~Has(m, a) => l = Append(m.breakpoints, b))
    BY <1>4 DEF DListAdd
  <1>7. g \in [Addrs -> Words]
    BY <1>0
  <1>8. l \in Seq(BreakPts)
    BY <1>0, <1>1, <1>6
  <1>9. DListUnique(m.breakpoints, brk_pt_key) => DListUnique(l, brk_pt_key)
    BY <1>0, <1>1, DListAddKeeps, Zenon
  <1> HIDE DEF l, g
  <1>10. t.breakpoints = l /\ t.flash = g
    BY <1>5
  <1>11. t \in Memories
    BY <1>5, <1>7, <1>8, MemoryFields, Zenon
  <1> QED BY <1>11, <1>1, <1>6, <1>9, <1>10, Zenon DEF g

(* List r is list s without its node i, whose address no other node has.    *)
IsWithout(r, s, i) ==
    /\ \A k \in DOMAIN r : \E j \in DOMAIN s : r[k] = s[j] /\ s[j].pc # s[i].pc
    /\ \A j \in DOMAIN s : j # i => \E k \in DOMAIN r : r[k] = s[j]

(* What removing does to the list: the node of the address goes, the other  *)
(* nodes stay.                                                              *)
LEMMA RemovedList ==
    ASSUME NEW m \in Memories, DListUnique(m.breakpoints, brk_pt_key),
           NEW i \in DOMAIN m.breakpoints, NEW a, a = m.breakpoints[i].pc,
           NEW t, t = Removed(m, a)
    PROVE  /\ t \in Memories
           /\ t.flash = [m.flash EXCEPT ![a] = m.breakpoints[i].opcode]
           /\ DListUnique(t.breakpoints, brk_pt_key)
           /\ IsWithout(t.breakpoints, m.breakpoints, i)
           /\ ~Has(t, a)
  <1> DEFINE s == m.breakpoints
             r == RemoveAt(s, i)
             g == [m.flash EXCEPT ![a] = s[i].opcode]
             Old(k) == IF k < i THEN k ELSE k + 1
  <1>0. s \in Seq(BreakPts) /\ m.flash \in [Addrs -> Words]
    BY MemoryFields, Zenon
  <1>a. Lookup(s, a) = s[i] /\ DListDelete(s, s[i], brk_pt_key) = r
    BY <1>0, LookupFinds, Zenon
  <1>1. t = [breakpoints |-> r, flash |-> g]
    BY <1>a DEF Removed
  <1>2. /\ r \in Seq(BreakPts) /\ DOMAIN r = 1..(Len(s) - 1)
        /\ \A k \in 1..(Len(s) - 1) : r[k] = IF k < i THEN s[k] ELSE s[k + 1]
    BY <1>0, RemoveAtProperties, Zenon
  <1>b. g \in [Addrs -> Words]
    <2>1. s[i].opcode \in Words
      <3>1. s[i] \in BreakPts
        BY <1>0
      <3> QED BY <3>1, KeyIsPc
    <2> QED BY <1>0, <2>1
  <1> HIDE DEF r, g, s
  <1>3. Len(s) \in Nat /\ DOMAIN s = 1..Len(s) /\ i \in 1..Len(s)
    BY <1>0 DEF s
  <1>4. \A k \in DOMAIN r : Old(k) \in DOMAIN s /\ Old(k) # i /\ r[k] = s[Old(k)]
    BY <1>2, <1>3
  <1>5. \A p, n \in DOMAIN r : Old(p) = Old(n) => p = n
    BY <1>2, <1>3
  <1>6. \A j \in DOMAIN s : s[j].pc = a => j = i
    <2>1. \A j \in DOMAIN s : brk_pt_key[s[j]] = s[j].pc
      BY <1>0, KeyIsPc
    <2> QED BY <1>3, <2>1 DEF DListUnique, s
  <1>7. DListUnique(r, brk_pt_key)
    <2> HIDE DEF Old
    <2> SUFFICES ASSUME NEW p \in DOMAIN r, NEW n \in DOMAIN r,
                        brk_pt_key[r[p]] = brk_pt_key[r[n]]
                 PROVE  p = n
      BY DEF DListUnique
    <2>1. Old(p) = Old(n)
      BY <1>4 DEF DListUnique, s
    <2> QED BY <1>5, <2>1
  <1>8. \A k \in DOMAIN r : \E j \in DOMAIN s : r[k] = s[j] /\ s[j].pc # a
    <2> HIDE DEF Old
    <2> QED BY <1>4, <1>6, Zenon
  <1>9. ASSUME NEW j \in DOMAIN s, j # i
        PROVE  \E k \in DOMAIN r : r[k] = s[j]
    <2>1. CASE j < i
      <3>1. j \in DOMAIN r /\ r[j] = s[j]
        BY <1>2, <1>3, <2>1
      <3> QED BY <3>1
    <2>2. CASE j > i
      <3>1. j - 1 \in DOMAIN r /\ r[j - 1] = s[j]
        BY <1>2, <1>3, <2>2
      <3> QED BY <3>1
    <2> QED BY <1>3, <1>9, <2>1, <2>2
  <1> HIDE DEF Old
  <1>10. t.flash = g /\ t.breakpoints = r
    BY <1>1
  <1>11. t \in Memories
    BY <1>1, <1>2, <1>b, MemoryFields, Zenon
  <1>12. ~Has(t, a)
    BY <1>8, <1>10 DEF Has
  <1>13. IsWithout(r, s, i)
    BY <1>8, <1>9 DEF IsWithout, s
  <1> QED BY <1>7, <1>10, <1>11, <1>12, <1>13, Zenon DEF g, s

----------------------------------------------------------------------------
(* Idempotence *)

(* Setting a breakpoint that is set changes neither the list nor the memory *)
(* a second time, as gdbserver.c:825 wants of the packets.                  *)
THEOREM InsertIdempotent ==
    ASSUME BreakpointsAssumption, NEW m \in Memories, NEW a \in Addrs
    PROVE  Inserted(Inserted(m, a), a) = Inserted(m, a)
  <1>1. PICK t : t = Inserted(m, a)
    OBVIOUS
  <1>2. PICK b : b = [pc |-> a, opcode |-> m.flash[a]]
    OBVIOUS
  <1>3. /\ t \in Memories
        /\ t.flash = [m.flash EXCEPT ![a] = BREAK]
        /\ b \in BreakPts
        /\ Has(m, a) => t.breakpoints = m.breakpoints
        /\ ~Has(m, a) => t.breakpoints = Append(m.breakpoints, b)
    BY <1>1, <1>2, InsertedList
  <1>4. Has(t, a)
    <2>1. CASE Has(m, a)
      BY <1>3, <2>1, Zenon DEF Has
    <2>2. CASE ~Has(m, a)
      <3>1. m.breakpoints \in Seq(BreakPts)
        BY MemoryFields, Zenon
      <3>2. /\ Len(m.breakpoints) + 1 \in DOMAIN Append(m.breakpoints, b)
            /\ Append(m.breakpoints, b)[Len(m.breakpoints) + 1] = b
        BY <1>3, <3>1
      <3>3. b.pc = a
        BY <1>2
      <3> QED BY <1>3, <2>2, <3>2, <3>3, Zenon DEF Has
    <2> QED BY <2>1, <2>2
  <1>5. [t.flash EXCEPT ![a] = BREAK] = t.flash
    <2>1. m.flash \in [Addrs -> Words] /\ BREAK \in Words
      BY MemoryFields, Zenon DEF BreakpointsAssumption
    <2> QED BY <1>3, <2>1
  <1>6. PICK u : u = Inserted(t, a)
    OBVIOUS
  <1>7. PICK c : c = [pc |-> a, opcode |-> t.flash[a]]
    OBVIOUS
  <1>8. /\ u \in Memories
        /\ u.flash = [t.flash EXCEPT ![a] = BREAK]
        /\ Has(t, a) => u.breakpoints = t.breakpoints
    <2>1. t \in Memories
      BY <1>3
    <2> QED BY <2>1, <1>6, <1>7, InsertedList
  <1>9. u = t
    BY <1>3, <1>4, <1>5, <1>8, MemoryFields, Zenon
  <1> QED BY <1>1, <1>6, <1>9

(* And removing one that is not set does nothing, so removing twice is      *)
(* removing once.                                                           *)
THEOREM RemoveIdempotent ==
    ASSUME NEW m \in Memories, DListUnique(m.breakpoints, brk_pt_key), NEW a \in Addrs
    PROVE  Removed(Removed(m, a), a) = Removed(m, a)
  <1>1. CASE ~ \E i \in DOMAIN m.breakpoints : m.breakpoints[i].pc = a
    BY <1>1 DEF Removed
  <1>2. CASE \E i \in DOMAIN m.breakpoints : m.breakpoints[i].pc = a
    <2>1. PICK i \in DOMAIN m.breakpoints : m.breakpoints[i].pc = a
      BY <1>2
    <2>2. PICK t : t = Removed(m, a)
      OBVIOUS
    <2>3. ~Has(t, a)
      BY <2>1, <2>2, RemovedList, Zenon
    <2>5. Removed(t, a) = t
      BY <2>3 DEF Removed, Has
    <2> QED BY <2>2, <2>5
  <1> QED BY <1>1, <1>2

----------------------------------------------------------------------------
(* Transparency *)

(* The invariant holds at the start. *)
LEMMA TransparentInit == BreakpointsAssumption /\ Init => TransparentInv
  <1> SUFFICES ASSUME BreakpointsAssumption, Init PROVE TransparentInv
    OBVIOUS
  <1>1. TypeOK
    <2>1. breakpoints \in Seq(BreakPts)
      BY DEF Init
    <2> QED BY <2>1, Zenon DEF Init, TypeOK
  <1>2. DOMAIN breakpoints = {}
    BY DEF Init
  <1>3. DListUnique(breakpoints, brk_pt_key) /\ Transparent
    BY <1>2 DEF DListUnique, Transparent, Init
  <1> QED BY <1>1, <1>3 DEF TransparentInv, BpInv

(* The state of list and memory, and where Transparent finds what it says.  *)
LEMMA MemoryNow ==
    ASSUME TransparentInv
    PROVE  /\ CodeMemory \in Memories
           /\ CodeMemory.breakpoints = breakpoints /\ CodeMemory.flash = flash
           /\ \A a \in Addrs : Has(CodeMemory, a) <=> HasBreakpoint(a)
           /\ \A i \in DOMAIN breakpoints :
                 /\ breakpoints[i] \in BreakPts
                 /\ breakpoints[i].pc \in Addrs
                 /\ breakpoints[i].opcode = program[breakpoints[i].pc]
                 /\ flash[breakpoints[i].pc] \in {BREAK, breakpoints[i].opcode}
           /\ \A a \in Addrs : ~HasBreakpoint(a) => flash[a] = program[a]
  <1>1. breakpoints \in Seq(BreakPts) /\ flash \in [Addrs -> Words]
    BY DEF TransparentInv, BpInv, TypeOK
  <1>2. CodeMemory \in Memories
    BY <1>1, MemoryFields, Zenon DEF CodeMemory
  <1>3. CodeMemory.breakpoints = breakpoints /\ CodeMemory.flash = flash
    BY DEF CodeMemory
  <1>4. \A i \in DOMAIN breakpoints : breakpoints[i] \in BreakPts
    BY <1>1
  <1>5. \A i \in DOMAIN breakpoints : breakpoints[i].pc \in Addrs
    BY <1>4, KeyIsPc
  <1> QED BY <1>2, <1>3, <1>4, <1>5, Zenon DEF Has, HasBreakpoint, TransparentInv, Transparent

(* avr_core_insert_breakpoint keeps it. *)
LEMMA InsertTransparent ==
    ASSUME BreakpointsAssumption, TransparentInv, NEW a \in Addrs, InsertBreakpoint(a)
    PROVE  TransparentInv'
  <1>1. PICK b : b = [pc |-> a, opcode |-> flash[a]]
    OBVIOUS
  <1>2. PICK t : t = Inserted(CodeMemory, a)
    OBVIOUS
  <1>3. breakpoints' = t.breakpoints /\ flash' = t.flash
    BY <1>2 DEF InsertBreakpoint, CodeMemoryBecomes
  <1>4. /\ t \in Memories
        /\ flash' = [flash EXCEPT ![a] = BREAK]
        /\ b \in BreakPts
        /\ HasBreakpoint(a) => breakpoints' = breakpoints
        /\ ~HasBreakpoint(a) => breakpoints' = Append(breakpoints, b)
        /\ DListUnique(breakpoints', brk_pt_key)
    <2>1. b = [pc |-> a, opcode |-> CodeMemory.flash[a]]
      BY <1>1, MemoryNow
    <2>2. DListUnique(CodeMemory.breakpoints, brk_pt_key)
      BY MemoryNow DEF TransparentInv, BpInv
    <2>3. /\ t \in Memories /\ t.flash = [CodeMemory.flash EXCEPT ![a] = BREAK]
          /\ b \in BreakPts
          /\ Has(CodeMemory, a) => t.breakpoints = CodeMemory.breakpoints
          /\ ~Has(CodeMemory, a) => t.breakpoints = Append(CodeMemory.breakpoints, b)
          /\ DListUnique(t.breakpoints, brk_pt_key)
      BY <1>2, <2>1, <2>2, MemoryNow, InsertedList
    <2> QED BY <1>3, <2>3, MemoryNow, Zenon
  <1>5. BpInv'
    <2>1. breakpoints' \in Seq(BreakPts) /\ flash' \in [Addrs -> Words]
      BY <1>3, <1>4, MemoryFields, Zenon
    <2>2. TypeOK'
      BY <2>1 DEF InsertBreakpoint, TransparentInv, BpInv, TypeOK
    <2> QED BY <1>4, <2>2 DEF BpInv
  <1>6. /\ flash \in [Addrs -> Words] /\ program \in [Addrs -> Words]
        /\ flash' \in [Addrs -> Words] /\ flash'[a] = BREAK
        /\ \A c \in Addrs : c # a => flash'[c] = flash[c]
        /\ breakpoints \in Seq(BreakPts)
        /\ program' = program
    <2>1. BREAK \in Words
      BY DEF BreakpointsAssumption
    <2> QED BY <1>4, <2>1 DEF TransparentInv, BpInv, TypeOK, InsertBreakpoint
  <1>7. \A i \in DOMAIN breakpoints' :
           \/ i \in DOMAIN breakpoints /\ breakpoints'[i] = breakpoints[i]
           \/ ~HasBreakpoint(a) /\ breakpoints'[i] = b
    <2>1. CASE HasBreakpoint(a)
      BY <1>4, <2>1
    <2>2. CASE ~HasBreakpoint(a)
      BY <1>4, <1>6, <2>2
    <2> QED BY <2>1, <2>2
  <1>8. \A c \in Addrs : c = a \/ HasBreakpoint(c) => HasBreakpoint(c)'
    <2>1. CASE HasBreakpoint(a)
      BY <1>4, <2>1 DEF HasBreakpoint
    <2>2. CASE ~HasBreakpoint(a)
      <3>1. /\ Len(breakpoints) + 1 \in DOMAIN breakpoints'
            /\ breakpoints'[Len(breakpoints) + 1] = b
            /\ \A i \in DOMAIN breakpoints :
                  i \in DOMAIN breakpoints' /\ breakpoints'[i] = breakpoints[i]
        BY <1>4, <1>6, <2>2
      <3>2. b.pc = a
        BY <1>1
      <3> QED BY <3>1, <3>2 DEF HasBreakpoint
    <2> QED BY <2>1, <2>2
  <1>9. ASSUME NEW i \in DOMAIN breakpoints'
        PROVE  /\ breakpoints'[i].opcode = program'[breakpoints'[i].pc]
               /\ flash'[breakpoints'[i].pc] \in {BREAK, breakpoints'[i].opcode}
    <2>1. CASE i \in DOMAIN breakpoints /\ breakpoints'[i] = breakpoints[i]
      BY <1>6, <2>1, MemoryNow
    <2>2. CASE ~HasBreakpoint(a) /\ breakpoints'[i] = b
      <3>1. b.pc = a /\ b.opcode = flash[a]
        BY <1>1
      <3> QED BY <1>6, <2>2, <3>1, MemoryNow
    <2> QED BY <1>7, <2>1, <2>2
  <1>10. ASSUME NEW c \in Addrs, ~HasBreakpoint(c)' PROVE flash'[c] = program'[c]
    BY <1>6, <1>8, <1>10, MemoryNow
  <1>11. Transparent'
    BY <1>9, <1>10, Zenon DEF Transparent
  <1> QED BY <1>5, <1>11 DEF TransparentInv

(* So does avr_core_remove_breakpoint. *)
LEMMA RemoveTransparent ==
    ASSUME TransparentInv, NEW a \in Addrs, RemoveBreakpoint(a)
    PROVE  TransparentInv'
  <1>1. CASE ~HasBreakpoint(a)
    <2>1. Removed(CodeMemory, a) = CodeMemory
      BY <1>1 DEF Removed, HasBreakpoint, CodeMemory
    <2>2. UNCHANGED vars
      BY <2>1, MemoryNow DEF RemoveBreakpoint, CodeMemoryBecomes, vars
    <2> QED BY <2>2 DEF vars, TransparentInv, BpInv, TypeOK, Transparent, HasBreakpoint,
                        DListUnique
  <1>2. CASE HasBreakpoint(a)
    <2>1. PICK i \in DOMAIN breakpoints : breakpoints[i].pc = a
      BY <1>2 DEF HasBreakpoint
    <2>2. PICK t : t = Removed(CodeMemory, a)
      OBVIOUS
    <2>3. breakpoints' = t.breakpoints /\ flash' = t.flash /\ program' = program
      BY <2>2 DEF RemoveBreakpoint, CodeMemoryBecomes
    <2>4. DListUnique(CodeMemory.breakpoints, brk_pt_key)
      BY MemoryNow DEF TransparentInv, BpInv
    <2>5. /\ t \in Memories
          /\ flash' = [flash EXCEPT ![a] = breakpoints[i].opcode]
          /\ DListUnique(breakpoints', brk_pt_key)
          /\ IsWithout(breakpoints', breakpoints, i)
      <3>1. /\ CodeMemory \in Memories
            /\ i \in DOMAIN CodeMemory.breakpoints
            /\ a = CodeMemory.breakpoints[i].pc
        BY <2>1, MemoryNow, Zenon
      <3>2. /\ t \in Memories
            /\ t.flash = [CodeMemory.flash EXCEPT ![a] = CodeMemory.breakpoints[i].opcode]
            /\ DListUnique(t.breakpoints, brk_pt_key)
            /\ IsWithout(t.breakpoints, CodeMemory.breakpoints, i)
        BY <2>2, <2>4, <3>1, RemovedList
      <3> QED BY <2>3, <3>2, MemoryNow, Zenon
    <2>6. /\ flash \in [Addrs -> Words] /\ program \in [Addrs -> Words]
          /\ breakpoints[i].opcode = program[a]
      BY <2>1, MemoryNow DEF TransparentInv, BpInv, TypeOK
    <2>7. BpInv'
      <3>1. breakpoints' \in Seq(BreakPts) /\ flash' \in [Addrs -> Words]
        BY <2>3, <2>5, MemoryFields, Zenon
      <3>2. TypeOK'
        BY <3>1 DEF RemoveBreakpoint, TransparentInv, BpInv, TypeOK
      <3> QED BY <2>5, <3>2 DEF BpInv
    <2>8. flash'[a] = program[a] /\ \A c \in Addrs : c # a => flash'[c] = flash[c]
      BY <2>5, <2>6
    <2>9. ASSUME NEW k \in DOMAIN breakpoints'
          PROVE  /\ breakpoints'[k].opcode = program'[breakpoints'[k].pc]
                 /\ flash'[breakpoints'[k].pc] \in {BREAK, breakpoints'[k].opcode}
      <3>1. PICK j \in DOMAIN breakpoints :
               breakpoints'[k] = breakpoints[j] /\ breakpoints[j].pc # a
        BY <2>1, <2>5 DEF IsWithout
      <3> QED BY <2>3, <2>8, <3>1, MemoryNow
    <2>10. ASSUME NEW c \in Addrs, ~HasBreakpoint(c)', c # a PROVE ~HasBreakpoint(c)
      <3>1. SUFFICES ASSUME HasBreakpoint(c) PROVE FALSE
        OBVIOUS
      <3>2. PICK j \in DOMAIN breakpoints : breakpoints[j].pc = c
        BY <3>1 DEF HasBreakpoint
      <3>3. PICK k \in DOMAIN breakpoints' : breakpoints'[k] = breakpoints[j]
        BY <2>1, <2>5, <2>10, <3>2 DEF IsWithout
      <3> QED BY <2>10, <3>2, <3>3 DEF HasBreakpoint
    <2>11. ASSUME NEW c \in Addrs, ~HasBreakpoint(c)' PROVE flash'[c] = program'[c]
      BY <2>3, <2>8, <2>10, <2>11, MemoryNow
    <2>12. Transparent'
      BY <2>9, <2>11, Zenon DEF Transparent
    <2> QED BY <2>7, <2>12 DEF TransparentInv
  <1> QED BY <1>1, <1>2

(* A hit gives the program back, and leaves the list.                       *)
LEMMA HitTransparent ==
    ASSUME TransparentInv, HitBreakpoint
    PROVE  TransparentInv' /\ flash' = program'
  <1> DEFINE IsLast(a, i) == /\ breakpoints[i].pc = a
                             /\ \A j \in DOMAIN breakpoints :
                                   breakpoints[j].pc = a => j <= i
             Restored(a) == breakpoints[CHOOSE i \in DOMAIN breakpoints : IsLast(a, i)].opcode
  <1>1. ASSUME NEW a \in Addrs, HasBreakpoint(a) PROVE Restored(a) = program[a]
    <2>1. PICK i \in DOMAIN breakpoints : breakpoints[i].pc = a
      BY <1>1 DEF HasBreakpoint
    <2>2. \A j \in DOMAIN breakpoints : breakpoints[j].pc = a => j = i
      <3>1. \A j \in DOMAIN breakpoints : brk_pt_key[breakpoints[j]] = breakpoints[j].pc
        BY MemoryNow, KeyIsPc
      <3> QED BY <2>1, <3>1 DEF TransparentInv, BpInv, DListUnique
    <2>3. i \in Nat
      BY DEF TransparentInv, BpInv, TypeOK
    <2>4. IsLast(a, i) /\ \A j \in DOMAIN breakpoints : IsLast(a, j) => j = i
      BY <2>1, <2>2, <2>3
    <2>5. (CHOOSE j \in DOMAIN breakpoints : IsLast(a, j)) = i
      BY <2>4
    <2> QED BY <2>1, <2>5, MemoryNow
  <1>2. /\ program \in [Addrs -> Words] /\ program' = program
        /\ flash' = [a \in Addrs |-> IF HasBreakpoint(a) THEN Restored(a) ELSE flash[a]]
        /\ breakpoints' = breakpoints
    BY DEF HitBreakpoint, TransparentInv, BpInv, TypeOK
  <1> HIDE DEF Restored
  <1>3. \A a \in Addrs : flash'[a] = program[a]
    BY <1>1, <1>2, MemoryNow
  <1>4. flash' = program
    BY <1>2, <1>3
  <1>5. BpInv'
    <2>1. TypeOK'
      BY <1>2, <1>4 DEF HitBreakpoint, TransparentInv, BpInv, TypeOK
    <2>2. DListUnique(breakpoints', brk_pt_key)
      BY <1>2 DEF TransparentInv, BpInv
    <2> QED BY <2>1, <2>2 DEF BpInv
  <1>6. Transparent'
    BY <1>2, <1>4, MemoryNow DEF Transparent, HasBreakpoint
  <1> QED BY <1>2, <1>4, <1>5, <1>6 DEF TransparentInv

(* A write that changes the words of a set without breakpoints alike in     *)
(* memory and program keeps breakpoints transparent.                        *)
LEMMA WriteTransparent ==
    ASSUME TransparentInv, BpInv', breakpoints' = breakpoints,
           NEW As \in SUBSET Addrs,
           \A a \in As : ~HasBreakpoint(a) /\ (flash[a] = program[a] => flash'[a] = program'[a]),
           \A a \in Addrs \ As : flash'[a] = flash[a] /\ program'[a] = program[a]
    PROVE  TransparentInv'
  <1>1. \A a \in Addrs : HasBreakpoint(a)' <=> HasBreakpoint(a)
    BY DEF HasBreakpoint
  <1>2. ASSUME NEW i \in DOMAIN breakpoints'
        PROVE  /\ breakpoints'[i].opcode = program'[breakpoints'[i].pc]
               /\ flash'[breakpoints'[i].pc] \in {BREAK, breakpoints'[i].opcode}
    <2>1. breakpoints[i].pc \in Addrs \ As
      BY MemoryNow DEF HasBreakpoint
    <2> QED BY <2>1, MemoryNow
  <1>3. ASSUME NEW a \in Addrs, ~HasBreakpoint(a)' PROVE flash'[a] = program'[a]
    BY <1>1, <1>3, MemoryNow
  <1>4. Transparent'
    BY <1>2, <1>3, Zenon DEF Transparent
  <1> QED BY <1>4 DEF TransparentInv

(* What the writes do to the types. *)
LEMMA WriteTypes ==
    ASSUME BpInv, breakpoints' = breakpoints,
           flash' \in [Addrs -> Words], program' \in [Addrs -> Words],
           SPMCSR' \in Operations \cup {"none", "other"},
           page_buffer' \in [Offsets -> Words], exited' \in BOOLEAN
    PROVE  BpInv'
  BY DEF BpInv, TypeOK

(* So does a write of the debugger. *)
LEMMA FlashTransparent ==
    ASSUME BreakpointsAssumption, ~OverBreakpoints, TransparentInv,
           NEW a \in Addrs, WriteFlash(a)
    PROVE  TransparentInv'
  <1>1. PICK w \in Words, mask \in {Bits, HighBits, Bits \ HighBits} :
          /\ flash' = [flash EXCEPT ![a] = (flash[a] \ mask) \cup (w \cap mask)]
          /\ program' = [program EXCEPT ![a] = (program[a] \ mask) \cup (w \cap mask)]
    BY DEF WriteFlash
  <1>2. flash \in [Addrs -> Words] /\ program \in [Addrs -> Words]
    BY DEF TransparentInv, BpInv, TypeOK
  <1>3. /\ (flash[a] \ mask) \cup (w \cap mask) \in Words
        /\ (program[a] \ mask) \cup (w \cap mask) \in Words
    BY <1>2 DEF Words
  <1>4. flash' \in [Addrs -> Words] /\ program' \in [Addrs -> Words]
    BY <1>1, <1>2, <1>3
  <1>5. BpInv'
    <2>1. /\ BpInv /\ breakpoints' = breakpoints /\ SPMCSR' = SPMCSR
          /\ page_buffer' = page_buffer /\ exited' = exited
      BY DEF WriteFlash, TransparentInv
    <2> QED BY <1>4, <2>1, Zenon DEF BpInv, TypeOK
  <1>6. {a} \in SUBSET Addrs /\ ~HasBreakpoint(a) /\ breakpoints' = breakpoints
    BY DEF WriteFlash, MayWrite
  <1>7. \A b \in {a} : ~HasBreakpoint(b) /\ (flash[b] = program[b] => flash'[b] = program'[b])
    BY <1>1, <1>2, <1>6
  <1>8. \A b \in Addrs \ {a} : flash'[b] = flash[b] /\ program'[b] = program[b]
    BY <1>1, <1>2
  <1> QED BY <1>5, <1>6, <1>7, <1>8, WriteTransparent

(* Erasing or writing a page: both memories become M(flash) and M(program)  *)
(* for a change M of the words of the page.                                 *)
LEMMA PageTransparent ==
    ASSUME BreakpointsAssumption, ~OverBreakpoints, TransparentInv,
           NEW p \in Pages, SpmPageErase(p) \/ SpmPageWrite(p)
    PROVE  TransparentInv'
  <1> DEFINE As == {a \in Addrs : a[1] = p}
  <1>1. /\ flash \in [Addrs -> Words] /\ program \in [Addrs -> Words]
        /\ page_buffer \in [Offsets -> Words] /\ BpInv
    BY DEF TransparentInv, BpInv, TypeOK
  <1>2. /\ breakpoints' = breakpoints /\ SPMCSR' = "none"
        /\ page_buffer' = page_buffer /\ exited' = exited
    BY DEF SpmPageErase, SpmPageWrite
  <1>3. \A a \in Addrs : a[2] \in Offsets /\ a = <<a[1], a[2]>>
    BY DEF Addrs
  <1>4. \A a \in As : ~HasBreakpoint(a)
    <2>1. \A o \in Offsets : ~HasBreakpoint(<<p, o>>)
      BY DEF SpmPageErase, SpmPageWrite, MayWrite
    <2> QED BY <1>3, <2>1
  <1>5. CASE SpmPageErase(p)
    <2>1. /\ flash' = [a \in Addrs |-> IF a[1] = p THEN Erased ELSE flash[a]]
          /\ program' = [a \in Addrs |-> IF a[1] = p THEN Erased ELSE program[a]]
      BY <1>5 DEF SpmPageErase, PageErased
    <2>2. Erased \in Words
      BY DEF Erased, Words
    <2>3. flash' \in [Addrs -> Words] /\ program' \in [Addrs -> Words]
      BY <1>1, <2>1, <2>2
    <2>4. BpInv'
      BY <1>1, <1>2, <2>3, Zenon DEF BpInv, TypeOK
    <2>5. \A a \in As : ~HasBreakpoint(a) /\ (flash[a] = program[a] => flash'[a] = program'[a])
      BY <1>4, <2>1
    <2>6. \A a \in Addrs \ As : flash'[a] = flash[a] /\ program'[a] = program[a]
      BY <2>1
    <2> QED BY <1>2, <2>4, <2>5, <2>6, WriteTransparent
  <1>6. CASE SpmPageWrite(p)
    <2>1. /\ flash' = [a \in Addrs |-> IF a[1] = p THEN flash[a] \cap page_buffer[a[2]] ELSE flash[a]]
          /\ program' = [a \in Addrs |-> IF a[1] = p THEN program[a] \cap page_buffer[a[2]]
                                                     ELSE program[a]]
      BY <1>6 DEF SpmPageWrite, PageWritten
    <2>2. \A a \in Addrs : /\ flash[a] \cap page_buffer[a[2]] \in Words
                           /\ program[a] \cap page_buffer[a[2]] \in Words
      BY <1>1, <1>3 DEF Words
    <2>3. flash' \in [Addrs -> Words] /\ program' \in [Addrs -> Words]
      BY <1>1, <2>1, <2>2
    <2>4. BpInv'
      BY <1>1, <1>2, <2>3, Zenon DEF BpInv, TypeOK
    <2>5. \A a \in As : ~HasBreakpoint(a) /\ (flash[a] = program[a] => flash'[a] = program'[a])
      BY <1>4, <2>1
    <2>6. \A a \in Addrs \ As : flash'[a] = flash[a] /\ program'[a] = program[a]
      BY <2>1
    <2> QED BY <1>2, <2>4, <2>5, <2>6, WriteTransparent
  <1> QED BY <1>5, <1>6

(* The steps that touch neither list nor memories. *)
LEMMA OtherTransparent ==
    ASSUME BreakpointsAssumption, TransparentInv,
           WriteSpmcsr \/ SpmRwwsre \/ SpmFill \/ SpmUnknown \/ UNCHANGED vars
    PROVE  TransparentInv'
  <1>1. /\ flash' = flash /\ program' = program /\ breakpoints' = breakpoints
    BY DEF WriteSpmcsr, SpmRwwsre, SpmFill, SpmUnknown, Exit, vars
  <1>2. SPMCSR' \in Operations \cup {"none", "other"}
    BY DEF WriteSpmcsr, SpmRwwsre, SpmFill, SpmUnknown, Exit, vars, TransparentInv, BpInv, TypeOK
  <1>3. page_buffer' \in [Offsets -> Words]
    <2>1. page_buffer \in [Offsets -> Words] /\ Erased \in Words
      BY DEF TransparentInv, BpInv, TypeOK, Erased, Words
    <2> QED BY <2>1 DEF WriteSpmcsr, SpmRwwsre, SpmFill, SpmUnknown, Exit, vars
  <1>4. exited' \in {exited, TRUE}
    BY Zenon DEF WriteSpmcsr, SpmRwwsre, SpmFill, SpmUnknown, Exit, vars
  <1>5. exited' \in BOOLEAN
    BY <1>4, Zenon DEF TransparentInv, BpInv, TypeOK
  <1>6. BpInv'
    BY <1>1, <1>2, <1>3, <1>5, Zenon DEF TransparentInv, BpInv, TypeOK
  <1>7. Transparent'
    BY <1>1 DEF TransparentInv, Transparent, HasBreakpoint
  <1> QED BY <1>6, <1>7 DEF TransparentInv

(* So does every step. *)
LEMMA TransparentStep ==
    ASSUME BreakpointsAssumption, ~OverBreakpoints, TransparentInv, [Next]_vars
    PROVE  TransparentInv'
  <1>1. CASE \E a \in Addrs : InsertBreakpoint(a)
    BY <1>1, InsertTransparent
  <1>2. CASE \E a \in Addrs : RemoveBreakpoint(a)
    BY <1>2, RemoveTransparent
  <1>3. CASE \E a \in Addrs : WriteFlash(a)
    BY <1>3, FlashTransparent
  <1>4. CASE HitBreakpoint
    BY <1>4, HitTransparent
  <1>5. CASE WriteSpmcsr \/ SpmRwwsre \/ SpmFill \/ SpmUnknown \/ UNCHANGED vars
    BY <1>5, OtherTransparent
  <1>6. CASE \E p \in Pages : SpmPageErase(p) \/ SpmPageWrite(p)
    BY <1>6, PageTransparent
  <1> QED BY <1>1, <1>2, <1>3, <1>4, <1>5, <1>6 DEF Next, Spm, Exited

(* It holds throughout. *)
THEOREM TransparentCorrect == ~OverBreakpoints /\ Spec => []TransparentInv
  <1> SUFFICES ASSUME ~OverBreakpoints PROVE Spec => []TransparentInv
    OBVIOUS
  <1>1. Init => TransparentInv
    BY BreakpointsAssumed, TransparentInit
  <1>2. TransparentInv /\ [Next]_vars => TransparentInv'
    BY BreakpointsAssumed, TransparentStep
  <1> QED BY <1>1, <1>2, PTL DEF Spec

(* The types of the breakpoint list, of program memory and of the           *)
(* self-programming unit.                                                   *)
THEOREM BreakpointTypes == ~OverBreakpoints /\ Spec => []TypeOK
  <1> SUFFICES ASSUME ~OverBreakpoints PROVE Spec => []TypeOK
    OBVIOUS
  <1>1. TransparentInv => TypeOK
    BY DEF TransparentInv, BpInv
  <1> QED BY <1>1, TransparentCorrect, PTL

(* Breakpoints never lose the program, as long as nothing writes to a word  *)
(* that has one: avr_core_insert_breakpoint, avr_core_remove_breakpoint and *)
(* avr_core_disable_breakpoints in any order, any number of times.          *)
THEOREM AlwaysTransparent == ~OverBreakpoints /\ Spec => []Transparent
  <1> SUFFICES ASSUME ~OverBreakpoints PROVE Spec => []Transparent
    OBVIOUS
  <1>1. TransparentInv => Transparent
    BY DEF TransparentInv
  <1> QED BY <1>1, TransparentCorrect, PTL

(* Then a hit shows the debugger the whole program, as ChangeLog-2003:623   *)
(* says; run doc_hit shows that it need not when a word under a breakpoint  *)
(* was written.                                                             *)
THEOREM HitsShowProgram == ~OverBreakpoints /\ Spec => HitShowsProgram
  <1> SUFFICES ASSUME ~OverBreakpoints PROVE Spec => HitShowsProgram
    OBVIOUS
  <1>1. TransparentInv => [HitBreakpoint => flash' = program']_vars
    BY HitTransparent
  <1> QED BY <1>1, TransparentCorrect, PTL DEF HitShowsProgram
=============================================================================
