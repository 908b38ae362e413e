----------------------------- MODULE DisplayProofs -----------------------------
(***************************************************************************)
(* What the coprocess writes, for every length of the pipe, every order of *)
(* the two processes and of the signals, and every run of the simulator.   *)
(***************************************************************************)
EXTENDS Display, SequenceTheorems, TLAPS

Addresses == {"SPL", "SPH", "PORT"}

Messages ==
    [kind : {"r"}, addr : {"reg"}, val : Values]
      \cup [kind : {"s"}, addr : {"sram"}, val : Values]
      \cup [kind : {"i"}, addr : Addresses, val : Values]
      \cup [kind : {"p"}, addr : {"PC"}, val : Nat]
      \cup [kind : {"n"}, addr : {"CK"}, val : Nat]
      \cup [kind : {"I"}, addr : Addresses, val : {0}]
      \cup [kind : {"q"}, addr : {""}, val : {0}]

FileEntries ==
    [id : {"#"}, val : Nat]
      \cup [id : {"header"}, val : SUBSET Signals]
      \cup [id : {"reg", "sram", "ioreg"}, val : Values]
      \cup [id : {"pc"}, val : Nat]
      \cup [id : {"sp"}, val : Values \X Values]

Children ==
    [phase : {"exec", "top", "select", "ended"}, sig_int : BOOLEAN,
     first_clock_occured : BOOLEAN, clk : Nat, bound : SUBSET Addresses,
     spreg : Values \X Values, file : Seq(FileEntries)]

Machines == [reg : Values, PC : Nat, SPL : Values, SPH : Values,
             sram : Values, PORT : Values, CK : Nat]

DisplayTypes ==
    /\ config \in Configs
    /\ machine \in Machines
    /\ pipe \in Seq(Messages) /\ out \in Seq(Messages)
    /\ child \in Children

(* The names of the I/O registers come before the first clock, and none     *)
(* after.                                                                   *)
Named(c, s) ==
    /\ c.first_clock_occured => \A k \in DOMAIN s : s[k].kind # "I"
    /\ ~c.first_clock_occured =>
          \E k \in DOMAIN s : /\ s[k].kind = "n"
                              /\ \A j \in DOMAIN s : s[j].kind = "I" <=> j < k

NamesFirst == Named(child, Coming)

(* The clocks in s go from lo to hi. *)
Clocked(lo, s, hi) ==
    /\ lo <= hi
    /\ \A k \in DOMAIN s : s[k].kind = "n" => lo <= s[k].val /\ s[k].val <= hi
    /\ \A j, k \in DOMAIN s :
          j <= k /\ s[j].kind = "n" /\ s[k].kind = "n" => s[j].val <= s[k].val

(* The clock the coprocess knows, those on their way, the machine's. *)
ClocksOrdered == Clocked(child.clk, Coming, machine.CK)

Fields == {"reg", "PC", "sram", "SPL", "SPH"}

(* The file: nothing before the first clock, then the header, which names   *)
(* the signals that are written; times that increase up to the clock.       *)
FileOK(c) ==
    /\ ~config.opened \/ ~c.first_clock_occured => c.file = <<>>
    /\ config.opened /\ c.first_clock_occured =>
          c.file # <<>> /\ c.file[1].val = {id \in config.traced : Marked(c, id)}
    /\ \A i \in DOMAIN c.file : /\ c.file[i].id = "header" <=> i = 1
                                /\ c.file[i].id \in Signals => Marked(c, c.file[i].id)
    /\ \A i \in Entries(c, "#") : c.file[i].val <= c.clk
    /\ \A i, j \in Entries(c, "#") : i < j => c.file[i].val < c.file[j].val

(* FileFollows, of a coprocess, the messages on their way and the machine.  *)
Told(c, s, m) ==
    /\ "sp" \in config.traced => Says(c, "sp", c.spreg)
    /\ \A f \in Fields : SignalOf(f) \in config.traced =>
          Ends(s, f, m[f]) \/ (Silent(s, f) /\ Holds(c, f, m[f]))

DisplayInv == DisplayTypes /\ NamesFirst /\ ClocksOrdered /\ FileOK(child) /\ FileFollows

----------------------------------------------------------------------------
(* The file *)

Appended(c, e) == [c EXCEPT !.file = Append(c.file, e)]

(* An entry at the end of the file is the last of its id, and changes       *)
(* nothing for the others.                                                  *)
LEMMA AppendEntry ==
    ASSUME NEW c \in Children, NEW e \in FileEntries, NEW d,
           d = Appended(c, e)
    PROVE  /\ d \in Children
           /\ d.phase = c.phase /\ d.first_clock_occured = c.first_clock_occured
           /\ d.clk = c.clk /\ d.bound = c.bound /\ d.spreg = c.spreg
           /\ d.file = Append(c.file, e) /\ Len(d.file) = Len(c.file) + 1
           /\ DOMAIN c.file = 1..Len(c.file) /\ DOMAIN d.file = 1..(Len(c.file) + 1)
           /\ Len(c.file) \in Nat
           /\ d.file[Len(c.file) + 1] = e
           /\ \A i \in DOMAIN c.file : d.file[i] = c.file[i]
           /\ LastIs(d, e.id, e.val)
           /\ \A id : id # e.id => Entries(d, id) = Entries(c, id)
           /\ \A id, v : id # e.id => (LastIs(d, id, v) <=> LastIs(c, id, v))
  <1> DEFINE F == FileEntries
  <1>1. c.file \in Seq(F) /\ d.file = Append(c.file, e)
    BY DEF Children, Appended
  <1>2. /\ d \in Children
        /\ d.phase = c.phase /\ d.first_clock_occured = c.first_clock_occured
        /\ d.clk = c.clk /\ d.bound = c.bound /\ d.spreg = c.spreg
    <2>1. d.file \in Seq(F)
      BY <1>1, AppendProperties
    <2> QED BY <2>1, <1>1 DEF Children, Appended
  <1> DEFINE L == Len(c.file)
  <1>3. /\ L \in Nat /\ DOMAIN c.file = 1..L
        /\ Len(d.file) = L + 1 /\ DOMAIN d.file = 1..(L + 1)
        /\ d.file[L + 1] = e /\ \A i \in DOMAIN c.file : d.file[i] = c.file[i]
    <2>1. d.file \in Seq(F) /\ Len(d.file) = L + 1 /\ d.file[L + 1] = e
          /\ \A i \in 1..L : d.file[i] = c.file[i]
      BY <1>1, AppendProperties
    <2> QED BY <2>1, <1>1, LenProperties
  <1> HIDE DEF L
  <1>4. \A id : id # e.id => Entries(d, id) = Entries(c, id)
    <2> TAKE id
    <2> HAVE id # e.id
    <2>1. ASSUME NEW i \in DOMAIN d.file, d.file[i].id = id
          PROVE  i \in DOMAIN c.file
      BY <2>1, <1>3
    <2> QED BY <2>1, <1>3 DEF Entries
  <1>5. \A id, v : id # e.id => (LastIs(d, id, v) <=> LastIs(c, id, v))
    <2> TAKE id, v
    <2> HAVE id # e.id
    <2>1. Entries(d, id) = Entries(c, id)
      BY <1>4
    <2>2. \A i \in Entries(c, id) : d.file[i] = c.file[i]
      BY <1>3 DEF Entries
    <2> QED BY <2>1, <2>2 DEF LastIs
  <1>6. LastIs(d, e.id, e.val)
    <2>1. L + 1 \in Entries(d, e.id) /\ \A i \in Entries(d, e.id) : i <= L + 1
      BY <1>3 DEF Entries
    <2> QED BY <2>1, <1>3 DEF LastIs
  <1> QED BY <1>1, <1>2, <1>3, <1>4, <1>5, <1>6 DEF L

(* What an entry must be for the file to stay in order. *)
LEMMA AppendOK ==
    ASSUME NEW c \in Children, FileOK(c), config.opened, c.first_clock_occured,
           NEW e \in FileEntries, e.id # "header",
           e.id \in Signals => Marked(c, e.id),
           e.id = "#" => /\ e.val <= c.clk
                         /\ \A i \in Entries(c, "#") : c.file[i].val < e.val,
           NEW d, d = Appended(c, e)
    PROVE  FileOK(d)
  <1> DEFINE L == Len(c.file)
  <1>1. /\ d.first_clock_occured = c.first_clock_occured
        /\ d.clk = c.clk /\ d.bound = c.bound
        /\ DOMAIN c.file = 1..L /\ DOMAIN d.file = 1..(L + 1) /\ L \in Nat
        /\ d.file[L + 1] = e
        /\ \A i \in DOMAIN c.file : d.file[i] = c.file[i]
        /\ \A id : id # e.id => Entries(d, id) = Entries(c, id)
    <2>1. d = Appended(c, e) /\ c \in Children /\ e \in FileEntries
      OBVIOUS
    <2>2. d.first_clock_occured = c.first_clock_occured
      BY <2>1, AppendEntry
    <2>3. d.clk = c.clk /\ d.bound = c.bound
      BY <2>1, AppendEntry
    <2>4. L \in Nat /\ DOMAIN c.file = 1..L /\ DOMAIN d.file = 1..(L + 1)
      BY <2>1, AppendEntry
    <2>5. d.file[L + 1] = e /\ \A i \in DOMAIN c.file : d.file[i] = c.file[i]
      BY <2>1, AppendEntry
    <2>6. \A id : id # e.id => Entries(d, id) = Entries(c, id)
      BY <2>1, AppendEntry
    <2> QED BY <2>2, <2>3, <2>4, <2>5, <2>6
  <1>2. \A id : Marked(d, id) <=> Marked(c, id)
    BY <1>1 DEF Marked
  <1>3. c.file # <<>> /\ c.file[1].val = {id \in config.traced : Marked(c, id)}
    BY DEF FileOK
  <1>4. 1 \in 1..L /\ L + 1 # 1
    <2>1. c.file \in Seq(FileEntries)
      BY DEF Children
    <2>2. L \in Nat \ {0}
      BY <2>1, <1>3, EmptySeq
    <2> QED BY <2>2
  <1> HIDE DEF L
  <1>5. d.file # <<>> /\ d.file[1].val = {id \in config.traced : Marked(d, id)}
    <2>1. d.file[1] = c.file[1]
      BY <1>1, <1>4
    <2>2. d.file # <<>>
      <3>1. 1 \in DOMAIN d.file /\ DOMAIN <<>> = {}
        BY <1>1, <1>4
      <3> QED BY <3>1
    <2> QED BY <2>1, <2>2, <1>2, <1>3
  <1>6. \A i \in DOMAIN d.file : /\ d.file[i].id = "header" <=> i = 1
                                 /\ d.file[i].id \in Signals => Marked(d, d.file[i].id)
    <2> TAKE i \in DOMAIN d.file
    <2>1. CASE i = L + 1
      BY <2>1, <1>1, <1>2, <1>4
    <2>2. CASE i # L + 1
      <3>1. i \in DOMAIN c.file /\ d.file[i] = c.file[i]
        BY <2>2, <1>1
      <3>2. /\ c.file[i].id = "header" <=> i = 1
            /\ c.file[i].id \in Signals => Marked(c, c.file[i].id)
        BY <3>1 DEF FileOK
      <3> QED BY <3>1, <3>2, <1>2
    <2> QED BY <2>1, <2>2
  <1>7. /\ \A i \in Entries(c, "#") : c.file[i].val <= c.clk
        /\ \A i, j \in Entries(c, "#") : i < j => c.file[i].val < c.file[j].val
    BY DEF FileOK
  <1>8. \A i \in Entries(c, "#") : i \in 1..L /\ d.file[i] = c.file[i]
    BY <1>1 DEF Entries
  <1>9. /\ \A i \in Entries(d, "#") : d.file[i].val <= d.clk
        /\ \A i, j \in Entries(d, "#") : i < j => d.file[i].val < d.file[j].val
    <2>1. CASE e.id # "#"
      <3>1. Entries(d, "#") = Entries(c, "#")
        BY <2>1, <1>1
      <3> QED BY <3>1, <1>1, <1>7, <1>8
    <2>2. CASE e.id = "#"
      <3>1. ASSUME NEW i \in Entries(d, "#"), i # L + 1
            PROVE  i \in Entries(c, "#")
        BY <3>1, <1>1 DEF Entries
      <3>2. e.val <= d.clk /\ \A i \in Entries(c, "#") : c.file[i].val < e.val
        BY <2>2, <1>1
      <3>3. \A i \in Entries(d, "#") : d.file[i].val <= d.clk
        BY <3>1, <3>2, <1>1, <1>7, <1>8
      <3>4. ASSUME NEW i \in Entries(d, "#"), NEW j \in Entries(d, "#"), i < j
            PROVE  d.file[i].val < d.file[j].val
        <4>1. i \in 1..(L + 1) /\ j \in 1..(L + 1) /\ i # L + 1
          BY <3>4, <1>1 DEF Entries
        <4>2. i \in Entries(c, "#") /\ d.file[i] = c.file[i]
          BY <4>1, <3>1, <1>8
        <4>3. CASE j = L + 1
          BY <4>2, <4>3, <3>2, <1>1
        <4>4. CASE j # L + 1
          <5>1. j \in Entries(c, "#") /\ d.file[j] = c.file[j]
            BY <4>4, <3>1, <1>8
          <5> QED BY <3>4, <4>2, <5>1, <1>7
        <4> QED BY <4>3, <4>4
      <3> QED BY <3>3, <3>4
    <2> QED BY <2>1, <2>2
  <1> QED BY <1>1, <1>5, <1>6, <1>9 DEF FileOK

(* vcd_write_clock: the time once, before the values of that time. *)
LEMMA ClockWritten ==
    ASSUME NEW c \in Children, FileOK(c), config.opened, c.first_clock_occured,
           NEW d, d = WriteClock(c)
    PROVE  /\ d \in Children /\ FileOK(d)
           /\ d.phase = c.phase /\ d.first_clock_occured = c.first_clock_occured
           /\ d.clk = c.clk /\ d.bound = c.bound /\ d.spreg = c.spreg
           /\ \A id : id # "#" => Entries(d, id) = Entries(c, id)
           /\ \A id, v : id # "#" => (LastIs(d, id, v) <=> LastIs(c, id, v))
  <1>1. CASE LastIs(c, "#", c.clk)
    BY <1>1 DEF WriteClock
  <1>2. CASE ~LastIs(c, "#", c.clk)
    <2> DEFINE e == Entry("#", c.clk)
    <2>1. d = Appended(c, e)
      BY <1>2 DEF WriteClock, Appended
    <2>2. e \in FileEntries /\ e.id = "#" /\ e.val = c.clk /\ c.clk \in Nat
      BY DEF Entry, FileEntries, Children
    <2>3. ASSUME NEW i \in Entries(c, "#") PROVE c.file[i].val < c.clk
      <3>1. c.file \in Seq(FileEntries) /\ i \in DOMAIN c.file /\ c.file[i].id = "#"
        BY DEF Children, Entries
      <3>2. i \in 1..Len(c.file)
        BY <3>1, LenProperties
      <3>3. c.file[i] \in FileEntries
        BY <3>1, <3>2, ElementOfSeq
      <3>4. c.file[i].val \in Nat
        BY <3>1, <3>3 DEF FileEntries
      <3>5. c.file[i].val <= c.clk
        BY DEF FileOK
      <3>6. ASSUME c.file[i].val = c.clk PROVE FALSE
        <4>1. ASSUME NEW j \in Entries(c, "#") PROVE j <= i
          <5>1. j \in DOMAIN c.file /\ c.file[j].id = "#"
            BY DEF Entries
          <5>2. j \in 1..Len(c.file) /\ Len(c.file) \in Nat
            BY <5>1, <3>1, LenProperties
          <5>3. c.file[j] \in FileEntries
            BY <3>1, <5>2, ElementOfSeq
          <5>4. c.file[j].val \in Nat /\ c.file[j].val <= c.clk
            BY <5>1, <5>3 DEF FileEntries, FileOK
          <5>5. i < j => c.file[i].val < c.file[j].val
            BY DEF FileOK
          <5> QED BY <3>2, <3>4, <3>6, <5>2, <5>4, <5>5
        <4> QED BY <4>1, <3>6, <1>2 DEF LastIs
      <3> QED BY <3>4, <3>5, <3>6, <2>2
    <2> HIDE DEF e
    <2>4. FileOK(d)
      BY <2>1, <2>2, <2>3, AppendOK DEF Signals
    <2>5. /\ d \in Children /\ d.phase = c.phase
          /\ d.clk = c.clk /\ d.bound = c.bound /\ d.spreg = c.spreg
      BY <2>1, <2>2, AppendEntry
    <2>8. d.first_clock_occured = c.first_clock_occured
      BY <2>1, <2>2, AppendEntry
    <2>6. \A id : id # "#" => Entries(d, id) = Entries(c, id)
      BY <2>1, <2>2, AppendEntry
    <2>7. \A id, v : id # "#" => (LastIs(d, id, v) <=> LastIs(c, id, v))
      BY <2>1, <2>2, AppendEntry
    <2> QED BY <2>4, <2>5, <2>6, <2>7, <2>8
  <1> QED BY <1>1, <1>2

(* vcd_write_reg and the like: the value is the last of its signal, if the  *)
(* signal is written at all, and nothing changes for the others.            *)
LEMMA ValueWritten ==
    ASSUME NEW c \in Children, FileOK(c), c.first_clock_occured,
           NEW id \in Signals, NEW val, Entry(id, val) \in FileEntries,
           NEW d, d = WriteValue(c, id, val)
    PROVE  /\ d \in Children /\ FileOK(d)
           /\ d.phase = c.phase /\ d.first_clock_occured = c.first_clock_occured
           /\ d.clk = c.clk /\ d.bound = c.bound /\ d.spreg = c.spreg
           /\ \A x : x # "#" /\ x # id => Entries(d, x) = Entries(c, x)
           /\ \A x, v : x # "#" /\ x # id => (LastIs(d, x, v) <=> LastIs(c, x, v))
           /\ Marked(c, id) => LastIs(d, id, val)
  <1>1. CASE ~Marked(c, id)
    BY <1>1 DEF WriteValue
  <1>2. CASE Marked(c, id)
    <2> DEFINE b == WriteClock(c)
               e == Entry(id, val)
    <2>1. d = Appended(b, e)
      BY <1>2 DEF WriteValue, Appended
    <2>2. config.opened
      BY <1>2 DEF Marked
    <2>3. /\ b \in Children /\ FileOK(b) /\ b.phase = c.phase
          /\ b.clk = c.clk /\ b.bound = c.bound /\ b.spreg = c.spreg
      BY <2>2, ClockWritten
    <2>4. b.first_clock_occured = c.first_clock_occured
      BY <2>2, ClockWritten
    <2>5. /\ \A x : x # "#" => Entries(b, x) = Entries(c, x)
          /\ \A x, v : x # "#" => (LastIs(b, x, v) <=> LastIs(c, x, v))
      BY <2>2, ClockWritten
    <2>6. e.id = id /\ e.val = val /\ e \in FileEntries /\ id # "#" /\ id # "header"
      BY DEF Entry, Signals
    <2> HIDE DEF b, e
    <2>7. Marked(b, id)
      BY <2>3, <1>2 DEF Marked
    <2>8. FileOK(d)
      BY <2>1, <2>2, <2>3, <2>4, <2>6, <2>7, AppendOK
    <2>9. /\ d \in Children /\ d.phase = b.phase
          /\ d.clk = b.clk /\ d.bound = b.bound /\ d.spreg = b.spreg
      BY <2>1, <2>3, <2>6, AppendEntry
    <2>10. d.first_clock_occured = b.first_clock_occured
      BY <2>1, <2>3, <2>6, AppendEntry
    <2>11. LastIs(d, id, val)
      BY <2>1, <2>3, <2>6, AppendEntry
    <2>12. \A x : x # id => Entries(d, x) = Entries(b, x)
      BY <2>1, <2>3, <2>6, AppendEntry
    <2>13. \A x, v : x # id => (LastIs(d, x, v) <=> LastIs(b, x, v))
      BY <2>1, <2>3, <2>6, AppendEntry
    <2>14. \A x : x # "#" /\ x # id => Entries(d, x) = Entries(c, x)
      BY <2>5, <2>12
    <2>15. \A x, v : x # "#" /\ x # id => (LastIs(d, x, v) <=> LastIs(c, x, v))
      BY <2>5, <2>13, Zenon
    <2>16. d.first_clock_occured = c.first_clock_occured
      BY <2>4, <2>10
    <2>17. d.phase = c.phase /\ d.clk = c.clk /\ d.bound = c.bound /\ d.spreg = c.spreg
      BY <2>3, <2>9
    <2> QED BY <2>8, <2>9, <2>11, <2>14, <2>15, <2>16, <2>17
  <1> QED BY <1>1, <1>2

(* vcd_write_sp: the stack pointer the coprocess holds is the last written. *)
LEMMA SpWritten ==
    ASSUME NEW c \in Children, FileOK(c), c.first_clock_occured,
           NEW d, d = WriteSp(c)
    PROVE  /\ d \in Children /\ FileOK(d)
           /\ d.phase = c.phase /\ d.first_clock_occured = c.first_clock_occured
           /\ d.clk = c.clk /\ d.bound = c.bound /\ d.spreg = c.spreg
           /\ \A x : x # "#" /\ x # "sp" => Entries(d, x) = Entries(c, x)
           /\ \A x, v : x # "#" /\ x # "sp" => (LastIs(d, x, v) <=> LastIs(c, x, v))
           /\ Marked(c, "sp") => LastIs(d, "sp", c.spreg)
  <1>1. CASE LastIs(c, "sp", c.spreg)
    BY <1>1 DEF WriteSp
  <1>2. CASE ~LastIs(c, "sp", c.spreg)
    <2>1. d = WriteValue(c, "sp", c.spreg)
      BY <1>2 DEF WriteSp
    <2>2. Entry("sp", c.spreg) \in FileEntries /\ "sp" \in Signals
      BY DEF Entry, FileEntries, Children, Signals
    <2> QED BY <2>1, <2>2, ValueWritten
  <1> QED BY <1>1, <1>2

----------------------------------------------------------------------------
(* disp_parse_packet: what becomes of the coprocess c by the message m. *)

InTurn(c, m) ==
    /\ ~c.first_clock_occured => m.kind \in {"I", "n"}
    /\ c.first_clock_occured => m.kind # "I"
    /\ m.kind = "n" => c.clk <= m.val

Follows(c, m, d) ==
    config.opened =>
       /\ "sp" \in config.traced /\ Says(c, "sp", c.spreg) => Says(d, "sp", d.spreg)
       /\ \A f \in Fields : SignalOf(f) \in config.traced =>
             /\ About(m, f) => Holds(d, f, m.val)
             /\ \A v : ~About(m, f) /\ Holds(c, f, v) => Holds(d, f, v)

Handled(c, m, d) ==
    /\ d \in Children /\ FileOK(d)
    /\ d.first_clock_occured <=> (c.first_clock_occured \/ m.kind = "n")
    /\ d.clk = IF m.kind = "n" THEN m.val ELSE c.clk
    /\ Follows(c, m, d)

(* A value of a register, of memory, of PC or of an I/O register. *)
LEMMA ValueHandled ==
    ASSUME NEW c \in Children, FileOK(c), c.first_clock_occured,
           NEW m \in Messages, NEW id \in Signals \ {"sp"}, m.kind \notin {"n", "I"},
           Entry(id, m.val) \in FileEntries,
           NEW d, d = WriteValue(c, id, m.val),
           m.addr = CASE id = "reg" -> "reg" [] id = "pc" -> "PC" [] id = "sram" -> "sram"
                      [] OTHER -> "PORT"
    PROVE  Handled(c, m, d)
  <1>1. /\ d \in Children /\ FileOK(d)
        /\ d.clk = c.clk /\ d.bound = c.bound /\ d.spreg = c.spreg
    BY ValueWritten
  <1>2. d.first_clock_occured = c.first_clock_occured
    BY ValueWritten
  <1>3. \A x : x # "#" /\ x # id => Entries(d, x) = Entries(c, x)
    BY ValueWritten
  <1>4. \A x, v : x # "#" /\ x # id => (LastIs(d, x, v) <=> LastIs(c, x, v))
    BY ValueWritten
  <1>5. Marked(c, id) => LastIs(d, id, m.val)
    BY ValueWritten
  <1>6. \A x, v : x # "#" /\ x # id => (Says(d, x, v) <=> Says(c, x, v))
    BY <1>3, <1>4 DEF Says
  <1>7. Follows(c, m, d)
    <2> SUFFICES ASSUME config.opened
                 PROVE  /\ "sp" \in config.traced /\ Says(c, "sp", c.spreg)
                              => Says(d, "sp", d.spreg)
                        /\ \A f \in Fields : SignalOf(f) \in config.traced =>
                              /\ About(m, f) => Holds(d, f, m.val)
                              /\ \A v : ~About(m, f) /\ Holds(c, f, v) => Holds(d, f, v)
      BY DEF Follows
    <2>1. Says(c, "sp", c.spreg) => Says(d, "sp", d.spreg)
      BY <1>1, <1>6
    <2>2. ASSUME NEW f \in Fields, SignalOf(f) \in config.traced, About(m, f)
          PROVE  Holds(d, f, m.val)
      <3>1. m.addr = f
        BY <2>2 DEF About
      <3>2. id \in {"reg", "pc", "sram"} /\ SignalOf(f) = id /\ f \notin {"SPL", "SPH"}
        BY <3>1 DEF Fields, Signals, SignalOf
      <3>3. Marked(c, id)
        BY <3>2, <2>2 DEF Marked
      <3> QED BY <3>2, <3>3, <1>5 DEF Holds, Says
    <2>3. ASSUME NEW f \in Fields, NEW v, ~About(m, f), Holds(c, f, v)
          PROVE  Holds(d, f, v)
      <3>1. CASE f \in {"SPL", "SPH"}
        BY <3>1, <2>3, <1>1 DEF Holds
      <3>2. CASE f \notin {"SPL", "SPH"}
        <4>1. m.addr # f
          BY <2>3 DEF About
        <4>2. SignalOf(f) # id /\ SignalOf(f) # "#"
          BY <4>1, <3>2 DEF Fields, Signals, SignalOf
        <4> QED BY <4>2, <3>2, <2>3, <1>6 DEF Holds
      <3> QED BY <3>1, <3>2
    <2> QED BY <2>1, <2>2, <2>3
  <1> QED BY <1>1, <1>2, <1>7 DEF Handled, Messages

(* A byte of the stack pointer. *)
LEMMA SpHandled ==
    ASSUME NEW c \in Children, FileOK(c), c.first_clock_occured,
           NEW m \in Messages, m.kind = "i", m.addr \in {"SPL", "SPH"},
           NEW d, d = SpByte(c, m)
    PROVE  Handled(c, m, d)
  <1> DEFINE sp == IF m.addr = "SPL" THEN <<c.spreg[1], m.val>> ELSE <<m.val, c.spreg[2]>>
             b  == [c EXCEPT !.spreg = sp]
  <1>1. m.val \in Values /\ c.spreg \in Values \X Values
    BY DEF Messages, Children
  <1>2. sp \in Values \X Values
    BY <1>1
  <1>3. /\ b \in Children /\ b.spreg = sp
        /\ b.clk = c.clk /\ b.bound = c.bound /\ b.file = c.file
    BY <1>2 DEF Children
  <1>4. b.first_clock_occured = c.first_clock_occured
    BY DEF Children
  <1>5. d = WriteSp(b)
    BY DEF SpByte
  <1>6. /\ m.addr = "SPL" => sp[1] = c.spreg[1] /\ sp[2] = m.val
        /\ m.addr = "SPH" => sp[1] = m.val /\ sp[2] = c.spreg[2]
    OBVIOUS
  <1> HIDE DEF sp, b
  <1>7. \A x : Marked(b, x) <=> Marked(c, x)
    BY <1>3 DEF Marked
  <1>8. \A x : Entries(b, x) = Entries(c, x)
    BY <1>3 DEF Entries
  <1>9. \A x, v : LastIs(b, x, v) <=> LastIs(c, x, v)
    BY <1>3, <1>8 DEF LastIs
  <1>10. FileOK(b)
    BY <1>3, <1>4, <1>7, <1>8 DEF FileOK
  <1>11. b.first_clock_occured
    BY <1>4
  <1>12. d \in Children /\ FileOK(d) /\ d.clk = c.clk /\ d.spreg = sp
    BY <1>3, <1>5, <1>10, <1>11, SpWritten
  <1>13. d.first_clock_occured = b.first_clock_occured
    BY <1>3, <1>5, <1>10, <1>11, SpWritten
  <1>14. \A x : x # "#" /\ x # "sp" => Entries(d, x) = Entries(b, x)
    BY <1>3, <1>5, <1>10, <1>11, SpWritten
  <1>15. \A x, v : x # "#" /\ x # "sp" => (LastIs(d, x, v) <=> LastIs(b, x, v))
    BY <1>3, <1>5, <1>10, <1>11, SpWritten
  <1>16. Marked(b, "sp") => LastIs(d, "sp", sp)
    BY <1>3, <1>5, <1>10, <1>11, SpWritten
  <1>17. \A x, v : x # "#" /\ x # "sp" => (Says(d, x, v) <=> Says(c, x, v))
    BY <1>8, <1>9, <1>14, <1>15 DEF Says
  <1>18. Follows(c, m, d)
    <2> SUFFICES ASSUME config.opened
                 PROVE  /\ "sp" \in config.traced /\ Says(c, "sp", c.spreg)
                              => Says(d, "sp", d.spreg)
                        /\ \A f \in Fields : SignalOf(f) \in config.traced =>
                              /\ About(m, f) => Holds(d, f, m.val)
                              /\ \A v : ~About(m, f) /\ Holds(c, f, v) => Holds(d, f, v)
      BY DEF Follows
    <2>1. ASSUME "sp" \in config.traced PROVE Says(d, "sp", d.spreg)
      <3>1. Marked(b, "sp")
        BY <2>1 DEF Marked
      <3> QED BY <3>1, <1>12, <1>16 DEF Says
    <2>2. ASSUME NEW f \in Fields, About(m, f)
          PROVE  Holds(d, f, m.val)
      BY <2>2, <1>6, <1>12 DEF About, Holds
    <2>3. ASSUME NEW f \in Fields, NEW v, ~About(m, f), Holds(c, f, v)
          PROVE  Holds(d, f, v)
      <3>1. m.addr # f
        BY <2>3 DEF About
      <3>2. CASE f \in {"SPL", "SPH"}
        BY <3>1, <3>2, <2>3, <1>6, <1>12 DEF Holds
      <3>3. CASE f \notin {"SPL", "SPH"}
        <4>1. SignalOf(f) # "sp" /\ SignalOf(f) # "#"
          BY <3>3 DEF Fields, SignalOf
        <4> QED BY <4>1, <3>3, <2>3, <1>17 DEF Holds
      <3> QED BY <3>2, <3>3
    <2> QED BY <2>1, <2>2, <2>3
  <1> QED BY <1>4, <1>12, <1>13, <1>18 DEF Handled

(* The clock; the first one makes the coprocess write the header. *)
LEMMA ClockHandled ==
    ASSUME NEW c \in Children, FileOK(c), NEW m \in Messages, m.kind = "n",
           c.clk <= m.val, NEW d, d = Handle(c, m), config \in Configs
    PROVE  Handled(c, m, d)
  <1> DEFINE b == [c EXCEPT !.clk = m.val, !.first_clock_occured = TRUE]
  <1>1. m.val \in Nat /\ m.addr = "CK"
    BY DEF Messages
  <1>2. d = IF c.first_clock_occured THEN b ELSE WriteHeader(b)
    BY DEF Handle
  <1>3. /\ b \in Children /\ b.clk = m.val /\ b.first_clock_occured
        /\ b.bound = c.bound /\ b.spreg = c.spreg /\ b.file = c.file
    BY <1>1 DEF Children
  <1> HIDE DEF b
  <1>4. \A x : Marked(b, x) <=> Marked(c, x)
    BY <1>3 DEF Marked
  <1>5. \A x : Entries(b, x) = Entries(c, x)
    BY <1>3 DEF Entries
  <1>6. \A x, v : LastIs(b, x, v) <=> LastIs(c, x, v)
    BY <1>3, <1>5 DEF LastIs
  <1>7. \A i \in Entries(c, "#") : c.file[i].val <= m.val
    <2> TAKE i \in Entries(c, "#")
    <2>1. c.file \in Seq(FileEntries) /\ i \in DOMAIN c.file /\ c.file[i].id = "#"
      BY DEF Children, Entries
    <2>2. c.file[i] \in FileEntries
      BY <2>1, ElementOfSeq, LenProperties
    <2>3. c.file[i].val \in Nat /\ c.file[i].val <= c.clk /\ c.clk \in Nat
      BY <2>1, <2>2 DEF FileEntries, FileOK, Children
    <2> QED BY <2>3, <1>1
  <1>8. CASE c.first_clock_occured \/ ~config.opened
    <2>1. d = b
      BY <1>2, <1>8 DEF WriteHeader
    <2>2. FileOK(b)
      BY <1>3, <1>4, <1>5, <1>7, <1>8 DEF FileOK
    <2>3. \A f, v : Holds(b, f, v) <=> Holds(c, f, v)
      BY <1>3, <1>5, <1>6 DEF Holds, Says
    <2>4. Says(b, "sp", b.spreg) <=> Says(c, "sp", c.spreg)
      BY <1>3, <1>5, <1>6 DEF Says
    <2>5. \A f \in Fields : ~About(m, f)
      BY <1>1 DEF About, Fields
    <2>6. Follows(c, m, b)
      BY <2>3, <2>4, <2>5 DEF Follows
    <2> QED BY <2>1, <2>2, <2>6, <1>3 DEF Handled
  <1>9. CASE ~c.first_clock_occured /\ config.opened
    <2> DEFINE e == Entry("header", {id \in config.traced : Marked(b, id)})
    <2>1. d = Appended(b, e)
      BY <1>2, <1>9 DEF WriteHeader, Appended
    <2>2. e.id = "header" /\ e.val = {id \in config.traced : Marked(b, id)}
      BY DEF Entry
    <2>3. config.traced \subseteq Signals
      BY DisplayAssumed DEF DisplayAssumption
    <2>4. e \in FileEntries
      BY <2>3 DEF Entry, FileEntries
    <2> HIDE DEF e
    <2>5. c.file = <<>> /\ Len(b.file) = 0
      BY <1>3, <1>9 DEF FileOK
    <2>6. /\ d \in Children /\ d.clk = b.clk /\ d.bound = b.bound /\ d.spreg = b.spreg
      BY <2>1, <2>4, <1>3, AppendEntry
    <2>7. d.first_clock_occured = b.first_clock_occured
      BY <2>1, <2>4, <1>3, AppendEntry
    <2>8. DOMAIN d.file = 1..1 /\ d.file[1] = e
      <3>1. DOMAIN d.file = 1..(Len(b.file) + 1) /\ d.file[Len(b.file) + 1] = e
        BY <2>1, <2>4, <1>3, AppendEntry
      <3> QED BY <3>1, <2>5
    <2>9. \A x : x # "header" => Entries(d, x) = {}
      BY <2>2, <2>8 DEF Entries
    <2>10. \A x : Entries(c, x) = {}
      BY <2>5 DEF Entries
    <2>11. \A x : Marked(d, x) <=> Marked(b, x)
      BY <2>6 DEF Marked
    <2>12. FileOK(d)
      <3>1. d.file # <<>>
        <4>1. 1 \in DOMAIN d.file /\ DOMAIN <<>> = {}
          BY <2>8
        <4> QED BY <4>1
      <3>2. d.file[1].val = {id \in config.traced : Marked(d, id)}
        BY <2>2, <2>8, <2>11
      <3>3. \A i \in DOMAIN d.file : /\ d.file[i].id = "header" <=> i = 1
                                     /\ d.file[i].id \in Signals => Marked(d, d.file[i].id)
        BY <2>2, <2>8 DEF Signals
      <3>4. Entries(d, "#") = {}
        BY <2>9
      <3>5. d.first_clock_occured
        BY <2>7, <1>3
      <3> QED BY <3>1, <3>2, <3>3, <3>4, <3>5, <1>9 DEF FileOK
    <2>13. \A x, v : x # "header" => (Says(d, x, v) <=> Says(c, x, v))
      BY <2>9, <2>10 DEF Says, LastIs
    <2>14. \A v : \A f \in Fields : Holds(d, f, v) <=> Holds(c, f, v)
      BY <2>6, <2>13, <1>3 DEF Holds, Fields, SignalOf
    <2>15. Says(d, "sp", d.spreg) <=> Says(c, "sp", c.spreg)
      BY <2>6, <2>13, <1>3
    <2>16. \A f \in Fields : ~About(m, f)
      BY <1>1 DEF About, Fields
    <2>17. Follows(c, m, d)
      BY <2>14, <2>15, <2>16 DEF Follows
    <2> QED BY <2>6, <2>7, <2>12, <2>17, <1>3 DEF Handled
  <1> QED BY <1>8, <1>9

(* The name of an I/O register, before the first clock, and the quit        *)
(* message: the file stays as it is.                                        *)
LEMMA OtherHandled ==
    ASSUME NEW c \in Children, FileOK(c), NEW m \in Messages, m.kind \in {"I", "q"},
           m.kind = "I" => ~c.first_clock_occured, NEW d, d = Handle(c, m)
    PROVE  Handled(c, m, d)
  <1>1. /\ d \in Children /\ d.clk = c.clk /\ d.spreg = c.spreg /\ d.file = c.file
        /\ m.kind = "q" => d.bound = c.bound
    BY DEF Handle, Children, Messages, Addresses
  <1>2. d.first_clock_occured = c.first_clock_occured
    BY DEF Handle, Children
  <1>3. \A f \in Fields : ~About(m, f)
    BY DEF About, Fields, Messages
  <1>4. \A x : Entries(d, x) = Entries(c, x)
    BY <1>1 DEF Entries
  <1>5. \A x, v : LastIs(d, x, v) <=> LastIs(c, x, v)
    BY <1>1, <1>4 DEF LastIs
  <1>6. Follows(c, m, d)
    <2>1. \A x, v : Says(d, x, v) <=> Says(c, x, v)
      BY <1>4, <1>5 DEF Says
    <2>2. \A f, v : Holds(d, f, v) <=> Holds(c, f, v)
      BY <2>1, <1>1 DEF Holds
    <2> QED BY <2>1, <2>2, <1>1, <1>3 DEF Follows
  <1>7. FileOK(d)
    <2>1. CASE m.kind = "q"
      <3>1. \A x : Marked(d, x) <=> Marked(c, x)
        BY <2>1, <1>1 DEF Marked
      <3> QED BY <3>1, <1>1, <1>2, <1>4 DEF FileOK
    <2>2. CASE m.kind = "I"
      <3>1. c.file = <<>> /\ ~d.first_clock_occured
        BY <2>2, <1>2 DEF FileOK
      <3>2. d.file = <<>> /\ DOMAIN d.file = {} /\ Entries(d, "#") = {}
        BY <3>1, <1>1 DEF Entries
      <3> QED BY <3>1, <3>2 DEF FileOK
    <2> QED BY <2>1, <2>2
  <1> QED BY <1>1, <1>2, <1>6, <1>7 DEF Handled

(* Every message, in its turn. *)
LEMMA HandleStep ==
    ASSUME NEW c \in Children, FileOK(c), NEW m \in Messages, InTurn(c, m),
           config \in Configs, NEW d, d = Handle(c, m)
    PROVE  Handled(c, m, d)
  <1>1. CASE m.kind = "n"
    BY <1>1, ClockHandled DEF InTurn
  <1>2. CASE m.kind \in {"I", "q"}
    BY <1>2, OtherHandled DEF InTurn
  <1>3. CASE m.kind = "i" /\ m.addr \in {"SPL", "SPH"}
    <2>1. d = SpByte(c, m)
      BY <1>3 DEF Handle
    <2> QED BY <2>1, <1>3, SpHandled DEF InTurn
  <1>4. CASE m.kind = "r"
    <2>1. d = WriteValue(c, "reg", m.val) /\ m.addr = "reg" /\ c.first_clock_occured
      BY <1>4 DEF Handle, Messages, InTurn
    <2>2. Entry("reg", m.val) \in FileEntries /\ "reg" \in Signals \ {"sp"}
      BY <1>4 DEF Entry, FileEntries, Messages, Signals
    <2> QED BY <2>1, <2>2, <1>4, ValueHandled
  <1>5. CASE m.kind = "s"
    <2>1. d = WriteValue(c, "sram", m.val) /\ m.addr = "sram" /\ c.first_clock_occured
      BY <1>5 DEF Handle, Messages, InTurn
    <2>2. Entry("sram", m.val) \in FileEntries /\ "sram" \in Signals \ {"sp"}
      BY <1>5 DEF Entry, FileEntries, Messages, Signals
    <2> QED BY <2>1, <2>2, <1>5, ValueHandled
  <1>6. CASE m.kind = "p"
    <2>1. d = WriteValue(c, "pc", m.val) /\ m.addr = "PC" /\ c.first_clock_occured
      BY <1>6 DEF Handle, Messages, InTurn
    <2>2. Entry("pc", m.val) \in FileEntries /\ "pc" \in Signals \ {"sp"}
      BY <1>6 DEF Entry, FileEntries, Messages, Signals
    <2> QED BY <2>1, <2>2, <1>6, ValueHandled
  <1>7. CASE m.kind = "i" /\ m.addr = "PORT"
    <2>1. d = WriteValue(c, "ioreg", m.val) /\ c.first_clock_occured
      BY <1>7 DEF Handle, InTurn
    <2>2. Entry("ioreg", m.val) \in FileEntries /\ "ioreg" \in Signals \ {"sp"}
      BY <1>7 DEF Entry, FileEntries, Messages, Signals
    <2> QED BY <2>1, <2>2, <1>7, ValueHandled
  <1>8. \/ m.kind \in {"n", "I", "q", "r", "s", "p"}
        \/ m.kind = "i" /\ m.addr \in {"SPL", "SPH", "PORT"}
    BY DEF Messages, Addresses
  <1> QED BY <1>1, <1>2, <1>3, <1>4, <1>5, <1>6, <1>7, <1>8

----------------------------------------------------------------------------
(* The messages on their way, as one sequence *)

(* Reading takes the first of them. *)
LEMMA FirstRead ==
    ASSUME NEW s \in Seq(Messages), s # <<>>
    PROVE  /\ Head(s) \in Messages /\ Tail(s) \in Seq(Messages)
           /\ Len(s) \in Nat \ {0} /\ Len(Tail(s)) = Len(s) - 1
           /\ DOMAIN s = 1..Len(s) /\ DOMAIN Tail(s) = 1..(Len(s) - 1)
           /\ s[1] = Head(s)
           /\ \A k \in 1..(Len(s) - 1) : Tail(s)[k] = s[k + 1]
  <1>1. /\ Head(s) \in Messages /\ Tail(s) \in Seq(Messages)
        /\ Len(s) \in Nat \ {0} /\ Len(Tail(s)) = Len(s) - 1
        /\ \A k \in 1..Len(Tail(s)) : Tail(s)[k] = s[k + 1]
    BY HeadTailProperties, EmptySeq, LenProperties
  <1>2. s[1] = Head(s)
    OBVIOUS
  <1> QED BY <1>1, <1>2, LenProperties

(* Names at the front of what is under way leave a file that is well formed. *)
LEMMA ReadNames ==
    ASSUME NEW s \in Seq(Messages), s # <<>>, NEW c, Named(c, s)
    PROVE  /\ c.first_clock_occured => Head(s).kind # "I"
           /\ ~c.first_clock_occured => Head(s).kind \in {"I", "n"}
           /\ \A d : (d.first_clock_occured <=> (c.first_clock_occured \/ Head(s).kind = "n"))
                    => Named(d, Tail(s))
  <1> DEFINE L == Len(s)
             t == Tail(s)
             m == Head(s)
  <1>1. /\ L \in Nat \ {0} /\ DOMAIN s = 1..L /\ DOMAIN t = 1..(L - 1)
        /\ s[1] = m /\ \A k \in 1..(L - 1) : t[k] = s[k + 1]
    BY FirstRead
  <1> HIDE DEF L, t, m
  <1>2. CASE c.first_clock_occured
    <2>1. \A k \in 1..L : s[k].kind # "I"
      BY <1>1, <1>2 DEF Named
    <2>2. m.kind # "I" /\ \A k \in DOMAIN t : t[k].kind # "I"
      BY <1>1, <2>1
    <2> QED BY <2>2, <1>2 DEF Named, t, m
  <1>3. CASE ~c.first_clock_occured
    <2>1. PICK k \in 1..L : /\ s[k].kind = "n"
                            /\ \A j \in 1..L : s[j].kind = "I" <=> j < k
      BY <1>1, <1>3 DEF Named
    <2>2. CASE k = 1
      <3>1. m.kind = "n"
        BY <2>1, <2>2, <1>1
      <3>2. \A j \in DOMAIN t : t[j].kind # "I"
        BY <2>1, <2>2, <1>1
      <3> QED BY <3>1, <3>2, <1>3 DEF Named, t, m
    <2>3. CASE k # 1
      <3>1. m.kind = "I"
        BY <2>1, <2>3, <1>1
      <3>2. k - 1 \in DOMAIN t /\ t[k - 1].kind = "n"
        BY <2>1, <2>3, <1>1
      <3>3. \A j \in DOMAIN t : t[j].kind = "I" <=> j < k - 1
        BY <2>1, <2>3, <1>1
      <3> QED BY <3>1, <3>2, <3>3, <1>3 DEF Named, t, m
    <2> QED BY <2>2, <2>3
  <1> QED BY <1>2, <1>3

(* So do clocks. *)
LEMMA ReadClocks ==
    ASSUME NEW s \in Seq(Messages), s # <<>>, NEW lo, NEW hi, Clocked(lo, s, hi)
    PROVE  /\ Head(s).kind = "n" => lo <= Head(s).val
           /\ Clocked(IF Head(s).kind = "n" THEN Head(s).val ELSE lo, Tail(s), hi)
  <1> DEFINE L == Len(s)
             t == Tail(s)
             m == Head(s)
             low == IF m.kind = "n" THEN m.val ELSE lo
  <1>1. /\ L \in Nat \ {0} /\ DOMAIN s = 1..L /\ DOMAIN t = 1..(L - 1)
        /\ s[1] = m /\ \A k \in 1..(L - 1) : t[k] = s[k + 1]
    BY FirstRead
  <1> HIDE DEF L, t, m
  <1>2. /\ lo <= hi
        /\ \A k \in 1..L : s[k].kind = "n" => lo <= s[k].val /\ s[k].val <= hi
        /\ \A j, k \in 1..L :
              j <= k /\ s[j].kind = "n" /\ s[k].kind = "n" => s[j].val <= s[k].val
    BY <1>1 DEF Clocked
  <1>3. /\ m.kind = "n" => lo <= m.val
        /\ low <= hi
    BY <1>1, <1>2
  <1>4. \A k \in DOMAIN t : t[k].kind = "n" => low <= t[k].val /\ t[k].val <= hi
    BY <1>1, <1>2
  <1>5. \A j, k \in DOMAIN t :
           j <= k /\ t[j].kind = "n" /\ t[k].kind = "n" => t[j].val <= t[k].val
    BY <1>1, <1>2
  <1> HIDE DEF low
  <1>6. Clocked(low, t, hi)
    BY <1>3, <1>4, <1>5 DEF Clocked
  <1> QED BY <1>3, <1>6 DEF low, t, m

(* What the rest says of a field, and what the message read says of it. *)
LEMMA ReadFields ==
    ASSUME NEW s \in Seq(Messages), s # <<>>, NEW f
    PROVE  /\ Silent(s, f) => Silent(Tail(s), f) /\ ~About(Head(s), f)
           /\ \A v : Ends(s, f, v) =>
                 Ends(Tail(s), f, v)
                   \/ (Silent(Tail(s), f) /\ About(Head(s), f) /\ Head(s).val = v)
  <1> DEFINE L == Len(s)
             t == Tail(s)
             m == Head(s)
  <1>1. /\ L \in Nat \ {0} /\ DOMAIN s = 1..L /\ DOMAIN t = 1..(L - 1)
        /\ s[1] = m /\ \A k \in 1..(L - 1) : t[k] = s[k + 1]
    BY FirstRead
  <1> HIDE DEF L, t, m
  <1>2. ASSUME Silent(s, f) PROVE Silent(t, f) /\ ~About(m, f)
    BY <1>1, <1>2 DEF Silent
  <1>3. ASSUME NEW v, Ends(s, f, v)
        PROVE  Ends(t, f, v) \/ (Silent(t, f) /\ About(m, f) /\ m.val = v)
    <2>1. PICK k \in 1..L : /\ About(s[k], f) /\ s[k].val = v
                            /\ \A j \in 1..L : j > k => ~About(s[j], f)
      BY <1>1, <1>3 DEF Ends
    <2>2. CASE k = 1
      <3>1. \A j \in DOMAIN t : ~About(t[j], f)
        BY <2>1, <2>2, <1>1
      <3> QED BY <3>1, <2>1, <2>2, <1>1 DEF Silent
    <2>3. CASE k # 1
      <3>1. k - 1 \in DOMAIN t /\ t[k - 1] = s[k]
        BY <2>1, <2>3, <1>1
      <3>2. \A j \in DOMAIN t : j > k - 1 => ~About(t[j], f)
        BY <2>1, <2>3, <1>1
      <3> QED BY <3>1, <3>2, <2>1 DEF Ends
    <2> QED BY <2>2, <2>3
  <1> QED BY <1>2, <1>3 DEF t, m

(* Two sequences, one after the other. *)
LEMMA Joined ==
    ASSUME NEW s \in Seq(Messages), NEW u \in Seq(Messages), NEW w, w = s \o u
    PROVE  /\ w \in Seq(Messages)
           /\ Len(s) \in Nat /\ Len(u) \in Nat /\ Len(w) = Len(s) + Len(u)
           /\ DOMAIN s = 1..Len(s) /\ DOMAIN u = 1..Len(u)
           /\ DOMAIN w = 1..(Len(s) + Len(u))
           /\ \A k \in 1..Len(s) : w[k] = s[k]
           /\ \A k \in 1..Len(u) : w[Len(s) + k] = u[k]
           /\ \A k \in 1..(Len(s) + Len(u)) : k > Len(s) =>
                 k - Len(s) \in 1..Len(u) /\ w[k] = u[k - Len(s)]
  <1>1. w \in Seq(Messages) /\ Len(w) = Len(s) + Len(u)
        /\ \A i \in 1..(Len(s) + Len(u)) :
               w[i] = IF i <= Len(s) THEN s[i] ELSE u[i - Len(s)]
    BY ConcatProperties
  <1>2. Len(s) \in Nat /\ Len(u) \in Nat
        /\ DOMAIN s = 1..Len(s) /\ DOMAIN u = 1..Len(u) /\ DOMAIN w = 1..Len(w)
    BY <1>1, LenProperties
  <1> QED BY <1>1, <1>2

(* What the messages of an operation join, taken apart. *)
LEMMA JoinedFields ==
    ASSUME NEW s \in Seq(Messages), NEW u \in Seq(Messages), NEW w, w = s \o u, NEW f
    PROVE  /\ Silent(s, f) /\ Silent(u, f) => Silent(w, f)
           /\ \A v : Ends(s, f, v) /\ Silent(u, f) => Ends(w, f, v)
           /\ \A v : Ends(u, f, v) => Ends(w, f, v)
  <1> DEFINE L == Len(s)
             N == Len(u)
  <1>1. /\ L \in Nat /\ N \in Nat
        /\ DOMAIN s = 1..L /\ DOMAIN u = 1..N /\ DOMAIN w = 1..(L + N)
        /\ \A k \in 1..L : w[k] = s[k]
        /\ \A k \in 1..N : w[L + k] = u[k]
        /\ \A k \in 1..(L + N) : k > L => k - L \in 1..N /\ w[k] = u[k - L]
    BY Joined
  <1> HIDE DEF L, N
  <1>2. ASSUME Silent(s, f), Silent(u, f) PROVE Silent(w, f)
    <2> SUFFICES ASSUME NEW k \in 1..(L + N) PROVE ~About(w[k], f)
      BY <1>1 DEF Silent
    <2>1. CASE k <= L
      <3>1. k \in 1..L /\ w[k] = s[k]
        BY <2>1, <1>1
      <3> QED BY <3>1, <1>1, <1>2 DEF Silent
    <2>2. CASE k > L
      <3>1. k - L \in 1..N /\ w[k] = u[k - L]
        BY <2>2, <1>1
      <3> QED BY <3>1, <1>1, <1>2 DEF Silent
    <2> QED BY <2>1, <2>2, <1>1
  <1>3. ASSUME NEW v, Ends(s, f, v), Silent(u, f) PROVE Ends(w, f, v)
    <2>1. PICK k \in 1..L : /\ About(s[k], f) /\ s[k].val = v
                            /\ \A j \in 1..L : j > k => ~About(s[j], f)
      BY <1>1, <1>3 DEF Ends
    <2>2. ASSUME NEW j \in 1..(L + N), j > k PROVE ~About(w[j], f)
      <3>1. CASE j <= L
        BY <2>1, <2>2, <3>1, <1>1
      <3>2. CASE j > L
        BY <3>2, <1>1, <1>3 DEF Silent
      <3> QED BY <3>1, <3>2, <1>1
    <2>3. k \in 1..(L + N) /\ w[k] = s[k]
      BY <1>1
    <2> QED BY <2>1, <2>2, <2>3, <1>1 DEF Ends
  <1>4. ASSUME NEW v, Ends(u, f, v) PROVE Ends(w, f, v)
    <2>1. PICK k \in 1..N : /\ About(u[k], f) /\ u[k].val = v
                            /\ \A j \in 1..N : j > k => ~About(u[j], f)
      BY <1>1, <1>4 DEF Ends
    <2>2. L + k \in 1..(L + N) /\ w[L + k] = u[k]
      BY <1>1
    <2>3. ASSUME NEW j \in 1..(L + N), j > L + k PROVE ~About(w[j], f)
      <3>1. j - L \in 1..N /\ w[j] = u[j - L] /\ j - L > k
        BY <2>3, <1>1
      <3> QED BY <3>1, <2>1
    <2> QED BY <2>1, <2>2, <2>3, <1>1 DEF Ends
  <1> QED BY <1>2, <1>3, <1>4

(* No name comes after a clock when messages are joined. *)
LEMMA JoinedNames ==
    ASSUME NEW s \in Seq(Messages), NEW u \in Seq(Messages), NEW w, w = s \o u,
           \A k \in DOMAIN u : u[k].kind # "I", NEW c, Named(c, s)
    PROVE  Named(c, w)
  <1> DEFINE L == Len(s)
             N == Len(u)
  <1>1. /\ L \in Nat /\ N \in Nat
        /\ DOMAIN s = 1..L /\ DOMAIN u = 1..N /\ DOMAIN w = 1..(L + N)
        /\ \A k \in 1..L : w[k] = s[k]
        /\ \A k \in 1..(L + N) : k > L => k - L \in 1..N /\ w[k] = u[k - L]
    BY Joined
  <1> HIDE DEF L, N
  <1>2. \A k \in 1..(L + N) : k > L => w[k].kind # "I"
    BY <1>1
  <1>3. CASE c.first_clock_occured
    <2>1. \A k \in 1..L : w[k].kind # "I"
      BY <1>1, <1>3 DEF Named
    <2>2. \A k \in 1..(L + N) : k <= L => k \in 1..L
      BY <1>1
    <2> QED BY <2>1, <2>2, <1>1, <1>2, <1>3 DEF Named
  <1>4. CASE ~c.first_clock_occured
    <2>1. PICK k \in 1..L : /\ s[k].kind = "n"
                            /\ \A j \in 1..L : s[j].kind = "I" <=> j < k
      BY <1>1, <1>4 DEF Named
    <2>2. k \in 1..(L + N) /\ w[k].kind = "n"
      BY <2>1, <1>1
    <2>3. ASSUME NEW j \in 1..(L + N) PROVE w[j].kind = "I" <=> j < k
      <3>1. CASE j <= L
        BY <2>1, <3>1, <1>1
      <3>2. CASE j > L
        BY <3>2, <1>2, <1>1
      <3> QED BY <3>1, <3>2, <1>1
    <2> QED BY <2>2, <2>3, <1>1, <1>4 DEF Named
  <1> QED BY <1>3, <1>4

(* A clock is a number. *)
LEMMA ClockNat ==
    ASSUME NEW s \in Seq(Messages), NEW k \in DOMAIN s, s[k].kind = "n"
    PROVE  s[k].val \in Nat
  <1>1. s[k] \in Messages
    BY ElementOfSeq, LenProperties
  <1> QED BY <1>1 DEF Messages

(* The clocks of joined messages do not decrease. *)
LEMMA JoinedClocks ==
    ASSUME NEW s \in Seq(Messages), NEW u \in Seq(Messages), NEW w, w = s \o u,
           NEW lo \in Nat, NEW mid \in Nat, NEW hi \in Nat,
           Clocked(lo, s, mid), Clocked(mid, u, hi)
    PROVE  Clocked(lo, w, hi)
  <1> DEFINE L == Len(s)
             N == Len(u)
  <1>1. /\ L \in Nat /\ N \in Nat
        /\ DOMAIN s = 1..L /\ DOMAIN u = 1..N /\ DOMAIN w = 1..(L + N)
        /\ \A k \in 1..L : w[k] = s[k]
        /\ \A k \in 1..(L + N) : k > L => k - L \in 1..N /\ w[k] = u[k - L]
    BY Joined
  <1> HIDE DEF L, N
  <1>2. \A k \in 1..L : s[k].kind = "n" =>
           s[k].val \in Nat /\ lo <= s[k].val /\ s[k].val <= mid
    BY <1>1, ClockNat DEF Clocked
  <1>3. \A k \in 1..N : u[k].kind = "n" =>
           u[k].val \in Nat /\ mid <= u[k].val /\ u[k].val <= hi
    BY <1>1, ClockNat DEF Clocked
  <1>4. lo <= mid /\ mid <= hi
    BY DEF Clocked
  <1>5. ASSUME NEW k \in 1..(L + N), w[k].kind = "n"
        PROVE  /\ w[k].val \in Nat /\ lo <= w[k].val /\ w[k].val <= hi
               /\ k <= L => w[k].val <= mid
               /\ k > L => mid <= w[k].val
    <2>1. CASE k <= L
      <3>1. k \in 1..L /\ w[k] = s[k]
        BY <2>1, <1>1
      <3> QED BY <3>1, <2>1, <1>1, <1>2, <1>4, <1>5
    <2>2. CASE k > L
      <3>1. k - L \in 1..N /\ w[k] = u[k - L]
        BY <2>2, <1>1
      <3> QED BY <3>1, <2>2, <1>1, <1>3, <1>4, <1>5
    <2> QED BY <2>1, <2>2, <1>1
  <1>6. ASSUME NEW j \in 1..(L + N), NEW k \in 1..(L + N), j <= k,
               w[j].kind = "n", w[k].kind = "n"
        PROVE  w[j].val <= w[k].val
    <2>1. CASE k <= L
      <3>1. j \in 1..L /\ k \in 1..L /\ w[j] = s[j] /\ w[k] = s[k]
        BY <2>1, <1>1, <1>6
      <3> QED BY <3>1, <1>1, <1>6 DEF Clocked
    <2>2. CASE j > L
      <3>1. /\ j - L \in 1..N /\ w[j] = u[j - L]
            /\ k - L \in 1..N /\ w[k] = u[k - L] /\ j - L <= k - L
        <4>1. /\ j - L \in 1..N /\ j - L \in Nat
              /\ k - L \in 1..N /\ k - L \in Nat /\ j - L <= k - L
          BY <2>2, <1>1, <1>6
        <4>2. j > L /\ k > L
          BY <2>2, <1>1, <1>6
        <4> QED BY <4>1, <4>2, <1>1
      <3> QED BY <3>1, <1>1, <1>6 DEF Clocked
    <2>3. CASE j <= L /\ k > L
      <3>1. w[j].val \in Nat /\ w[j].val <= mid
        BY <2>3, <1>5, <1>6
      <3>2. w[k].val \in Nat /\ mid <= w[k].val
        BY <2>3, <1>5, <1>6
      <3>3. \A p, q \in Nat : p <= mid /\ mid <= q => p <= q
        OBVIOUS
      <3> QED BY <3>1, <3>2, <3>3, Zenon
    <2> QED BY <2>1, <2>2, <2>3, <1>1
  <1>7. lo <= hi
    BY <1>4
  <1> QED BY <1>1, <1>5, <1>6, <1>7 DEF Clocked

----------------------------------------------------------------------------
(* What the simulator writes *)

(* The messages u tell how the machine a becomes b. *)
Tells(u, a, b) ==
    /\ u \in Seq(Messages) /\ \A k \in DOMAIN u : u[k].kind # "I"
    /\ Clocked(a.CK, u, b.CK)
    /\ \A f \in Fields : \/ Ends(u, f, b[f])
                         \/ Silent(u, f) /\ b[f] = a[f]

(* One message after the other. *)
LEMMA TellsBoth ==
    ASSUME NEW s, NEW u, NEW a \in Machines, NEW b \in Machines, NEW c \in Machines,
           Tells(s, a, b), Tells(u, b, c)
    PROVE  Tells(s \o u, a, c)
  <1> DEFINE w == s \o u
  <1>1. s \in Seq(Messages) /\ u \in Seq(Messages)
    BY DEF Tells
  <1>2. /\ a.CK \in Nat /\ b.CK \in Nat /\ c.CK \in Nat
        /\ Clocked(a.CK, s, b.CK) /\ Clocked(b.CK, u, c.CK)
    BY DEF Tells, Machines
  <1>3. Clocked(a.CK, w, c.CK)
    BY <1>1, <1>2, JoinedClocks
  <1>4. w \in Seq(Messages)
    BY <1>1, Joined
  <1>5. \A k \in DOMAIN w : w[k].kind # "I"
    <2>1. /\ \A k \in DOMAIN s : s[k].kind # "I"
          /\ \A k \in DOMAIN u : u[k].kind # "I"
      BY DEF Tells
    <2> QED BY <2>1, <1>1, Joined
  <1>6. ASSUME NEW f \in Fields
        PROVE  Ends(w, f, c[f]) \/ (Silent(w, f) /\ c[f] = a[f])
    <2>1. Ends(s, f, b[f]) \/ (Silent(s, f) /\ b[f] = a[f])
      BY DEF Tells
    <2>2. Ends(u, f, c[f]) \/ (Silent(u, f) /\ c[f] = b[f])
      BY DEF Tells
    <2>3. /\ Silent(s, f) /\ Silent(u, f) => Silent(w, f)
          /\ \A v : Ends(s, f, v) /\ Silent(u, f) => Ends(w, f, v)
          /\ \A v : Ends(u, f, v) => Ends(w, f, v)
      BY <1>1, JoinedFields
    <2> QED BY <2>1, <2>2, <2>3
  <1> QED BY <1>3, <1>4, <1>5, <1>6 DEF Tells

(* An operation without messages tells what the machine was. *)
LEMMA TellsNothing ==
    ASSUME NEW a \in Machines
    PROVE  Tells(<<>>, a, a)
  <1>1. /\ <<>> \in Seq(Messages) /\ DOMAIN <<>> = {}
        /\ a.CK <= a.CK
    BY DEF Machines
  <1>2. Clocked(a.CK, <<>>, a.CK)
    BY <1>1 DEF Clocked
  <1>3. \A f : Silent(<<>>, f)
    BY <1>1 DEF Silent
  <1> QED BY <1>1, <1>2, <1>3 DEF Tells

(* A message of one field, or of the clock. *)
LEMMA TellsOne ==
    ASSUME NEW m \in Messages, m.kind # "I",
           NEW a \in Machines, NEW b \in Machines,
           IF m.kind = "n" THEN a.CK <= m.val /\ m.val = b.CK ELSE a.CK = b.CK,
           \A f \in Fields : IF m.addr = f THEN m.val = b[f] ELSE b[f] = a[f]
    PROVE  Tells(<<m>>, a, b)
  <1> DEFINE u == <<m>>
  <1>1. u \in Seq(Messages) /\ DOMAIN u = 1..1 /\ u[1] = m
    OBVIOUS
  <1> HIDE DEF u
  <1>2. \A k \in DOMAIN u : u[k] = m /\ k = 1
    BY <1>1
  <1>3. Clocked(a.CK, u, b.CK)
    <2>1. a.CK \in Nat /\ a.CK <= a.CK /\ (m.kind = "n" => m.val \in Nat /\ m.val <= m.val)
      <3>1. a.CK \in Nat /\ \A n \in Nat : n <= n
        BY DEF Machines
      <3>2. m.kind = "n" => m.val \in Nat
        BY DEF Messages
      <3> QED BY <3>1, <3>2, Zenon
    <2>2. a.CK <= b.CK /\ (m.kind = "n" => a.CK <= m.val /\ m.val <= b.CK)
      BY <2>1
    <2>3. \A k \in DOMAIN u : u[k].kind = "n" => a.CK <= u[k].val /\ u[k].val <= b.CK
      BY <2>2, <1>2
    <2>4. \A j, k \in DOMAIN u :
             j <= k /\ u[j].kind = "n" /\ u[k].kind = "n" => u[j].val <= u[k].val
      BY <2>1, <1>2
    <2> QED BY <2>2, <2>3, <2>4 DEF Clocked
  <1>4. ASSUME NEW f \in Fields
        PROVE  Ends(u, f, b[f]) \/ (Silent(u, f) /\ b[f] = a[f])
    <2>1. CASE m.addr = f
      BY <2>1, <1>1, <1>2 DEF Ends, About
    <2>2. CASE m.addr # f
      BY <2>2, <1>2 DEF Silent, About
    <2> QED BY <2>1, <2>2
  <1> QED BY <1>1, <1>2, <1>3, <1>4 DEF Tells, u

(* A register, the clock, the PC, the two bytes of the stack pointer. *)
LEMMA TellsRegister ==
    ASSUME NEW a \in Machines, NEW v \in Values
    PROVE  /\ [a EXCEPT !.reg = v] \in Machines
           /\ Tells(Registers(v), a, [a EXCEPT !.reg = v])
  <1> DEFINE b == [a EXCEPT !.reg = v]
             m == Msg("r", "reg", v)
  <1>1. b \in Machines /\ b.CK = a.CK
        /\ \A f \in Fields : IF m.addr = f THEN m.val = b[f] ELSE b[f] = a[f]
    BY DEF Machines, Msg, Fields
  <1>2. m \in Messages /\ m.kind = "r"
    BY DEF Msg, Messages
  <1> HIDE DEF b, m
  <1>3. Tells(<<m>>, a, b)
    BY <1>1, <1>2, TellsOne
  <1> QED BY <1>1, <1>3 DEF Registers, b, m

(* A store to SRAM tells its value. *)
LEMMA TellsSram ==
    ASSUME NEW a \in Machines, NEW v \in Values
    PROVE  /\ [a EXCEPT !.sram = v] \in Machines
           /\ Tells(<<Msg("s", "sram", v)>>, a, [a EXCEPT !.sram = v])
  <1> DEFINE b == [a EXCEPT !.sram = v]
             m == Msg("s", "sram", v)
  <1>1. b \in Machines /\ b.CK = a.CK
        /\ \A f \in Fields : IF m.addr = f THEN m.val = b[f] ELSE b[f] = a[f]
    BY DEF Machines, Msg, Fields
  <1>2. m \in Messages /\ m.kind = "s"
    BY DEF Msg, Messages
  <1> HIDE DEF b, m
  <1>3. Tells(<<m>>, a, b)
    BY <1>1, <1>2, TellsOne
  <1> QED BY <1>1, <1>3 DEF b, m

(* A store to a port tells its value. *)
LEMMA TellsPort ==
    ASSUME NEW a \in Machines, NEW v \in Values
    PROVE  /\ [a EXCEPT !.PORT = v] \in Machines
           /\ Tells(<<Msg("i", "PORT", v)>>, a, [a EXCEPT !.PORT = v])
  <1> DEFINE b == [a EXCEPT !.PORT = v]
             m == Msg("i", "PORT", v)
  <1>1. b \in Machines /\ b.CK = a.CK
        /\ \A f \in Fields : IF m.addr = f THEN m.val = b[f] ELSE b[f] = a[f]
    BY DEF Machines, Msg, Fields
  <1>2. m \in Messages /\ m.kind = "i"
    BY DEF Msg, Messages, Addresses
  <1> HIDE DEF b, m
  <1>3. Tells(<<m>>, a, b)
    BY <1>1, <1>2, TellsOne
  <1> QED BY <1>1, <1>3 DEF b, m

(* A change of PC tells its value. *)
LEMMA TellsCounter ==
    ASSUME NEW a \in Machines, NEW pc \in Nat
    PROVE  /\ [a EXCEPT !.PC = pc] \in Machines
           /\ Tells(Counter(pc), a, [a EXCEPT !.PC = pc])
  <1> DEFINE b == [a EXCEPT !.PC = pc]
             m == Msg("p", "PC", pc)
  <1>1. b \in Machines /\ b.CK = a.CK
        /\ \A f \in Fields : IF m.addr = f THEN m.val = b[f] ELSE b[f] = a[f]
    BY DEF Machines, Msg, Fields
  <1>2. m \in Messages /\ m.kind = "p"
    BY DEF Msg, Messages
  <1> HIDE DEF b, m
  <1>3. Tells(<<m>>, a, b)
    BY <1>1, <1>2, TellsOne
  <1> QED BY <1>1, <1>3 DEF Counter, b, m

(* A tick of the clock tells its value. *)
LEMMA TellsClock ==
    ASSUME NEW a \in Machines, NEW ck \in Nat, a.CK <= ck
    PROVE  /\ [a EXCEPT !.CK = ck] \in Machines
           /\ Tells(Clock(ck), a, [a EXCEPT !.CK = ck])
  <1> DEFINE b == [a EXCEPT !.CK = ck]
             m == Msg("n", "CK", ck)
  <1>1. b \in Machines /\ b.CK = ck
        /\ \A f \in Fields : IF m.addr = f THEN m.val = b[f] ELSE b[f] = a[f]
    BY DEF Machines, Msg, Fields
  <1>2. m \in Messages /\ m.kind = "n" /\ m.val = ck
    BY DEF Msg, Messages
  <1> HIDE DEF b, m
  <1>3. Tells(<<m>>, a, b)
    BY <1>1, <1>2, TellsOne
  <1> QED BY <1>1, <1>3 DEF Clock, b, m

(* A change of SP tells both of its bytes. *)
LEMMA TellsPointer ==
    ASSUME NEW a \in Machines, NEW l \in Values, NEW h \in Values
    PROVE  /\ [a EXCEPT !.SPL = l, !.SPH = h] \in Machines
           /\ Tells(StackPointer(l, h), a, [a EXCEPT !.SPL = l, !.SPH = h])
  <1> DEFINE b == [a EXCEPT !.SPL = l]
             c == [a EXCEPT !.SPL = l, !.SPH = h]
             m == Msg("i", "SPL", l)
             n == Msg("i", "SPH", h)
  <1>1. b \in Machines /\ b.CK = a.CK
        /\ \A f \in Fields : IF m.addr = f THEN m.val = b[f] ELSE b[f] = a[f]
    BY DEF Machines, Msg, Fields
  <1>2. c \in Machines /\ c.CK = b.CK
        /\ \A f \in Fields : IF n.addr = f THEN n.val = c[f] ELSE c[f] = b[f]
    BY DEF Machines, Msg, Fields
  <1>3. m \in Messages /\ m.kind = "i" /\ n \in Messages /\ n.kind = "i"
    BY DEF Msg, Messages, Addresses
  <1>4. StackPointer(l, h) = <<m>> \o <<n>>
    BY DEF StackPointer
  <1> HIDE DEF b, c, m, n
  <1>5. Tells(<<m>>, a, b) /\ Tells(<<n>>, b, c)
    BY <1>1, <1>2, <1>3, TellsOne
  <1>6. Tells(<<m>> \o <<n>>, a, c)
    BY <1>1, <1>2, <1>5, TellsBoth
  <1> QED BY <1>2, <1>4, <1>6 DEF c

(* What an instruction or a packet of the debugger writes. *)
LEMMA TellsEffect ==
    ASSUME machine \in Machines, NEW e \in Effects
    PROVE  /\ e[1] \in Machines /\ Tells(e[2], machine, e[1])
           /\ e[1].PC = machine.PC /\ e[1].CK = machine.CK
  <1>1. CASE e = <<machine, <<>>>>
    BY <1>1, TellsNothing
  <1>2. ASSUME NEW v \in Values, e = <<[machine EXCEPT !.reg = v], Registers(v)>>
        PROVE  /\ e[1] \in Machines /\ Tells(e[2], machine, e[1])
               /\ e[1].PC = machine.PC /\ e[1].CK = machine.CK
    <2> DEFINE x == [machine EXCEPT !.reg = v]
    <2>1. x \in Machines /\ Tells(Registers(v), machine, x)
      BY TellsRegister
    <2>2. x.PC = machine.PC /\ x.CK = machine.CK
      BY DEF Machines
    <2>3. e[1] = x /\ e[2] = Registers(v)
      BY <1>2
    <2> HIDE DEF x
    <2> QED BY <2>1, <2>2, <2>3
  <1>3. ASSUME NEW v \in Values, e = <<[machine EXCEPT !.sram = v], <<Msg("s", "sram", v)>>>>
        PROVE  /\ e[1] \in Machines /\ Tells(e[2], machine, e[1])
               /\ e[1].PC = machine.PC /\ e[1].CK = machine.CK
    <2> DEFINE x == [machine EXCEPT !.sram = v]
    <2>1. x \in Machines /\ Tells(<<Msg("s", "sram", v)>>, machine, x)
      BY TellsSram
    <2>2. x.PC = machine.PC /\ x.CK = machine.CK
      BY DEF Machines
    <2>3. e[1] = x /\ e[2] = <<Msg("s", "sram", v)>>
      BY <1>3
    <2> HIDE DEF x
    <2> QED BY <2>1, <2>2, <2>3
  <1>4. ASSUME NEW v \in Values, e = <<[machine EXCEPT !.PORT = v], <<Msg("i", "PORT", v)>>>>
        PROVE  /\ e[1] \in Machines /\ Tells(e[2], machine, e[1])
               /\ e[1].PC = machine.PC /\ e[1].CK = machine.CK
    <2> DEFINE x == [machine EXCEPT !.PORT = v]
    <2>1. x \in Machines /\ Tells(<<Msg("i", "PORT", v)>>, machine, x)
      BY TellsPort
    <2>2. x.PC = machine.PC /\ x.CK = machine.CK
      BY DEF Machines
    <2>3. e[1] = x /\ e[2] = <<Msg("i", "PORT", v)>>
      BY <1>4
    <2> HIDE DEF x
    <2> QED BY <2>1, <2>2, <2>3
  <1>5. ASSUME NEW l \in Values, NEW h \in Values, e = <<[machine EXCEPT !.SPL = l, !.SPH = h], StackPointer(l, h)>>
        PROVE  /\ e[1] \in Machines /\ Tells(e[2], machine, e[1])
               /\ e[1].PC = machine.PC /\ e[1].CK = machine.CK
    <2> DEFINE x == [machine EXCEPT !.SPL = l, !.SPH = h]
    <2>1. x \in Machines /\ Tells(StackPointer(l, h), machine, x)
      BY TellsPointer
    <2>2. x.PC = machine.PC /\ x.CK = machine.CK
      BY DEF Machines
    <2>3. e[1] = x /\ e[2] = StackPointer(l, h)
      BY <1>5
    <2> HIDE DEF x
    <2> QED BY <2>1, <2>2, <2>3
  <1>6. \/ e = <<machine, <<>>>>
        \/ \E v \in Values : e = <<[machine EXCEPT !.reg = v], Registers(v)>>
        \/ \E v \in Values : e = <<[machine EXCEPT !.sram = v], <<Msg("s", "sram", v)>>>>
        \/ \E v \in Values : e = <<[machine EXCEPT !.PORT = v], <<Msg("i", "PORT", v)>>>>
        \/ \E sp \in Values \X Values :
              e = <<[machine EXCEPT !.SPL = sp[1], !.SPH = sp[2]], StackPointer(sp[1], sp[2])>>
    BY Zenon DEF Effects
  <1>7. \A sp \in Values \X Values : sp[1] \in Values /\ sp[2] \in Values
    OBVIOUS
  <1> QED BY <1>1, <1>2, <1>3, <1>4, <1>5, <1>6, <1>7, Zenon

(* A step of the core tells all that it changed. *)
LEMMA TellsCoreStep ==
    ASSUME machine \in Machines, CoreStep
    PROVE  machine' \in Machines /\ Tells(out', machine, machine')
  <1> DEFINE pc == machine.PC + 1
             ck == machine.CK + 1
  <1>1. PICK e \in Effects : /\ machine' = [e[1] EXCEPT !.PC = pc, !.CK = ck]
                             /\ out' = e[2] \o Counter(pc) \o Clock(ck)
    BY DEF CoreStep
  <1>2. /\ e[1] \in Machines /\ Tells(e[2], machine, e[1])
        /\ e[1].CK = machine.CK
    BY TellsEffect
  <1>3. pc \in Nat /\ ck \in Nat /\ e[1].CK <= ck
    BY <1>2 DEF Machines
  <1> HIDE DEF pc, ck
  <1> DEFINE a == e[1]
             b == [a EXCEPT !.PC = pc]
             c == [b EXCEPT !.CK = ck]
  <1>4. b \in Machines /\ Tells(Counter(pc), a, b)
    BY <1>2, <1>3, TellsCounter
  <1>5. b.CK = a.CK
    BY <1>2 DEF Machines
  <1>6. machine' = c
    BY <1>1, <1>2 DEF Machines
  <1> HIDE DEF b
  <1>7. c \in Machines /\ Tells(Clock(ck), b, c)
    BY <1>3, <1>4, <1>5, TellsClock
  <1> HIDE DEF c, a
  <1>8. Tells(e[2] \o Counter(pc), machine, b)
    BY <1>2, <1>4, TellsBoth DEF a
  <1>9. Tells((e[2] \o Counter(pc)) \o Clock(ck), machine, c)
    BY <1>4, <1>7, <1>8, TellsBoth
  <1> QED BY <1>1, <1>6, <1>7, <1>9

(* So does a reset. *)
LEMMA TellsCoreReset ==
    ASSUME machine \in Machines, CoreReset
    PROVE  machine' \in Machines /\ Tells(out', machine, machine')
  <1> DEFINE c == [machine EXCEPT !.PC = 0]
             d == [c EXCEPT !.CK = machine.CK]
             e == [d EXCEPT !.reg = 0]
             f == [e EXCEPT !.SPL = 0, !.SPH = 0]
             g == [f EXCEPT !.SPL = 0, !.SPH = 0]
             h == [Machine0 EXCEPT !.sram = machine.sram, !.CK = machine.CK]
             s == Counter(0) \o Clock(machine.CK)
  <1>1. 0 \in Values /\ 0 \in Nat /\ machine.CK \in Nat /\ machine.CK <= machine.CK
    BY DisplayAssumed DEF DisplayAssumption, Machines
  <1>2. c \in Machines /\ Tells(Counter(0), machine, c)
    BY <1>1, TellsCounter
  <1>3. c.CK = machine.CK
    BY DEF Machines
  <1>4. d \in Machines /\ Tells(Clock(machine.CK), c, d)
    <2> HIDE DEF c
    <2> QED BY <1>1, <1>2, <1>3, TellsClock
  <1>5. e \in Machines /\ Tells(Registers(0), d, e)
    <2> HIDE DEF d
    <2> QED BY <1>1, <1>4, TellsRegister
  <1>6. f \in Machines /\ Tells(StackPointer(0, 0), e, f)
    <2> HIDE DEF e
    <2> QED BY <1>1, <1>5, TellsPointer
  <1>7. g \in Machines /\ Tells(StackPointer(0, 0), f, g)
    <2> HIDE DEF f
    <2> QED BY <1>1, <1>6, TellsPointer
  <1>8. machine' = h
    BY DEF CoreReset
  <1>9. h \in Machines /\ h.CK = g.CK /\ \A x \in Fields : h[x] = g[x]
    <2>1. c.PC = 0 /\ c.sram = machine.sram
      BY DEF Machines
    <2>2. d.PC = 0 /\ d.sram = machine.sram /\ d.CK = machine.CK
      <3> HIDE DEF c
      <3> QED BY <2>1, <1>2 DEF Machines
    <2>3. e.PC = 0 /\ e.sram = machine.sram /\ e.CK = machine.CK /\ e.reg = 0
      <3> HIDE DEF d
      <3> QED BY <2>2, <1>4 DEF Machines
    <2>4. /\ f.PC = 0 /\ f.sram = machine.sram /\ f.CK = machine.CK /\ f.reg = 0
          /\ f.SPL = 0 /\ f.SPH = 0
      <3> HIDE DEF e
      <3> QED BY <2>3, <1>5 DEF Machines
    <2>5. /\ g.PC = 0 /\ g.sram = machine.sram /\ g.CK = machine.CK /\ g.reg = 0
          /\ g.SPL = 0 /\ g.SPH = 0
      <3> HIDE DEF f
      <3> QED BY <2>4, <1>6 DEF Machines
    <2>6. machine.sram \in Values /\ machine.CK \in Nat
      BY DEF Machines
    <2>7. /\ h \in Machines
          /\ h.PC = 0 /\ h.sram = machine.sram /\ h.CK = machine.CK /\ h.reg = 0
          /\ h.SPL = 0 /\ h.SPH = 0
      BY <1>1, <2>6 DEF Machines, Machine0
    <2> HIDE DEF g, h
    <2> QED BY <2>5, <2>7 DEF Fields
  <1> HIDE DEF c, d, e, f, g, h
  <1>10. Tells(s, machine, d)
    BY <1>2, <1>4, TellsBoth
  <1>11. Tells(s \o Registers(0), machine, e)
    BY <1>10, <1>4, <1>5, TellsBoth
  <1>12. Tells((s \o Registers(0)) \o StackPointer(0, 0), machine, f)
    BY <1>11, <1>5, <1>6, TellsBoth
  <1>13. Tells(((s \o Registers(0)) \o StackPointer(0, 0)) \o StackPointer(0, 0), machine, g)
    BY <1>12, <1>6, <1>7, TellsBoth
  <1>14. out' = ((s \o Registers(0)) \o StackPointer(0, 0)) \o StackPointer(0, 0)
    BY DEF CoreReset
  <1>15. Tells(out', machine, g)
    BY <1>13, <1>14
  <1>16. Tells(out', machine, h)
    BY <1>9, <1>15 DEF Tells
  <1> QED BY <1>8, <1>9, <1>16

(* So does a write of the debugger. *)
LEMMA TellsDebugger ==
    ASSUME machine \in Machines, DebuggerWrites
    PROVE  machine' \in Machines /\ Tells(out', machine, machine')
  <1>1. PICK e \in Effects : machine' = e[1] /\ out' = e[2]
    BY DEF DebuggerWrites
  <1> QED BY <1>1, TellsEffect

(* The quit message says nothing of the machine. *)
LEMMA TellsRunEnds ==
    ASSUME machine \in Machines, RunEnds
    PROVE  machine' \in Machines /\ Tells(out', machine, machine')
  <1> DEFINE m == Msg("q", "", 0)
  <1>1. m \in Messages /\ m.kind = "q" /\ \A f \in Fields : m.addr # f
    BY DEF Msg, Messages, Fields
  <1>2. out' = <<m>> /\ machine' = machine
    BY DEF RunEnds
  <1> HIDE DEF m
  <1>3. Tells(<<m>>, machine, machine)
    BY <1>1, TellsOne
  <1> QED BY <1>2, <1>3

----------------------------------------------------------------------------
(* Between the pipe and what is still to be written *)

(* A sequence is its first message and the rest. *)
LEMMA FirstAndRest ==
    ASSUME NEW s \in Seq(Messages), s # <<>>
    PROVE  s = <<Head(s)>> \o Tail(s)
  <1> DEFINE u == <<Head(s)>>
             w == u \o Tail(s)
  <1>1. /\ Head(s) \in Messages /\ Tail(s) \in Seq(Messages)
        /\ Len(s) \in Nat \ {0} /\ Len(Tail(s)) = Len(s) - 1
        /\ s[1] = Head(s) /\ \A k \in 1..(Len(s) - 1) : Tail(s)[k] = s[k + 1]
    BY FirstRead
  <1>2. u \in Seq(Messages) /\ Len(u) = 1 /\ u[1] = Head(s)
    BY <1>1
  <1> HIDE DEF u
  <1>3. /\ w \in Seq(Messages) /\ Len(w) = 1 + (Len(s) - 1)
        /\ \A i \in 1..(1 + (Len(s) - 1)) :
              w[i] = IF i <= 1 THEN u[i] ELSE Tail(s)[i - 1]
    <2>1. /\ w \in Seq(Messages) /\ Len(w) = Len(u) + Len(Tail(s))
          /\ \A i \in 1..(Len(u) + Len(Tail(s))) :
                w[i] = IF i <= Len(u) THEN u[i] ELSE Tail(s)[i - Len(u)]
      BY <1>1, <1>2, ConcatProperties
    <2> HIDE DEF w
    <2> QED BY <2>1, <1>1, <1>2
  <1> HIDE DEF w
  <1>4. Len(w) = Len(s) /\ \A i \in 1..Len(s) : s[i] = w[i]
    <2>1. Len(w) = Len(s)
      BY <1>1, <1>3
    <2>2. ASSUME NEW i \in 1..Len(s) PROVE s[i] = w[i]
      <3>1. CASE i = 1
        BY <3>1, <1>1, <1>2, <1>3
      <3>2. CASE i # 1
        <4>1. i - 1 \in 1..(Len(s) - 1) /\ i \in 1..(1 + (Len(s) - 1)) /\ ~(i <= 1)
          BY <3>2, <1>1
        <4>2. Tail(s)[i - 1] = s[(i - 1) + 1] /\ (i - 1) + 1 = i
          BY <4>1, <1>1
        <4> QED BY <4>1, <4>2, <1>3
      <3> QED BY <3>1, <3>2
    <2> QED BY <2>1, <2>2
  <1>5. s = w
    BY <1>3, <1>4, SeqEqual
  <1> QED BY <1>5 DEF w, u

(* Writing a message moves it from the operation into the pipe. *)
LEMMA WrittenOn ==
    ASSUME NEW s \in Seq(Messages), NEW u \in Seq(Messages), u # <<>>
    PROVE  /\ Append(s, Head(u)) \in Seq(Messages) /\ Tail(u) \in Seq(Messages)
           /\ Append(s, Head(u)) \o Tail(u) = s \o u
  <1>1. Head(u) \in Messages /\ Tail(u) \in Seq(Messages)
    BY FirstRead
  <1>2. Append(s, Head(u)) = s \o <<Head(u)>> /\ Append(s, Head(u)) \in Seq(Messages)
    BY <1>1, AppendIsConcat, AppendProperties
  <1>3. <<Head(u)>> \in Seq(Messages)
    BY <1>1
  <1>4. (s \o <<Head(u)>>) \o Tail(u) = s \o (<<Head(u)>> \o Tail(u))
    BY <1>1, <1>3, ConcatAssociative
  <1>5. u = <<Head(u)>> \o Tail(u)
    BY FirstAndRest
  <1> QED BY <1>1, <1>2, <1>4, <1>5

(* Reading a message takes the first of all on their way. *)
LEMMA ReadFrom ==
    ASSUME NEW s \in Seq(Messages), NEW u \in Seq(Messages), s # <<>>
    PROVE  /\ Head(s) \in Messages /\ Tail(s) \in Seq(Messages)
           /\ s \o u \in Seq(Messages) /\ s \o u # <<>>
           /\ Head(s \o u) = Head(s) /\ Tail(s \o u) = Tail(s) \o u
  <1> DEFINE w == s \o u
             t == Tail(s) \o u
             L == Len(s)
             N == Len(u)
  <1>1. /\ Head(s) \in Messages /\ Tail(s) \in Seq(Messages)
        /\ L \in Nat \ {0} /\ Len(Tail(s)) = L - 1
        /\ s[1] = Head(s) /\ \A k \in 1..(L - 1) : Tail(s)[k] = s[k + 1]
    BY FirstRead
  <1>2. /\ w \in Seq(Messages) /\ Len(w) = L + N /\ N \in Nat
        /\ \A i \in 1..(L + N) : w[i] = IF i <= L THEN s[i] ELSE u[i - L]
    BY ConcatProperties, LenProperties
  <1>3. /\ t \in Seq(Messages) /\ Len(t) = Len(Tail(s)) + N
        /\ \A i \in 1..(Len(Tail(s)) + N) :
              t[i] = IF i <= Len(Tail(s)) THEN Tail(s)[i] ELSE u[i - Len(Tail(s))]
    BY <1>1, ConcatProperties
  <1> HIDE DEF w, t, L, N
  <1>4. w # <<>>
    BY <1>1, <1>2, EmptySeq
  <1>5. /\ Head(w) = w[1] /\ Tail(w) \in Seq(Messages) /\ Len(Tail(w)) = Len(w) - 1
        /\ \A k \in 1..(Len(w) - 1) : Tail(w)[k] = w[k + 1]
    BY <1>2, <1>4, FirstRead
  <1>6. Head(w) = Head(s)
    BY <1>1, <1>2, <1>5
  <1>7. Len(Tail(w)) = Len(t) /\ Len(t) = L - 1 + N
    BY <1>1, <1>2, <1>3, <1>5
  <1>8. ASSUME NEW i \in 1..(L - 1 + N) PROVE Tail(w)[i] = t[i]
    <2>1. /\ Tail(w)[i] = w[i + 1] /\ i + 1 \in 1..(L + N)
          /\ i \in 1..(Len(Tail(s)) + N)
      BY <1>1, <1>2, <1>5
    <2>2. CASE i <= L - 1
      <3>1. /\ w[i + 1] = s[i + 1] /\ i \in 1..(L - 1) /\ Tail(s)[i] = s[i + 1]
            /\ t[i] = Tail(s)[i]
        BY <2>1, <2>2, <1>1, <1>2, <1>3
      <3> QED BY <2>1, <3>1
    <2>3. CASE i > L - 1
      <3>1. w[i + 1] = u[(i + 1) - L] /\ t[i] = u[i - (L - 1)]
        BY <2>1, <2>3, <1>1, <1>2, <1>3
      <3>2. (i + 1) - L = i - (L - 1)
        BY <1>1
      <3> QED BY <2>1, <3>1, <3>2
    <2> QED BY <2>2, <2>3, <1>1, <1>2
  <1>9. \A i \in 1..Len(Tail(w)) : Tail(w)[i] = t[i]
    BY <1>7, <1>8
  <1>10. Tail(w) = t
    BY <1>3, <1>5, <1>7, <1>9, SeqEqual
  <1> QED BY <1>1, <1>2, <1>4, <1>6, <1>10 DEF w, t

----------------------------------------------------------------------------
(* The invariant *)

(* The invariant holds at the start. *)
LEMMA DisplayInit == Init => DisplayInv
  <1> SUFFICES ASSUME Init PROVE DisplayInv
    OBVIOUS
  <1> DEFINE s == StartMessages
             i1 == Msg("I", "SPL", 0)
             i2 == Msg("I", "SPH", 0)
             i3 == Msg("I", "PORT", 0)
             n == Msg("n", "CK", 0)
  <1>1. 0 \in Values
    BY DisplayAssumed DEF DisplayAssumption
  <1>2. s = <<i1, i2, i3>> \o <<n>>
    BY DEF StartMessages, Names, Clock
  <1>3. i1 \in Messages /\ i2 \in Messages /\ i3 \in Messages /\ n \in Messages
    BY DEF Msg, Messages, Addresses
  <1>4. /\ i1.kind = "I" /\ i2.kind = "I" /\ i3.kind = "I" /\ n.kind = "n"
        /\ n.val = 0 /\ n.addr = "CK"
    BY DEF Msg
  <1> HIDE DEF s, i1, i2, i3, n
  <1>5. /\ s \in Seq(Messages) /\ DOMAIN s = 1..4
        /\ s[1] = i1 /\ s[2] = i2 /\ s[3] = i3 /\ s[4] = n
    <2> DEFINE x == <<i1, i2, i3>>
               y == <<n>>
    <2>1. /\ x \in Seq(Messages) /\ Len(x) = 3 /\ x[1] = i1 /\ x[2] = i2 /\ x[3] = i3
          /\ y \in Seq(Messages) /\ Len(y) = 1 /\ y[1] = n
      BY <1>3
    <2>2. s = x \o y
      BY <1>2
    <2> HIDE DEF x, y
    <2>3. /\ s \in Seq(Messages) /\ Len(s) = Len(x) + Len(y)
          /\ \A i \in 1..(Len(x) + Len(y)) :
                s[i] = IF i <= Len(x) THEN x[i] ELSE y[i - Len(x)]
      BY <2>1, <2>2, ConcatProperties
    <2>4. DOMAIN s = 1..Len(s)
      BY <2>3, LenProperties
    <2> QED BY <2>1, <2>3, <2>4
  <1>6. Coming = s
    <2>1. pipe = <<>> /\ out = s
      BY DEF Init, s
    <2> QED BY <2>1, <1>5, ConcatEmptySeq DEF Coming
  <1>7. \A k \in DOMAIN s : s[k].kind = "I" <=> k < 4
    BY <1>4, <1>5
  <1>8. child \in Children /\ child.file = <<>> /\ child.clk = 0
    BY <1>1 DEF Init, Children
  <1>9. ~child.first_clock_occured
    BY DEF Init
  <1>10. DisplayTypes
    BY <1>1, <1>5, <1>8 DEF Init, DisplayTypes, Machines, Machine0, s
  <1>11. NamesFirst
    BY <1>4, <1>5, <1>6, <1>7, <1>9 DEF NamesFirst, Named
  <1>12. machine = Machine0 /\ machine.CK = 0
    BY DEF Init, Machine0
  <1>13. \A k \in DOMAIN s : s[k].kind = "n" => s[k].val = 0
    BY <1>4, <1>5
  <1>14. ClocksOrdered
    BY <1>6, <1>8, <1>12, <1>13 DEF ClocksOrdered, Clocked
  <1>15. \A id : Entries(child, id) = {}
    BY <1>8 DEF Entries
  <1>16. FileOK(child)
    BY <1>8, <1>9, <1>15 DEF FileOK
  <1>17. \A f \in Fields : Silent(s, f)
    BY <1>4, <1>5 DEF Silent, About, Fields
  <1>18. child.spreg = <<0, 0>>
    BY DEF Init
  <1>19. Says(child, "sp", child.spreg)
    BY <1>15, <1>18 DEF Says
  <1>20. \A f \in Fields : Holds(child, f, machine[f])
    BY <1>12, <1>15, <1>18 DEF Holds, Says, SignalOf, Fields, Machine0
  <1>21. FileFollows
    BY <1>6, <1>17, <1>19, <1>20 DEF FileFollows, Fields
  <1> QED BY <1>10, <1>11, <1>14, <1>16, <1>21 DEF DisplayInv

(* Steps that leave the messages on their way, the file and the machine as  *)
(* they are.                                                                *)
LEMMA Quiet ==
    ASSUME DisplayInv, config' = config, machine' = machine, Coming' = Coming,
           pipe' \in Seq(Messages), out' \in Seq(Messages), child' \in Children,
           child'.first_clock_occured = child.first_clock_occured,
           child'.clk = child.clk, child'.bound = child.bound,
           child'.spreg = child.spreg, child'.file = child.file,
           child.phase = "ended" => child'.phase = "ended",
           parent.phase \in Stopped => parent'.phase \in Stopped
    PROVE  DisplayInv'
  <1>1. DisplayTypes'
    BY DEF DisplayInv, DisplayTypes
  <1>2. NamesFirst'
    BY DEF DisplayInv, NamesFirst, Named
  <1>3. ClocksOrdered'
    BY DEF DisplayInv, ClocksOrdered
  <1>4. \A id : Entries(child', id) = Entries(child, id)
    BY DEF Entries
  <1>5. \A id, v : LastIs(child', id, v) <=> LastIs(child, id, v)
    BY <1>4 DEF LastIs
  <1>6. \A id : Marked(child, id)' <=> Marked(child, id)
    BY DEF Marked
  <1>7. FileOK(child)'
    BY <1>4, <1>6 DEF DisplayInv, FileOK
  <1>8. \A id, v : Says(child', id, v) <=> Says(child, id, v)
    BY <1>4, <1>5 DEF Says
  <1>9. \A f, v : Holds(child', f, v) <=> Holds(child, f, v)
    BY <1>8 DEF Holds
  <1>10. FileFollows'
    <2>1. SUFFICES ASSUME config.opened, child'.phase # "ended", parent'.phase \notin Stopped
                   PROVE  Told(child, Coming, machine)'
      BY DEF FileFollows, Told, Fields
    <2>2. Told(child, Coming, machine)
      BY <2>1 DEF DisplayInv, FileFollows, Told, Fields
    <2> QED BY <2>2, <1>8, <1>9 DEF Told
  <1> QED BY <1>1, <1>2, <1>3, <1>7, <1>10 DEF DisplayInv

(* Steps of the simulator that change the machine, and say so. *)
LEMMA Emits ==
    ASSUME DisplayInv, out = <<>>, machine' \in Machines, Tells(out', machine, machine'),
           UNCHANGED <<config, pipe, child>>, parent.phase \notin Stopped
    PROVE  DisplayInv'
  <1>1. /\ pipe \in Seq(Messages) /\ out' \in Seq(Messages)
        /\ Coming = pipe /\ Coming' = pipe \o out'
    BY ConcatEmptySeq DEF DisplayInv, DisplayTypes, Coming, Tells
  <1>2. /\ child \in Children /\ child' = child /\ machine \in Machines
        /\ config' = config /\ pipe' = pipe
    BY DEF DisplayInv, DisplayTypes
  <1>3. DisplayTypes'
    BY <1>1, <1>2 DEF DisplayInv, DisplayTypes
  <1>4. NamesFirst'
    <2>1. Named(child, pipe) /\ \A k \in DOMAIN out' : out'[k].kind # "I"
      BY <1>1 DEF DisplayInv, NamesFirst, Tells
    <2>2. Named(child, pipe \o out')
      BY <2>1, <1>1, JoinedNames
    <2> QED BY <2>2, <1>1, <1>2 DEF NamesFirst
  <1>5. ClocksOrdered'
    <2>1. Clocked(child.clk, pipe, machine.CK) /\ Clocked(machine.CK, out', machine'.CK)
      BY <1>1 DEF DisplayInv, ClocksOrdered, Tells
    <2>2. child.clk \in Nat /\ machine.CK \in Nat /\ machine'.CK \in Nat
      BY <1>2 DEF Children, Machines
    <2>3. Clocked(child.clk, pipe \o out', machine'.CK)
      BY <2>1, <2>2, <1>1, JoinedClocks
    <2> QED BY <2>3, <1>1, <1>2 DEF ClocksOrdered
  <1>6. FileOK(child)'
    <2>1. \A id : Marked(child, id)' <=> Marked(child, id)
      BY <1>2 DEF Marked
    <2> QED BY <2>1, <1>2 DEF DisplayInv, FileOK
  <1>7. FileFollows'
    <2>1. SUFFICES ASSUME config.opened, child.phase # "ended"
                   PROVE  Told(child, Coming, machine)'
      BY <1>2 DEF FileFollows, Told, Fields
    <2>2. Told(child, pipe, machine)
      BY <2>1, <1>1 DEF DisplayInv, FileFollows, Told, Fields
    <2>3. ASSUME NEW f \in Fields, SignalOf(f) \in config.traced
          PROVE  \/ Ends(pipe \o out', f, machine'[f])
                 \/ Silent(pipe \o out', f) /\ Holds(child, f, machine'[f])
      <3>1. Ends(out', f, machine'[f]) \/ (Silent(out', f) /\ machine'[f] = machine[f])
        BY DEF Tells
      <3>2. Ends(pipe, f, machine[f]) \/ (Silent(pipe, f) /\ Holds(child, f, machine[f]))
        BY <2>2, <2>3 DEF Told
      <3>3. /\ Silent(pipe, f) /\ Silent(out', f) => Silent(pipe \o out', f)
            /\ \A v : Ends(pipe, f, v) /\ Silent(out', f) => Ends(pipe \o out', f, v)
            /\ \A v : Ends(out', f, v) => Ends(pipe \o out', f, v)
        BY <1>1, JoinedFields
      <3> QED BY <3>1, <3>2, <3>3
    <2> QED BY <2>2, <2>3, <1>1, <1>2 DEF Told
  <1> QED BY <1>3, <1>4, <1>5, <1>6, <1>7 DEF DisplayInv

(* The coprocess reads the first message: it handles it, or it dies.  What  *)
(* the message told is then in the file, what the others tell still comes.  *)
LEMMA Reads ==
    ASSUME DisplayInv, ChildReads
    PROVE  DisplayInv'
  <1> DEFINE m == Head(pipe)
             c == [child EXCEPT !.phase = "top"]
             s == Coming
  <1>1. /\ config \in Configs /\ machine \in Machines /\ child \in Children
        /\ pipe \in Seq(Messages) /\ out \in Seq(Messages) /\ pipe # <<>>
        /\ pipe' = Tail(pipe) /\ config' = config /\ machine' = machine
        /\ out' = out /\ parent' = parent
    BY DEF DisplayInv, DisplayTypes, ChildReads
  <1>2. /\ m \in Messages /\ pipe' \in Seq(Messages)
        /\ s \in Seq(Messages) /\ s # <<>> /\ Head(s) = m /\ Tail(s) = Coming'
    BY <1>1, ReadFrom DEF Coming
  <1>3. child.phase = "select"
    BY DEF ChildReads
  <1>4. \/ child' = Handle(c, m)
        \/ Crashes(m) /\ child' = [child EXCEPT !.phase = "ended"]
    BY DEF ChildReads
  <1>5. /\ c \in Children /\ c.clk = child.clk /\ c.bound = child.bound
        /\ c.spreg = child.spreg /\ c.file = child.file
    BY <1>1 DEF Children
  <1>6. c.first_clock_occured = child.first_clock_occured
    BY <1>1 DEF Children
  <1> HIDE DEF m, c, s
  <1>7. /\ child.first_clock_occured => m.kind # "I"
        /\ ~child.first_clock_occured => m.kind \in {"I", "n"}
        /\ \A d : (d.first_clock_occured <=> (child.first_clock_occured \/ m.kind = "n"))
                 => Named(d, Coming')
    BY <1>2, ReadNames DEF DisplayInv, NamesFirst, s
  <1>8. /\ m.kind = "n" => child.clk <= m.val
        /\ Clocked(IF m.kind = "n" THEN m.val ELSE child.clk, Coming', machine.CK)
    BY <1>2, ReadClocks DEF DisplayInv, ClocksOrdered, s
  <1>9. CASE child' = Handle(c, m)
    <2>1. \A id : Entries(c, id) = Entries(child, id)
      BY <1>5 DEF Entries
    <2>2. \A id, v : LastIs(c, id, v) <=> LastIs(child, id, v)
      BY <1>5, <2>1 DEF LastIs
    <2>3. \A id : Marked(c, id) <=> Marked(child, id)
      BY <1>5 DEF Marked
    <2>4. FileOK(c)
      BY <1>5, <1>6, <2>1, <2>3 DEF DisplayInv, FileOK
    <2>5. InTurn(c, m)
      BY <1>5, <1>6, <1>7, <1>8 DEF InTurn
    <2>6. Handled(c, m, child')
      BY <1>1, <1>2, <1>5, <1>9, <2>4, <2>5, HandleStep
    <2>7. child' \in Children /\ FileOK(child')
      BY <2>6 DEF Handled
    <2>8. child'.clk = IF m.kind = "n" THEN m.val ELSE child.clk
      BY <2>6, <1>5 DEF Handled
    <2>9. child'.first_clock_occured <=> (child.first_clock_occured \/ m.kind = "n")
      BY <2>6, <1>6 DEF Handled
    <2>10. DisplayTypes'
      BY <1>1, <1>2, <2>7 DEF DisplayTypes
    <2>11. NamesFirst'
      BY <1>7, <2>9 DEF NamesFirst
    <2>12. ClocksOrdered'
      BY <1>1, <1>8, <2>8 DEF ClocksOrdered
    <2>13. FileOK(child)'
      <3>1. \A id : Marked(child', id) <=> Marked(child, id)'
        BY <1>1 DEF Marked
      <3> QED BY <2>7, <3>1, <1>1 DEF FileOK
    <2>14. FileFollows'
      <3>1. SUFFICES ASSUME config.opened, parent.phase \notin Stopped
                     PROVE  Told(child, Coming, machine)'
        BY <1>1 DEF FileFollows, Told, Fields
      <3>2. Told(child, s, machine)
        BY <3>1, <1>3 DEF DisplayInv, FileFollows, Told, Fields, s
      <3>3. \A id, v : Says(c, id, v) <=> Says(child, id, v)
        BY <2>1, <2>2 DEF Says
      <3>4. \A f, v : Holds(c, f, v) <=> Holds(child, f, v)
        BY <3>3, <1>5 DEF Holds
      <3>5. "sp" \in config.traced => Says(child', "sp", child'.spreg)
        BY <3>1, <3>2, <3>3, <2>6, <1>5 DEF Handled, Follows, Told
      <3>6. ASSUME NEW f \in Fields, SignalOf(f) \in config.traced
            PROVE  Ends(Coming', f, machine[f])
                     \/ (Silent(Coming', f) /\ Holds(child', f, machine[f]))
        <4>1. /\ About(m, f) => Holds(child', f, m.val)
              /\ \A v : ~About(m, f) /\ Holds(c, f, v) => Holds(child', f, v)
          BY <3>1, <3>6, <2>6 DEF Handled, Follows
        <4>2. Ends(s, f, machine[f]) \/ (Silent(s, f) /\ Holds(child, f, machine[f]))
          BY <3>2, <3>6 DEF Told
        <4>3. /\ Silent(s, f) => Silent(Coming', f) /\ ~About(m, f)
              /\ Ends(s, f, machine[f]) =>
                    Ends(Coming', f, machine[f])
                      \/ (Silent(Coming', f) /\ About(m, f) /\ m.val = machine[f])
          BY <1>2, ReadFields
        <4> QED BY <4>1, <4>2, <4>3, <3>4
      <3> QED BY <3>5, <3>6, <1>1 DEF Told
    <2> QED BY <2>10, <2>11, <2>12, <2>13, <2>14 DEF DisplayInv
  <1>10. CASE Crashes(m) /\ child' = [child EXCEPT !.phase = "ended"]
    <2>1. m.kind # "n"
      BY <1>10 DEF Crashes
    <2>2. /\ child' \in Children /\ child'.phase = "ended" /\ child'.clk = child.clk
          /\ child'.bound = child.bound /\ child'.file = child.file
      BY <1>1, <1>10 DEF Children
    <2>3. child'.first_clock_occured = child.first_clock_occured
      BY <1>1, <1>10 DEF Children
    <2>4. DisplayTypes'
      BY <1>1, <1>2, <2>2 DEF DisplayTypes
    <2>5. NamesFirst'
      BY <1>7, <2>1, <2>3 DEF NamesFirst
    <2>6. ClocksOrdered'
      BY <1>1, <1>8, <2>1, <2>2 DEF ClocksOrdered
    <2>7. \A id : Entries(child', id) = Entries(child, id)
      BY <2>2 DEF Entries
    <2>8. \A id : Marked(child, id)' <=> Marked(child, id)
      BY <1>1, <2>2 DEF Marked
    <2>9. FileOK(child)'
      BY <1>1, <2>2, <2>3, <2>7, <2>8 DEF DisplayInv, FileOK
    <2>10. FileFollows'
      BY <2>2 DEF FileFollows
    <2> QED BY <2>4, <2>5, <2>6, <2>9, <2>10 DEF DisplayInv
  <1> QED BY <1>4, <1>9, <1>10

(* A signal, and the steps of the coprocess other than reading, change only *)
(* where it is and whether it is told to end.                               *)
LEMMA PhaseOnly ==
    ASSUME DisplayInv, UNCHANGED <<config, machine, pipe, out>>,
           child' \in Children,
           child'.first_clock_occured = child.first_clock_occured,
           child'.clk = child.clk, child'.bound = child.bound,
           child'.spreg = child.spreg, child'.file = child.file,
           child.phase = "ended" => child'.phase = "ended",
           parent.phase \in Stopped => parent'.phase \in Stopped
    PROVE  DisplayInv'
  <1>1. Coming' = Coming /\ pipe' \in Seq(Messages) /\ out' \in Seq(Messages)
    BY DEF Coming, DisplayInv, DisplayTypes
  <1> QED BY <1>1, Quiet

(* A signal to the coprocess touches neither its file nor what it has read. *)
LEMMA SignalledChild ==
    ASSUME child \in Children
    PROVE  /\ Signalled \in Children
           /\ Signalled.clk = child.clk /\ Signalled.bound = child.bound
           /\ Signalled.spreg = child.spreg /\ Signalled.file = child.file
           /\ child.phase = "ended" => Signalled.phase = "ended"
           /\ Signalled.first_clock_occured = child.first_clock_occured
  <1>1. CASE child.phase = "ended"
    BY <1>1 DEF Signalled
  <1>2. CASE child.phase = "exec"
    <2>1. Signalled = [child EXCEPT !.phase = "ended"]
      BY <1>2 DEF Signalled
    <2> QED BY <2>1, <1>2 DEF Children
  <1>3. CASE child.phase \notin {"ended", "exec"}
    <2>1. Signalled = [child EXCEPT !.sig_int = TRUE]
      BY <1>3 DEF Signalled
    <2> QED BY <2>1, <1>3 DEF Children
  <1> QED BY <1>1, <1>2, <1>3

(* Every step of the two processes, of the user, or none. *)
LEMMA DisplayStep ==
    ASSUME DisplayInv, [Next]_vars
    PROVE  DisplayInv'
  <1>1. machine \in Machines /\ child \in Children
    BY DEF DisplayInv, DisplayTypes
  <1>2. CASE CoreStep
    <2>1. /\ out = <<>> /\ parent.phase \notin Stopped
          /\ UNCHANGED <<config, pipe, child>>
      BY <1>2 DEF CoreStep, Operates, Idle, Stopped
    <2> QED BY <2>1, <1>1, <1>2, TellsCoreStep, Emits
  <1>3. CASE DebuggerWrites
    <2>1. /\ out = <<>> /\ parent.phase \notin Stopped
          /\ UNCHANGED <<config, pipe, child>>
      BY <1>3 DEF DebuggerWrites, Operates, Idle, Stopped
    <2> QED BY <2>1, <1>1, <1>3, TellsDebugger, Emits
  <1>4. CASE CoreReset
    <2>1. /\ out = <<>> /\ parent.phase \notin Stopped
          /\ UNCHANGED <<config, pipe, child>>
      BY <1>4 DEF CoreReset, Operates, Idle, Stopped
    <2> QED BY <2>1, <1>1, <1>4, TellsCoreReset, Emits
  <1>5. CASE RunEnds
    <2>1. /\ out = <<>> /\ parent.phase \notin Stopped
          /\ UNCHANGED <<config, pipe, child>>
      BY <1>5 DEF RunEnds, Stopped
    <2> QED BY <2>1, <1>1, <1>5, TellsRunEnds, Emits
  <1>6. CASE Write
    <2>1. /\ parent.phase \notin Stopped /\ child' = child /\ out # <<>>
          /\ UNCHANGED <<config, machine>>
      BY <1>6 DEF Write, Stopped
    <2>2. CASE child.phase = "ended"
      <3>1. UNCHANGED <<pipe, out>>
        BY <1>6, <2>2 DEF Write
      <3> QED BY <3>1, <2>1, <1>1, PhaseOnly
    <2>3. CASE child.phase # "ended"
      <3>1. pipe' = Append(pipe, Head(out)) /\ out' = Tail(out)
        BY <1>6, <2>3 DEF Write
      <3>2. pipe \in Seq(Messages) /\ out \in Seq(Messages)
        BY DEF DisplayInv, DisplayTypes
      <3>3. pipe' \in Seq(Messages) /\ out' \in Seq(Messages) /\ Coming' = Coming
        BY <3>1, <3>2, <2>1, WrittenOn DEF Coming
      <3> QED BY <3>3, <2>1, <1>1, Quiet
    <2> QED BY <2>2, <2>3
  <1>7. CASE SigintReported \/ AvrError \/ Reap
    <2>1. /\ UNCHANGED <<config, machine, pipe, out, child>>
          /\ parent.phase \notin Stopped
      BY <1>7 DEF SigintReported, AvrError, Reap, Stopped
    <2> QED BY <2>1, <1>1, PhaseOnly
  <1>8. CASE CloseSignals
    <2>1. /\ UNCHANGED <<config, machine, pipe, out>> /\ child' = Signalled
          /\ parent.phase \notin Stopped
      BY <1>8 DEF CloseSignals, Stopped
    <2> QED BY <2>1, <1>1, SignalledChild, PhaseOnly
  <1>9. CASE UserInterrupts
    <2>1. /\ UNCHANGED <<config, machine, pipe, out>>
          /\ child' = child \/ child' = Signalled
          /\ parent.phase \notin Stopped
      BY <1>9 DEF UserInterrupts
    <2>2. CASE child' = child
      BY <2>1, <2>2, <1>1, PhaseOnly
    <2>3. CASE child' = Signalled
      BY <2>1, <2>3, <1>1, SignalledChild, PhaseOnly
    <2> QED BY <2>1, <2>2, <2>3
  <1>10. CASE ChildStarts \/ ChildLoops \/ ChildReadsNothing
    <2>1. PICK p \in {"exec", "top", "select", "ended"} : child' = [child EXCEPT !.phase = p]
      BY <1>10 DEF ChildStarts, ChildLoops, ChildReadsNothing
    <2>2. /\ UNCHANGED <<config, machine, parent, pipe, out>>
          /\ child.phase # "ended"
      BY <1>10 DEF ChildStarts, ChildLoops, ChildReadsNothing
    <2>3. /\ child' \in Children /\ child'.clk = child.clk /\ child'.bound = child.bound
          /\ child'.spreg = child.spreg /\ child'.file = child.file
      BY <2>1, <1>1 DEF Children
    <2>4. child'.first_clock_occured = child.first_clock_occured
      BY <2>1, <1>1 DEF Children
    <2> QED BY <2>2, <2>3, <2>4, PhaseOnly
  <1>11. CASE ChildReads
    BY <1>11, Reads
  <1>12. CASE Over \/ UNCHANGED vars
    <2>1. UNCHANGED <<config, machine, parent, pipe, out, child>>
      BY <1>12 DEF Over, vars
    <2> QED BY <2>1, <1>1, PhaseOnly
  <1> QED BY <1>2, <1>3, <1>4, <1>5, <1>6, <1>7, <1>8, <1>9, <1>10, <1>11, <1>12
          DEF Next, ParentStep, ChildStep

(* The invariant holds throughout. *)
LEMMA DisplayAlways == Spec => []DisplayInv
  <1>1. Init => DisplayInv
    BY DisplayInit
  <1>2. DisplayInv /\ [Next]_vars => DisplayInv'
    BY DisplayStep
  <1> QED BY <1>1, <1>2, PTL DEF Spec

(* The file begins with its one header, which declares every signal that    *)
(* has a value in it: the names are sent before the first clock, and the    *)
(* pipe keeps their order.                                                  *)
THEOREM FileDeclares == Spec => []HeaderDeclares
  <1>1. DisplayInv => HeaderDeclares
    <2> SUFFICES ASSUME DisplayInv PROVE HeaderDeclares
      OBVIOUS
    <2>1. FileOK(child) /\ child \in Children /\ config \in Configs
      BY DEF DisplayInv, DisplayTypes
    <2> SUFFICES ASSUME NEW i \in DOMAIN child.file
                 PROVE  /\ child.file[i].id = "header" <=> i = 1
                        /\ child.file[i].id \in Signals =>
                              child.file[i].id \in child.file[1].val
      BY DEF HeaderDeclares
    <2>2. /\ child.file[i].id = "header" <=> i = 1
          /\ child.file[i].id \in Signals => Marked(child, child.file[i].id)
      BY <2>1 DEF FileOK
    <2>3. child.file # <<>>
      OBVIOUS
    <2>4. child.file[1].val = {id \in config.traced : Marked(child, id)}
      BY <2>1, <2>3 DEF FileOK
    <2> QED BY <2>2, <2>4 DEF Marked
  <1> QED BY <1>1, DisplayAlways, PTL

(* The times in the file increase: a reset keeps the clock, and a time that *)
(* is written already is not written again (vcd_write_clock).               *)
THEOREM FileTimesIncrease == Spec => []TimesIncrease
  <1>1. DisplayInv => TimesIncrease
    BY DEF DisplayInv, FileOK, TimesIncrease
  <1> QED BY <1>1, DisplayAlways, PTL

(* The file says of every traced signal what the machine holds, but for the *)
(* messages still on their way, in the pipe or not yet written.             *)
THEOREM FileIsFaithful == Spec => []FileFollows
  <1>1. DisplayInv => FileFollows
    BY DEF DisplayInv
  <1> QED BY <1>1, DisplayAlways, PTL
=============================================================================
