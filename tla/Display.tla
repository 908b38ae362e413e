------------------------------ MODULE Display -------------------------------
(***************************************************************************)
(* The display coprocess: display.c in the simulator writes a message for  *)
(* every change of a register, of the stack pointer, of memory, of PC and  *)
(* of the clock into a pipe, and disp-vcd reads them and writes a file of  *)
(* value changes.  Messages are shorter than PIPE_BUF, so that one is in   *)
(* the pipe as a whole or not at all; their text and checksum are left     *)
(* out.                                                                    *)
(*                                                                         *)
(* The I/O registers are those of the first 64 addresses.  The clock is    *)
(* short enough for its time in nanoseconds to fit 32 bits.                *)
(***************************************************************************)
EXTENDS Naturals, Sequences, SequencesExt

CONSTANTS
    Values,            \* of a register, a memory cell, a byte of SP; 0 is one
    Configs,           \* what vcd.cfg may ask for: the signals to trace
    PipeCap,           \* the messages the pipe holds
    MaxSteps,          \* bound on what the simulator does
    MaxInterrupts      \* bound on the ^Cs of the user

VARIABLES
    config,            \* [traced, opened]: is the file's name given and valid
    no_xterm,          \* does a ^C reach the coprocess, too
    machine,           \* what the simulator would have displayed
    parent,            \* [phase, sigint, retried, steps, interrupts]
    out,               \* the messages the present operation still has to write
    pipe,
    child              \* the coprocess and its file

vars == <<config, no_xterm, machine, parent, out, pipe, child>>

Signals == {"reg", "pc", "sp", "sram", "ioreg"}
Stopped == {"ended", "killed", "exited"}     \* the simulator has
Msg(kind, addr, val) == [kind |-> kind, addr |-> addr, val |-> val]

DisplayAssumption ==
    /\ 0 \in Values /\ PipeCap \in Nat \ {0}
    /\ \A c \in Configs : c.traced \subseteq Signals /\ c.opened \in BOOLEAN

ASSUME DisplayAssumed == DisplayAssumption

----------------------------------------------------------------------------
(* What the simulator sends *)

Registers(val) == <<Msg("r", "reg", val)>>
Clock(ck)      == <<Msg("n", "CK", ck)>>
Counter(pc)    == <<Msg("p", "PC", pc)>>
StackPointer(l, h) == <<Msg("i", "SPL", l), Msg("i", "SPH", h)>>

(* main: the names of the I/O registers come before the first clock, at     *)
(* which the coprocess writes the header.                                   *)
Names == <<Msg("I", "SPL", 0), Msg("I", "SPH", 0), Msg("I", "PORT", 0)>>
StartMessages_ClockFirst == Clock(0) \o Names
StartMessages == Names \o Clock(0)

Machine0 == [reg |-> 0, PC |-> 0, SPL |-> 0, SPH |-> 0, sram |-> 0, PORT |-> 0, CK |-> 0]

Init ==
    /\ config \in Configs /\ no_xterm \in BOOLEAN
    /\ machine = Machine0
    /\ parent = [phase |-> "start", sigint |-> FALSE, retried |-> FALSE,
                 steps |-> 0, interrupts |-> 0]
    /\ out = StartMessages
    /\ pipe = <<>>
    /\ child = [phase |-> "exec", sig_int |-> FALSE, first_clock_occured |-> FALSE,
                clk |-> 0, bound |-> {}, spreg |-> <<0, 0>>, file |-> <<>>]

(* Between two operations of the simulator. *)
Idle == /\ parent.phase = "run" /\ out = <<>> /\ ~parent.sigint
        /\ parent.steps < MaxSteps
Operates == /\ Idle
            /\ parent' = [parent EXCEPT !.steps = @ + 1]
            /\ UNCHANGED <<config, no_xterm, pipe, child>>

(* What an instruction or a packet of the debugger writes. *)
Effects ==
    {<<machine, <<>>>>}
      \cup {<<[machine EXCEPT !.reg = v], Registers(v)>> : v \in Values}
      \cup {<<[machine EXCEPT !.sram = v], <<Msg("s", "sram", v)>>>> : v \in Values}
      \cup {<<[machine EXCEPT !.PORT = v], <<Msg("i", "PORT", v)>>>> : v \in Values}
      \cup {<<[machine EXCEPT !.SPL = sp[1], !.SPH = sp[2]], StackPointer(sp[1], sp[2])>> :
               sp \in Values \X Values}

(* avr_core_step: the instruction, the next PC, a clock. *)
CoreStep ==
    /\ Operates
    /\ \E e \in Effects :
          LET pc == machine.PC + 1 ck == machine.CK + 1 IN
          /\ machine' = [e[1] EXCEPT !.PC = pc, !.CK = ck]
          /\ out' = e[2] \o Counter(pc) \o Clock(ck)

DebuggerWrites ==
    /\ Operates
    /\ \E e \in Effects : machine' = e[1] /\ out' = e[2]

(* avr_core_reset.  The clock goes on: to clear it, as the first form does, *)
(* would take the file back in time.  Only registers and SP are displayed.  *)
CoreReset_ClockToo ==
    /\ Operates
    /\ machine' = [Machine0 EXCEPT !.sram = machine.sram]
    /\ out' = Counter(0) \o Clock(0) \o Registers(0) \o StackPointer(0, 0)

CoreReset ==
    /\ Operates
    /\ machine' = [Machine0 EXCEPT !.sram = machine.sram, !.CK = machine.CK]
    /\ out' = Counter(0) \o Clock(machine.CK) \o Registers(0) \o StackPointer(0, 0)
                \o StackPointer(0, 0)

----------------------------------------------------------------------------
(* display_send_msg *)

Blocked == out # <<>> /\ Len(pipe) = PipeCap /\ child.phase # "ended"

(* A write to a pipe without a reader raises SIGPIPE. *)
Write ==
    /\ parent.phase \in {"start", "run", "close"}
    /\ out # <<>> /\ ~Blocked
    /\ IF child.phase = "ended"
       THEN parent' = [parent EXCEPT !.phase = "killed"] /\ UNCHANGED <<out, pipe>>
       ELSE /\ parent' = [parent EXCEPT !.retried = FALSE,
                   !.phase = IF @ = "start" /\ Len(out) = 1 THEN "run" ELSE @]
            /\ pipe' = Append(pipe, Head(out))
            /\ out' = Tail(out)
    /\ UNCHANGED <<config, no_xterm, machine, child>>

(* A ^C: the handler lets a write that blocks return, which is tried again  *)
(* once.  There is no handler before the run and from display_close on.     *)
Interrupted ==
    IF parent.phase # "run" THEN [parent EXCEPT !.phase = "killed"]
    ELSE IF Blocked /\ parent.retried THEN [parent EXCEPT !.phase = "exited"]
    ELSE [parent EXCEPT !.sigint = TRUE, !.retried = Blocked]

(* The coprocess has no handler before it is well under way. *)
Signalled == CASE child.phase = "ended" -> child
               [] child.phase = "exec"  -> [child EXCEPT !.phase = "ended"]
               [] OTHER                 -> [child EXCEPT !.sig_int = TRUE]

UserInterrupts ==
    /\ parent.phase \notin Stopped
    /\ parent.interrupts < MaxInterrupts
    /\ parent' = [Interrupted EXCEPT !.interrupts = @ + 1]
    /\ child' = IF no_xterm THEN Signalled ELSE child
    /\ UNCHANGED <<config, no_xterm, machine, out, pipe>>

(* The server reports the signal to the debugger and goes on. *)
SigintReported ==
    /\ parent.phase = "run" /\ out = <<>> /\ parent.sigint
    /\ parent' = [parent EXCEPT !.sigint = FALSE]
    /\ UNCHANGED <<config, no_xterm, machine, out, pipe, child>>

(* avr_error leaves through exit, without display_close. *)
AvrError ==
    /\ parent.phase = "run" /\ out = <<>>
    /\ parent' = [parent EXCEPT !.phase = "exited"]
    /\ UNCHANGED <<config, no_xterm, machine, out, pipe, child>>

(* display_close: a quit message, SIGINT, waitpid.  The first form relies   *)
(* on the end of the pipe.                                                  *)
RunEnds_NoGoodbye ==
    /\ parent.phase = "run" /\ out = <<>>
    /\ parent' = [parent EXCEPT !.phase = "wait"]
    /\ UNCHANGED <<config, no_xterm, machine, out, pipe, child>>

RunEnds ==
    /\ parent.phase = "run" /\ out = <<>>
    /\ parent' = [parent EXCEPT !.phase = "close"]
    /\ out' = <<Msg("q", "", 0)>>
    /\ UNCHANGED <<config, no_xterm, machine, pipe, child>>

CloseSignals ==
    /\ parent.phase = "close" /\ out = <<>>
    /\ parent' = [parent EXCEPT !.phase = "wait"]
    /\ child' = Signalled
    /\ UNCHANGED <<config, no_xterm, machine, out, pipe>>

Reap ==
    /\ parent.phase = "wait" /\ child.phase = "ended"
    /\ parent' = [parent EXCEPT !.phase = "ended"]
    /\ UNCHANGED <<config, no_xterm, machine, out, pipe, child>>

----------------------------------------------------------------------------
(* disp-vcd.  An entry of the file is a header, a time or a value.          *)

Entry(id, val) == [id |-> id, val |-> val]

(* Where the file has an entry of an id, and whether the last of them says v. *)
Entries(c, id)   == {i \in DOMAIN c.file : c.file[i].id = id}
LastIs(c, id, v) == \E i \in Entries(c, id) :
                       c.file[i].val = v /\ \A j \in Entries(c, id) : j <= i

(* vcd_write_clock writes the time if it is not the one written last. *)
WriteClock(c) ==
    IF LastIs(c, "#", c.clk) THEN c
    ELSE [c EXCEPT !.file = Append(@, Entry("#", c.clk))]

(* vcd_write_reg, vcd_write_sram, vcd_write_io_reg and vcd_write_pc. *)
Marked(c, id) == /\ config.opened /\ id \in config.traced
                 /\ id = "ioreg" => "PORT" \in c.bound
WriteValue(c, id, val) ==
    IF ~Marked(c, id) THEN c
    ELSE LET d == WriteClock(c) IN [d EXCEPT !.file = Append(@, Entry(id, val))]

(* vcd_write_sp, which leaves out a value it has just written. *)
WriteSp(c) ==
    IF LastIs(c, "sp", c.spreg) THEN c
    ELSE WriteValue(c, "sp", c.spreg)

WriteHeader(c) ==
    IF ~config.opened THEN c
    ELSE [c EXCEPT !.file = Append(@,
             Entry("header", {id \in config.traced : Marked(c, id)}))]

(* The 'i' message of a byte of SP; first without the mask that clears the  *)
(* byte before the new one is added.                                        *)
SpByte_NoMask(c, m) == WriteSp([c EXCEPT
    !.spreg = IF m.addr = "SPL" THEN <<@[1], @[2] + m.val>> ELSE <<@[1] + m.val, @[2]>>])

SpByte(c, m) == WriteSp([c EXCEPT
    !.spreg = IF m.addr = "SPL" THEN <<@[1], m.val>> ELSE <<m.val, @[2]>>])

(* disp_parse_packet *)
Handle(c, m) ==
    CASE m.kind = "q" -> [c EXCEPT !.phase = "ended"]
      [] m.kind = "p" -> WriteValue(c, "pc", m.val)
      [] m.kind = "n" -> LET d == [c EXCEPT !.clk = m.val, !.first_clock_occured = TRUE] IN
                         IF c.first_clock_occured THEN d ELSE WriteHeader(d)
      [] m.kind = "r" -> WriteValue(c, "reg", m.val)
      [] m.kind = "s" -> WriteValue(c, "sram", m.val)
      [] m.kind = "i" -> IF m.addr = "PORT" THEN WriteValue(c, "ioreg", m.val)
                         ELSE SpByte(c, m)
      [] m.kind = "I" -> [c EXCEPT !.bound = @ \cup {m.addr}]

(* execlp may fail; else the coprocess installs its handlers. *)
ChildStarts ==
    /\ child.phase = "exec"
    /\ child' \in {[child EXCEPT !.phase = "top"], [child EXCEPT !.phase = "ended"]}
    /\ UNCHANGED <<config, no_xterm, machine, parent, out, pipe>>

(* The main loop looks at sig_int, and then selects. *)
ChildLoops ==
    /\ child.phase = "top"
    /\ child' = [child EXCEPT !.phase = IF child.sig_int THEN "ended" ELSE "select"]
    /\ UNCHANGED <<config, no_xterm, machine, parent, out, pipe>>

(* Nothing to read, the end of the pipe, or a signal: back to the top. *)
ChildReadsNothing ==
    /\ child.phase = "select"
    /\ pipe = <<>> \/ child.sig_int
    /\ child' = [child EXCEPT !.phase = "top"]
    /\ UNCHANGED <<config, no_xterm, machine, parent, out, pipe>>

(* The signal of an I/O register has pointers nobody initialised, which are *)
(* freed when it gets its name: this may work or not.                       *)
Crashes(m) == m.kind = "I" /\ m.addr = "PORT" /\ "ioreg" \in config.traced

ChildReads ==
    /\ child.phase = "select"
    /\ pipe # <<>>
    /\ \/ child' = Handle([child EXCEPT !.phase = "top"], Head(pipe))
       \/ Crashes(Head(pipe)) /\ child' = [child EXCEPT !.phase = "ended"]
    /\ pipe' = Tail(pipe)
    /\ UNCHANGED <<config, no_xterm, machine, parent, out>>

Over == /\ parent.phase \in Stopped
        /\ UNCHANGED vars

ParentStep == CoreStep \/ DebuggerWrites \/ CoreReset \/ Write \/ SigintReported
              \/ AvrError \/ RunEnds \/ CloseSignals \/ Reap
ChildStep  == ChildStarts \/ ChildLoops \/ ChildReadsNothing \/ ChildReads

Next == ParentStep \/ UserInterrupts \/ ChildStep \/ Over

Spec == Init /\ [][Next]_vars

(* Both processes are scheduled. *)
FairSpec == Spec /\ WF_vars(ParentStep) /\ WF_vars(ChildStep)

----------------------------------------------------------------------------
(* Properties *)

(* A reader of the file meets the header first, once, and every value is of *)
(* a signal it declares: the names arrived before the clock that made the   *)
(* coprocess write it.                                                      *)
HeaderDeclares ==
    \A i \in DOMAIN child.file :
       LET e == child.file[i] IN
       /\ e.id = "header" <=> i = 1
       /\ e.id \in Signals => e.id \in child.file[1].val

(* The times in the file increase: avrcore.c:1166 says that the clock must  *)
(* not be reset, as "This leads to an error in the vcd file".               *)
TimesIncrease ==
    \A i, j \in Entries(child, "#") : i < j => child.file[i].val < child.file[j].val

(* The messages on their way: in the pipe, or of the present operation.     *)
(* Those about a field of the machine are told by their address; the last   *)
(* of them carries its value, or there is none.                             *)
Coming        == pipe \o out
About(m, f)   == m.kind # "I" /\ m.addr = f
Silent(s, f)  == \A k \in DOMAIN s : ~About(s[k], f)
Ends(s, f, v) == \E k \in DOMAIN s : /\ About(s[k], f) /\ s[k].val = v
                                     /\ \A j \in DOMAIN s : j > k => ~About(s[j], f)

(* What the file says of a signal that is written as it comes, and what the *)
(* coprocess holds of the stack pointer.                                    *)
SignalOf(f) == CASE f = "reg" -> "reg" [] f = "PC" -> "pc" [] f = "sram" -> "sram"
                 [] OTHER -> "sp"
Says(c, id, v) == \/ LastIs(c, id, v)
                  \/ Entries(c, id) = {} /\ v = IF id = "sp" THEN <<0, 0>> ELSE 0
Holds(c, f, v) == CASE f = "SPL" -> c.spreg[2] = v
                    [] f = "SPH" -> c.spreg[1] = v
                    [] OTHER     -> Says(c, SignalOf(f), v)

(* At every moment the file says of a traced signal what the machine holds, *)
(* but for the messages on their way, and of the stack pointer what its two *)
(* bytes are together.  (An I/O register may change by itself.)             *)
FileFollows ==
    config.opened /\ child.phase # "ended" /\ parent.phase \notin Stopped =>
        /\ "sp" \in config.traced => Says(child, "sp", child.spreg)
        /\ \A f \in {"reg", "PC", "sram", "SPL", "SPH"} : SignalOf(f) \in config.traced =>
              \/ Ends(Coming, f, machine[f])
              \/ Silent(Coming, f) /\ Holds(child, f, machine[f])

(* display_close comes to an end, also when the pipe is full, and when the  *)
(* coprocess ended before.                                                  *)
CloseEnds == parent.phase \in {"close", "wait"} ~> parent.phase \in Stopped
=============================================================================
