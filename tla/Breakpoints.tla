---------------------------- MODULE Breakpoints -----------------------------
(***************************************************************************)
(* Program memory and everything that writes it while a program runs: the  *)
(* software breakpoints of avrcore.c, which replace an instruction by the   *)
(* BREAK opcode and keep the instruction in a list, the memory writes of    *)
(* the debugger, and the self-programming unit of spm_helper.c.             *)
(*                                                                         *)
(* A word of program memory is the set of its bits that are one, so that    *)
(* the erased word is Bits and programming a page is an intersection.       *)
(***************************************************************************)
EXTENDS DList

CONSTANTS
    Pages, Offsets,     \* an address is a page and an offset in it
    Bits, HighBits,     \* the bits of a word, and those of its high byte
    BREAK,              \* BREAK_OPCODE
    OverBreakpoints     \* TRUE if the debugger or the program writes to words
                        \* that have a breakpoint

VARIABLES
    flash,              \* [Addrs -> Words]
    breakpoints,        \* the DList of breakpoints, unique by pc
    SPMCSR,             \* the operation the next SPM does
    page_buffer,        \* [Offsets -> Words]
    exited,             \* avr_error ended the simulator
    program             \* what was written to flash, without breakpoints: the
                        \* memory a debugger or a program means to see

vars == <<flash, breakpoints, SPMCSR, page_buffer, exited, program>>

Addrs    == Pages \X Offsets
Words    == SUBSET Bits
Erased   == Bits
BreakPts == [pc : Addrs, opcode : Words]

(* brk_pt_cmp compares the addresses. *)
brk_pt_key == [b \in BreakPts |-> b.pc]

(* The values spm_write lets into SPMCSR: enable the page for reading, fill *)
(* a word of the page buffer, write the page and erase it.  Zero is none.   *)
Operations == {"rwwsre", "fill", "pgwrt", "pgers"}

BreakpointsAssumption ==
    /\ HighBits \subseteq Bits
    /\ BREAK \in Words
    /\ BREAK # Erased
    /\ OverBreakpoints \in BOOLEAN

ASSUME BreakpointsAssumed == BreakpointsAssumption

(* A program is loaded, no breakpoint is set.  spmhelper_construct sets     *)
(* neither SPMCSR nor the page buffer: they hold what malloc returned.      *)
Init ==
    /\ flash \in [Addrs -> Words]
    /\ program = flash
    /\ breakpoints = <<>>
    /\ SPMCSR \in Operations \cup {"none", "other"}
    /\ page_buffer \in [Offsets -> Words]
    /\ exited = FALSE

----------------------------------------------------------------------------
(* The breakpoint list *)

HasBreakpoint(a) == \E i \in DOMAIN breakpoints : breakpoints[i].pc = a
MayWrite(a)      == OverBreakpoints \/ ~HasBreakpoint(a)

(* As below, with a list that does not compare the addresses. *)
Inserted_NoCompare(s, a) ==
    [breakpoints |-> Append(s.breakpoints, [pc |-> a, opcode |-> s.flash[a]]),
     flash       |-> [s.flash EXCEPT ![a] = BREAK]]

(* avr_core_insert_breakpoint, from a state s of list and flash to the next. *)
Inserted(s, a) ==
    [breakpoints |-> DListAdd(s.breakpoints, [pc |-> a, opcode |-> s.flash[a]],
                              brk_pt_key),
     flash       |-> [s.flash EXCEPT ![a] = BREAK]]

Lookup(bps, a) ==
    bps[CHOOSE i \in DOMAIN bps :
           bps[i].pc = a /\ \A j \in DOMAIN bps : bps[j].pc = a => i <= j]

(* avr_core_remove_breakpoint. *)
Removed(s, a) ==
    IF \E i \in DOMAIN s.breakpoints : s.breakpoints[i].pc = a
    THEN LET bp == Lookup(s.breakpoints, a) IN
         [breakpoints |-> DListDelete(s.breakpoints, bp, brk_pt_key),
          flash       |-> [s.flash EXCEPT ![a] = bp.opcode]]
    ELSE s

CodeMemory == [breakpoints |-> breakpoints, flash |-> flash]
CodeMemoryBecomes(s) == breakpoints' = s.breakpoints /\ flash' = s.flash

(* 'Z0' and 'z0' packets, and --breakpoint. *)
InsertBreakpoint(a) ==
    /\ CodeMemoryBecomes(Inserted(CodeMemory, a))
    /\ UNCHANGED <<SPMCSR, page_buffer, exited, program>>

RemoveBreakpoint(a) ==
    /\ CodeMemoryBecomes(Removed(CodeMemory, a))
    /\ UNCHANGED <<SPMCSR, page_buffer, exited, program>>

(* The program runs into a BREAK and gdb_continue disables all breakpoints: *)
(* each node of the list writes its opcode back, the last of an address     *)
(* prevailing, and stays in the list.                                       *)
HitBreakpoint ==
    /\ \E a \in Addrs : flash[a] = BREAK
    /\ flash' = [a \in Addrs |->
          IF HasBreakpoint(a)
          THEN LET last == CHOOSE i \in DOMAIN breakpoints :
                              /\ breakpoints[i].pc = a
                              /\ \A j \in DOMAIN breakpoints :
                                    breakpoints[j].pc = a => j <= i
               IN  breakpoints[last].opcode
          ELSE flash[a]]
    /\ UNCHANGED <<breakpoints, SPMCSR, page_buffer, exited, program>>

(* A word, or the high or low byte of one, of an 'M' packet.  A packet with *)
(* several words is as many of these in a row.                              *)
WriteFlash(a) ==
    /\ MayWrite(a)
    /\ \E w \in Words, mask \in {Bits, HighBits, Bits \ HighBits} :
          /\ flash' = [flash EXCEPT ![a] = (@ \ mask) \cup (w \cap mask)]
          /\ program' = [program EXCEPT ![a] = (@ \ mask) \cup (w \cap mask)]
    /\ UNCHANGED <<breakpoints, SPMCSR, page_buffer, exited>>

----------------------------------------------------------------------------
(* Self-programming *)

Exit == exited' = TRUE /\ UNCHANGED <<flash, breakpoints, SPMCSR, page_buffer, program>>

(* As below, a value spm_write refuses being stored all the same. *)
WriteSpmcsr_NoRefusal ==
    /\ SPMCSR' \in Operations \cup {"refused"}
    /\ UNCHANGED <<flash, breakpoints, page_buffer, exited, program>>

(* SPMCSR written, with an operation or with a value spm_write refuses. *)
WriteSpmcsr ==
    \/ /\ SPMCSR' \in Operations
       /\ UNCHANGED <<flash, breakpoints, page_buffer, exited, program>>
    \/ Exit

SpmRwwsre ==
    /\ SPMCSR = "rwwsre"
    /\ page_buffer' = [o \in Offsets |-> Erased]
    /\ SPMCSR' = "none"
    /\ UNCHANGED <<flash, breakpoints, exited, program>>

SpmFill ==
    /\ SPMCSR = "fill"
    /\ \E o \in Offsets, w \in Words : page_buffer' = [page_buffer EXCEPT ![o] = w]
    /\ SPMCSR' = "none"
    /\ UNCHANGED <<flash, breakpoints, exited, program>>

(* A memory m with page p erased, and with the page buffer programmed into  *)
(* page p, which can only clear bits.                                       *)
PageErased(m, p) ==
    [a \in Addrs |-> IF a[1] = p THEN Erased ELSE m[a]]
PageWritten(m, p) ==
    [a \in Addrs |-> IF a[1] = p THEN m[a] \cap page_buffer[a[2]] ELSE m[a]]

SpmPageErase(p) ==
    /\ SPMCSR = "pgers"
    /\ \A o \in Offsets : MayWrite(<<p, o>>)
    /\ flash' = PageErased(flash, p)
    /\ program' = PageErased(program, p)
    /\ SPMCSR' = "none"
    /\ UNCHANGED <<breakpoints, page_buffer, exited>>

SpmPageWrite(p) ==
    /\ SPMCSR = "pgwrt"
    /\ \A o \in Offsets : MayWrite(<<p, o>>)
    /\ flash' = PageWritten(flash, p)
    /\ program' = PageWritten(program, p)
    /\ SPMCSR' = "none"
    /\ UNCHANGED <<breakpoints, page_buffer, exited>>

SpmUnknown == SPMCSR \in {"none", "other"} /\ Exit

(* The SPM instruction. *)
Spm == \/ SpmRwwsre \/ SpmFill \/ SpmUnknown
       \/ \E p \in Pages : SpmPageErase(p) \/ SpmPageWrite(p)

Exited == exited /\ UNCHANGED vars

Next ==
    \/ /\ ~exited
       /\ \/ \E a \in Addrs : InsertBreakpoint(a) \/ RemoveBreakpoint(a) \/ WriteFlash(a)
          \/ HitBreakpoint \/ WriteSpmcsr \/ Spm
    \/ Exited

Spec == Init /\ [][Next]_vars

----------------------------------------------------------------------------
(* Properties *)

TypeOK ==
    /\ flash \in [Addrs -> Words]
    /\ program \in [Addrs -> Words]
    /\ breakpoints \in Seq(BreakPts)
    /\ SPMCSR \in Operations \cup {"none", "other"}
    /\ page_buffer \in [Offsets -> Words]
    /\ exited \in BOOLEAN

(* However often breakpoints are set again, hit and removed, in any order,  *)
(* the list knows the program's word at each of its addresses, an address   *)
(* without a breakpoint holds that word, and removing them all gives the    *)
(* program back.                                                            *)
Transparent ==
    /\ \A i \in DOMAIN breakpoints :
          LET bp == breakpoints[i] IN
          /\ bp.opcode = program[bp.pc]
          /\ flash[bp.pc] \in {BREAK, bp.opcode}
    /\ \A a \in Addrs : ~HasBreakpoint(a) => flash[a] = program[a]

(* ChangeLog-2003:623 "Disable breakpoints when a break point is hit. This  *)
(* restores the insn which was previously replaced with a BREAK insn if the *)
(* break point was set by gdb. This was needed to get the sim to send the   *)
(* correct insn back to gdb instead of the BREAK insn": after a hit, program *)
(* memory reads as the program.                                             *)
HitShowsProgram == [][HitBreakpoint => flash' = program']_vars
=============================================================================
