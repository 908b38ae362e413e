--------------------------- MODULE MCBreakpoints ----------------------------
(* Instances of Breakpoints for TLC. *)
EXTENDS Breakpoints

(* A word of two bits, one in each byte, and a BREAK that is neither erased *)
(* nor empty.                                                               *)
MCBits     == {"low", "high"}
MCHighBits == {"high"}
MCBREAK    == {"low"}
=============================================================================
