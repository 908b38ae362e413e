----------------------------- MODULE MCDecoder ------------------------------
(***************************************************************************)
(* Inputs and breakpoints for the routines of DecoderRoutines.              *)
(***************************************************************************)
EXTENDS DecoderRoutines

MCCode == Routines

----------------------------------------------------------------------------
(* Inputs: all low digits of X with high digits on both sides of every      *)
(* carry, and Y of digits on these sides; the status register empty and     *)
(* full.                                                                    *)
Edges == {0, 1, Half - 1, Half, Byte - 1}

MCSram == 96..103

MCInputs ==
    {[x |-> xl + Byte * xh, y |-> yl + Byte * yh, sreg |-> s,
      mem |-> [a \in MCSram |-> CASE a = 96 -> xl [] a = 97 -> xh [] a = 98 -> yl
                                  [] a = 99 -> yh [] OTHER -> 0]] :
     xl \in Bytes, xh \in Edges, yl \in Edges, yh \in Edges \ {1}, s \in {{}, SregFlags}}

(* The routines that run with a breakpoint, at any address that may have one. *)
Stepped == {"skip", "jump", "max"}

Safe == [r \in DOMAIN Routines |->
            IF r \in Stepped THEN {{}} \cup {{a} : a \in Starts(r) \ SkippedOver(r)} ELSE {{}}]
=============================================================================
