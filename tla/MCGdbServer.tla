---------------------------- MODULE MCGdbServer ----------------------------
(* Instances of GdbServer for TLC. *)
EXTENDS GdbServer

(* One that follows the protocol until it goes away, and one that repeats,   *)
(* refuses and kills.                                                       *)
MCDebuggers ==
    {[packets |-> AllPackets, habits |-> {"closes"}],
     [packets |-> {"query", "c", "s", "k"}, habits |-> Habits \ {"closes"}]}

MCRetries == {[packets |-> {"query", "c"}, habits |-> {"retries"}]}
=============================================================================
