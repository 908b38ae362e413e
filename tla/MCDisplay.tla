------------------------------ MODULE MCDisplay ------------------------------
(* An instance of Display for TLC. *)
EXTENDS Display

MCConfigs == {[traced |-> {"pc", "reg", "ioreg"}, opened |-> TRUE],
              [traced |-> {"sp", "sram"}, opened |-> TRUE],
              [traced |-> {"reg"}, opened |-> FALSE]}
=============================================================================
