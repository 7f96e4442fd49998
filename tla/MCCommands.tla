----------------------------- MODULE MCCommands -----------------------------
(***************************************************************************)
(* Instances of Commands with two request threads of the UI: one with file *)
(* faults and a clock that may be set back, one with requests that overlap *)
(* on a file that is always readable.                                      *)
(***************************************************************************)
EXTENDS Commands, TLC

=============================================================================
