------------------------- MODULE MCControllerClock -------------------------
(***************************************************************************)
(* A day of three minutes, two zones a minute apart, and a clock that may  *)
(* be found wrong; the stored zone is not always the one that was applied. *)
(***************************************************************************)
EXTENDS ControllerClock

CONSTANTS UTC, Kyiv

MCZoneOffset == [z \in Zone |-> IF z = UTC THEN 0 ELSE 1]

MCFound == {Default, [mode |-> "ntp", at |-> 1, manual |-> Absent, zone |-> Kyiv]}

=============================================================================
