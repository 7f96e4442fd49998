--------------------------- MODULE MCSafetyCycle ----------------------------
(* An instance of SafetyCycle: a grid meter with the tighter age limit and  *)
(* an inverter.                                                             *)
EXTENDS SafetyCycle, TLC

CONSTANTS grid, pv

Limits == [d \in Device |-> IF d = grid THEN 1 ELSE 2]

=============================================================================
