---------------------------- MODULE MCWritePath -----------------------------
(***************************************************************************)
(* An instance of WritePath: a setpoint register and a start and a stop    *)
(* command register behind one bus.  The profile lists start before stop,  *)
(* so a batch of [stop, start] is written the other way round.             *)
(***************************************************************************)
EXTENDS WritePath, TLC

CONSTANTS start, stop

MCWritePlan == (start :> 1) @@ (stop :> 2)

=============================================================================
