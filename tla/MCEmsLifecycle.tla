--------------------------- MODULE MCEmsLifecycle ---------------------------
(* An instance of EmsLifecycle: two requests that overlap, the supervised   *)
(* process and two others.                                                  *)
EXTENDS EmsLifecycle, TLC

=============================================================================
