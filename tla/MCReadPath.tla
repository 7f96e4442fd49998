----------------------------- MODULE MCReadPath -----------------------------
(* An instance of ReadPath: a meter and an inverter, behind one gateway or  *)
(* on endpoints of their own.                                               *)
EXTENDS ReadPath, TLC

CONSTANTS grid, pv

SiteOrder == <<grid, pv>>

(* Endpoints are interchangeable.                                           *)
Interchangeable == Permutations(Endpoint)

=============================================================================
