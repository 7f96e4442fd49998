---------------------------- MODULE MCAllocation ----------------------------
(***************************************************************************)
(* One channel with an envelope of six units and the four kinds of claim   *)
(* the controllers make: a safety pin, the generation gate's pin, a pure   *)
(* cap (export limit, headroom) and a target inside a band (connection     *)
(* point), the last one with a ttl.  Bounds outside 0..6 stand for a bound *)
(* the claim does not set.                                                 *)
(***************************************************************************)
EXTENDS AllocationLoop, TLC

CONSTANTS safety, gate, cap, band

MCRequester == {safety, gate, cap, band}
MCPrio == (safety :> 0) @@ (gate :> 1) @@ (cap :> 5) @@ (band :> 5)
MCRank == (safety :> 4) @@ (gate :> 3) @@ (cap :> 1) @@ (band :> 2)

Request(lo, hi, target, ttl) == [min |-> lo, max |-> hi, target |-> target, ttl |-> ttl]

MCClaim ==
  (safety :> {Request(1, 1, 1, None)}) @@
  (gate   :> {Request(0, 0, 0, None)}) @@
  (cap    :> {Request(-1, c, None, None) : c \in {0, 3}}) @@
  (band   :> {Request(2, 4, 4, 2), Request(5, 7, 7, None)})

=============================================================================
