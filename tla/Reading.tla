------------------------------ MODULE Reading -------------------------------
(***************************************************************************)
(* What CachedDriver promises the control loop of the devices' values,     *)
(* whatever becomes of the bus: a register with an age.  No polls, no      *)
(* sockets, no endpoints: those are how ReadPath keeps the promise.        *)
(*                                                                         *)
(* A device's value is all of one reading and is replaced only by a later  *)
(* reading, at most a poll old by then; its age starts over with the       *)
(* value, never alone.  What the control thread holds is the register as   *)
(* it was at one instant, all devices together.                            *)
(***************************************************************************)
EXTENDS Naturals

CONSTANTS
  Device,
  Span,      \* device reads in a poll
  Horizon,   \* reads beyond which ages are not told apart
  None

VARIABLES
  since,     \* per device: reads since its value was read
  age,       \* per device: reads since the value was published
  held       \* since of what the control thread holds, or None

vars == <<since, age, held>>

Later(times) == [d \in Device |-> IF times[d] < Horizon THEN times[d] + 1 ELSE times[d]]

(* Nothing was read yet. *)
Init ==
  /\ since = [d \in Device |-> Horizon] /\ age = [d \in Device |-> Horizon]
  /\ held = None

Pass ==
  /\ since' = Later(since) /\ age' = Later(age)
  /\ held' = IF held = None THEN None ELSE Later(held)

(* New values of some devices, each from the last poll and newer than the   *)
(* one that it replaces.                                                    *)
Renew ==
  \E S \in SUBSET Device : \E read \in [S -> 0..(Span - 1)] :
    /\ \A d \in S : read[d] < since[d]
    /\ since' = [d \in Device |-> IF d \in S THEN read[d] ELSE since[d]]
    /\ age' = [d \in Device |-> IF d \in S THEN 0 ELSE age[d]]
    /\ UNCHANGED held

Take == held = None /\ held' = since /\ UNCHANGED <<since, age>>
Use  == held # None /\ held' = None /\ UNCHANGED <<since, age>>

Next == Pass \/ Renew \/ Take \/ Use

Spec == Init /\ [][Next]_vars

=============================================================================
