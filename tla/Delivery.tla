------------------------------ MODULE Delivery ------------------------------
(***************************************************************************)
(* What CachedDriver promises the control loop, whatever becomes of the    *)
(* bus: a mirror of the setpoints and a line of commands.  No threads, no  *)
(* clock, no bus: those are how WritePath keeps the promise.               *)
(*                                                                         *)
(* A setpoint is on its way in one transfer at a time, carries the value   *)
(* that was wanted when the transfer began, and stops being outstanding    *)
(* only if that value is still wanted and has arrived.  The line of        *)
(* commands grows at its end and loses its front only once the registers   *)
(* of that front hold what it asks for, so that each command is performed  *)
(* or replaced by a later one for its register.  For one register commands *)
(* keep their order: none arrives after a later one has.  Between registers *)
(* nothing is promised: of a start and a stop with a register each that    *)
(* stand in line together, either may arrive first.                        *)
(***************************************************************************)
EXTENDS Integers, Sequences

CONSTANTS
  Setpoint,  \* registers that mirror what is wanted
  Value,     \* the values wanted
  Order,     \* the commands: records with tag, value and no, their number
  None

VARIABLES
  wanted,       \* per setpoint: what the control loop published last
  outstanding,  \* the setpoints that may not hold it
  transfer,     \* per setpoint: the value on its way, or None
  line,         \* the commands on their way
  register,     \* what the devices hold
  reached,      \* per command register: the number of the last order that arrived
  overwritten   \* setpoints something else wrote to since the last transfer

setpoints == <<wanted, outstanding, transfer>>
commands  == <<line, reached>>
vars == <<setpoints, commands, register, overwritten>>

Nothing == [s \in Setpoint |-> None]
Moving == {s \in Setpoint : transfer[s] # None}

Init ==
  /\ wanted = Nothing /\ outstanding = {} /\ transfer = Nothing
  /\ line = <<>>
  /\ \A r \in DOMAIN register : register[r] = None
  /\ \A r \in DOMAIN reached : reached[r] = 0
  /\ overwritten = {}

Want ==
  /\ wanted' \in [Setpoint -> Value]
  /\ outstanding' = outstanding \cup {s \in Setpoint : wanted[s] # wanted'[s]}
  /\ UNCHANGED <<transfer, commands, register, overwritten>>

(* One transfer at a time. *)
Begin ==
  /\ transfer = Nothing
  /\ \A s \in Setpoint : transfer'[s] \in {wanted[s], None}
  /\ UNCHANGED <<wanted, outstanding, commands, register, overwritten>>

(* Any part of a transfer arrives; it may be over without the rest.         *)
Arrive ==
  \E S \in SUBSET Moving :
    /\ register' = [r \in DOMAIN register |-> IF r \in S THEN transfer[r] ELSE register[r]]
    /\ overwritten' = overwritten \ S
    /\ transfer' \in {transfer, Nothing}
    /\ UNCHANGED <<wanted, outstanding, commands>>

Arrived(s) ==
  /\ s \in Moving /\ transfer[s] = wanted[s]
  /\ s \in overwritten \/ register[s] = transfer[s]

Confirm ==
  /\ \E S \in SUBSET {s \in Setpoint : Arrived(s)} : outstanding' = outstanding \ S
  /\ transfer' = Nothing
  /\ UNCHANGED <<wanted, commands, register, overwritten>>

(* Numbers grow along the line. *)
Send ==
  /\ \E o \in Order :
       /\ \A i \in 1..Len(line) : line[i].no < o.no
       /\ \A r \in DOMAIN reached : reached[r] < o.no
       /\ line' = Append(line, o)
  /\ UNCHANGED <<setpoints, reached, register, overwritten>>

(* An order arrives, once or again, unless a later one for its register has *)
(* arrived.                                                                 *)
Perform ==
  /\ \E i \in 1..Len(line) :
       /\ line[i].no >= reached[line[i].tag]
       /\ register' = [register EXCEPT ![line[i].tag] = line[i].value]
       /\ reached' = [reached EXCEPT ![line[i].tag] = line[i].no]
  /\ UNCHANGED <<setpoints, line, overwritten>>

(* The orders that count among the first n: the last for each register.     *)
Counting(n) == {i \in 1..n : \A j \in i + 1..n : line[j].tag # line[i].tag}

Settle(n) ==
  /\ \A i \in Counting(n) : register[line[i].tag] = line[i].value
  /\ line' = SubSeq(line, n + 1, Len(line))
  /\ UNCHANGED <<setpoints, reached, register, overwritten>>

(* A device reset or a local operator. *)
Overwrite ==
  \E s \in Setpoint, v \in Value :
    /\ register' = [register EXCEPT ![s] = v]
    /\ overwritten' = overwritten \cup {s}
    /\ UNCHANGED <<setpoints, commands>>

Next ==
  \/ Want \/ Begin \/ Arrive \/ Confirm
  \/ Send \/ Perform \/ \E n \in 0..Len(line) : Settle(n)
  \/ Overwrite

Spec == Init /\ [][Next]_vars

=============================================================================
