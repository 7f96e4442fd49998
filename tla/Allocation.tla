----------------------------- MODULE Allocation -----------------------------
(***************************************************************************)
(* The allocation of one active-power setpoint channel: the RequestBoard   *)
(* controllers post claims to (allocation/request.py) and the              *)
(* ChannelArbiter that turns the live claims into one setpoint per control *)
(* cycle (allocation/allocator.py).  Every channel has an arbiter and a    *)
(* board column of its own and shares nothing with the others, so one      *)
(* channel stands for all of them.                                         *)
(*                                                                         *)
(* Power is an integer in a unit of the reader's choice.  A claim without  *)
(* a bound has a bound outside the envelope.  Time is counted in board     *)
(* ticks: a claim carries its age, the ticks since it was posted.          *)
(***************************************************************************)
EXTENDS Integers, FiniteSets

CONSTANTS
  Requester,  \* the controllers that post claims on the channel
  Prio,       \* their priorities, 0 is the highest (reserved for safety)
  Rank,       \* the alphabetical order of their names, the tie-break
  Claim,      \* the claims each requester posts
  PMin, PMax, \* the device envelope
  Default,    \* the fail-safe setpoint when nobody claims anything
  RampUp,     \* the largest rise per control cycle (ramp_up_w_per_s * cycle_s)
  RampDown,   \* the largest fall per control cycle
  Deadband,   \* changes smaller than this are suppressed
  RegMin,     \* the bounds of the setpoint register, enforced by SystemState
  RegMax,
  MaxLag,     \* bound: the ticks the longest cycle lasts
  None        \* Python's None: no claim, no target, no ttl, never resolved

(* A claim that passes ActivePowerRequest.__post_init__. *)
IsRequest(q) ==
  /\ DOMAIN q = {"min", "max", "target", "ttl"}
  /\ q.min \in Int /\ q.max \in Int /\ q.min <= q.max
  /\ q.target # None => q.target \in Int /\ q.min <= q.target /\ q.target <= q.max
  /\ q.ttl # None => q.ttl \in Nat \ {0}

ASSUME PriorityAssumption == Prio \in [Requester -> Nat]

ASSUME RankAssumption ==
  /\ Rank \in [Requester -> Nat]
  /\ \A r, s \in Requester : Rank[r] = Rank[s] => r = s

ASSUME ClaimAssumption == \A r \in Requester : \A q \in Claim[r] : IsRequest(q)

ASSUME ChannelAssumption ==
  /\ PMin \in Int /\ PMax \in Int /\ PMin <= PMax
  /\ Default \in Int
  /\ RampUp \in Nat /\ RampDown \in Nat /\ Deadband \in Nat
  /\ RegMin \in Int /\ RegMax \in Int /\ RegMin <= RegMax
  /\ MaxLag \in Nat

ASSUME NoneAssumption == None \notin Int /\ \A r \in Requester : None \notin Claim[r]

VARIABLES
  board,    \* _claims: the standing claim of each requester, None if absent
  age,      \* ticks since each claim was posted (now - posted_at)
  honored,  \* _honored: what the arbiter decided about each requester last
  alarms,   \* the requesters with an active "alloc.<channel>.<requester>" alarm
  last,     \* _last_setpoint, None before the first resolution
  setpoint, \* the channel's value in SystemState
  phase     \* the scan cycle: "tasks" from the tick to the resolution, else "idle"

vars == <<board, age, honored, alarms, last, setpoint, phase>>

-----------------------------------------------------------------------------
(* The board *)

Expired(r) == board[r].ttl # None /\ age[r] >= board[r].ttl

(* valid_requests: the claims that stand and have not run out. *)
Live == {r \in Requester : board[r] # None /\ ~Expired(r)}

(* valid_requests and resolve sort by (priority, requester). *)
Before(r, s) == Prio[r] < Prio[s] \/ (Prio[r] = Prio[s] /\ Rank[r] < Rank[s])

-----------------------------------------------------------------------------
(* The arbiter: the setpoints that the envelope and the ranges of a set of *)
(* requesters leave, the set whose ranges count, and the setpoint chosen.  *)

(* Mutant: the intersection does not start from the device envelope. *)
RoomUnbounded(S) ==
  {w \in PMin - 1 .. PMax + 1 : \A r \in S : board[r].min <= w /\ w <= board[r].max}

(* Mutant: upper bounds are not intersected. *)
RoomNoCap(S) == {w \in PMin..PMax : \A r \in S : board[r].min <= w}

Room(S) == {w \in PMin..PMax : \A r \in S : board[r].min <= w /\ w <= board[r].max}

(* Mutant: a rejected range still narrows what is left for the next one. *)
ArbitratedByAll(H) ==
  \A r \in Live : r \in H <=> Room({s \in Live : Before(s, r)} \cup {r}) # {}

(* The priority-ordered intersection: a requester is honored exactly when  *)
(* its range leaves some setpoint inside the envelope and the ranges       *)
(* honored before it; otherwise its range is discarded entirely.           *)
Arbitrated(H) ==
  \A r \in Live : r \in H <=> Room({s \in H : Before(s, r)} \cup {r}) # {}

Targeting(H) == {r \in H : board[r].target # None}

(* The requester whose target is taken: the first honored one with a target. *)
Owns(r, H) == r \in Targeting(H) /\ \A s \in Targeting(H) \ {r} : Before(r, s)

(* The target before clamping, as a relation. *)
Wanted(H, t) ==
  \/ \E r \in Requester : Owns(r, H) /\ t = board[r].target
  \/ Live # {} /\ Targeting(H) = {} /\ last # None /\ t = last
  \/ Live # {} /\ Targeting(H) = {} /\ last = None /\ t = Default
  \/ Live = {} /\ t = Default

(* Mutant: the operational band (priority 1) steps like safety does. *)
ForcedByGate(H) == \E r \in H : Owns(r, H) /\ Prio[r] <= 1

ForcedBySafety(H) == \E r \in H : Owns(r, H) /\ Prio[r] = 0

Clamp(w, lo, hi) == IF w > hi THEN hi ELSE IF w < lo THEN lo ELSE w

Distance(v, w) == IF v <= w THEN w - v ELSE v - w

(* v is the setpoint of S closest to w: _clamp(w, lo, hi). *)
Nearest(v, w, S) == v \in S /\ \A u \in S : Distance(v, w) <= Distance(u, w)

(* Mutant: a safety value is not exempt from the deadband. *)
DeadbandedAlways(w, forced) ==
  IF last # None /\ Distance(w, last) < Deadband THEN last ELSE w

(* Mutant: a change of exactly the deadband is suppressed too. *)
DeadbandedWide(w, forced) ==
  IF last # None /\ ~forced /\ Distance(w, last) <= Deadband THEN last ELSE w

Deadbanded(w, forced) ==
  IF last # None /\ ~forced /\ Distance(w, last) < Deadband THEN last ELSE w

Ramped(w, forced) ==
  IF forced \/ last = None THEN w ELSE Clamp(w, last - RampDown, last + RampUp)

-----------------------------------------------------------------------------
(* The scan cycle as the channel sees it *)

Init ==
  /\ board = [r \in Requester |-> None]
  /\ age = [r \in Requester |-> 0]
  /\ honored = [r \in Requester |-> "unseen"]
  /\ alarms = {}
  /\ last = None
  /\ setpoint = 0
  /\ phase = "tasks"

Post(r, q) ==
  /\ phase = "tasks"
  /\ board' = [board EXCEPT ![r] = q]
  /\ age' = [age EXCEPT ![r] = 0]
  /\ UNCHANGED <<honored, alarms, last, setpoint, phase>>

Withdraw(r) ==
  /\ phase = "tasks"
  /\ board[r] # None
  /\ board' = [board EXCEPT ![r] = None]
  /\ age' = [age EXCEPT ![r] = 0]
  /\ UNCHANGED <<honored, alarms, last, setpoint, phase>>

(* The verdict on each requester, and the alarms the transitions raise and *)
(* clear: raised when a request turns rejected, cleared when a rejected    *)
(* one is honored again or is no longer there.                             *)
NoteHonored(H) ==
  /\ honored' = [r \in Requester |-> IF r \notin Live THEN "unseen"
                                     ELSE IF r \in H THEN "honored" ELSE "rejected"]
  /\ alarms' = (alarms \ {r \in Requester : honored[r] = "rejected" /\ r \notin Live \ H})
                 \cup {r \in Live \ H : honored[r] # "rejected"}

(* ChannelArbiter.resolve and PowerAllocator.resolve, once per cycle. *)
Resolve ==
  /\ phase = "tasks"
  /\ \E H \in SUBSET Live :
       /\ Arbitrated(H)
       /\ NoteHonored(H)
       /\ \E t \in {board[r].target : r \in Targeting(H)} \cup {last, Default} :
          \E w \in Room(H) :
            /\ Wanted(H, t)
            /\ Nearest(w, t, Room(H))
            /\ last' = Ramped(Deadbanded(w, ForcedBySafety(H)), ForcedBySafety(H))
  /\ setpoint' = Clamp(last', RegMin, RegMax)
  /\ board' = [r \in Requester |-> IF r \in Live THEN board[r] ELSE None]
  /\ age' = [r \in Requester |-> IF r \in Live THEN age[r] ELSE 0]
  /\ phase' = "idle"

(* RequestBoard.tick opens the next cycle; a late cycle is several ticks    *)
(* long.  An age past its claim's ttl tells nothing more, so it stops there.*)
Aged(r, d) ==
  IF board[r] = None THEN 0
  ELSE IF board[r].ttl = None THEN 0
  ELSE IF age[r] + d > board[r].ttl THEN board[r].ttl ELSE age[r] + d

Tick ==
  /\ phase = "idle"
  /\ \E d \in 1..MaxLag : age' = [r \in Requester |-> Aged(r, d)]
  /\ phase' = "tasks"
  /\ UNCHANGED <<board, honored, alarms, last, setpoint>>

Next ==
  \/ \E r \in Requester : \E q \in Claim[r] : Post(r, q)
  \/ \E r \in Requester : Withdraw(r)
  \/ Resolve
  \/ Tick

(* Scheduler.run repeats the cycle, and step() resolves in every cycle. *)
Spec == Init /\ [][Next]_vars /\ WF_vars(Resolve) /\ WF_vars(Tick)

-----------------------------------------------------------------------------
(* Properties *)

(* Every variable has its type, and no claim outlives the resolution that   *)
(* finds it expired.                                                        *)
TypeOK ==
  /\ board \in [Requester -> (UNION {Claim[r] : r \in Requester}) \cup {None}]
  /\ \A r \in Requester : board[r] \in Claim[r] \cup {None}
  /\ age \in [Requester -> Nat]
  /\ honored \in [Requester -> {"unseen", "honored", "rejected"}]
  /\ alarms \subseteq Requester
  /\ last \in Int \cup {None}
  /\ setpoint \in Int
  /\ phase \in {"tasks", "idle"}
  /\ phase = "idle" => \A r \in Requester : board[r] # None => ~(board[r].ttl # None /\ age[r] >= board[r].ttl)

(* The retained setpoint never leaves the device envelope, whatever ranges *)
(* and targets are claimed and however deadband and ramp combine.          *)
WithinEnvelope == last # None => last \in PMin..PMax

(* An "alloc" alarm is active exactly for the requesters whose last        *)
(* verdict is a rejection: raised, cleared and forgotten in step.          *)
AlarmsMatchVerdicts == alarms = {r \in Requester : honored[r] = "rejected"}

(* A step of the setpoint larger than the gradient is a safety step: it    *)
(* takes a live priority-0 claim with a target.                            *)
SafetyClaim == \E r \in Live : Prio[r] = 0 /\ board[r].target # None

GradientRespected ==
  [][ last # None /\ ~SafetyClaim
        => last' \in last - RampDown .. last + RampUp ]_vars

(* The pin of the first requester in priority order lands exactly, in the  *)
(* cycle that sees it, whatever is claimed below it and wherever the       *)
(* setpoint was.                                                           *)
Pin(r) ==
  /\ r \in Live /\ Prio[r] = 0 /\ board[r].target # None
  /\ board[r].min = board[r].max /\ board[r].min \in PMin..PMax
  /\ \A s \in Live \ {r} : Before(r, s)

PinLands ==
  [][ Resolve => \A r \in Requester : Pin(r) => last' = board[r].target ]_vars

(* No resolution takes the setpoint further from the range of a requester  *)
(* it honors, neither through the target of another nor through deadband   *)
(* or ramp.                                                                *)
Away(w, q) == IF w < q.min THEN q.min - w ELSE IF w > q.max THEN w - q.max ELSE 0

NeverAway ==
  [][ Resolve /\ last # None =>
        \A r \in Live : honored'[r] = "honored"
                          => Away(last', board[r]) <= Away(last, board[r]) ]_vars

(* A resolution brings the setpoint strictly closer to the range of each    *)
(* requester it honors, until it is within the deadband of that range, and  *)
(* with no claim strictly closer to the fail-safe default.  With steady     *)
(* claims it takes finitely many cycles to get there, whatever deadband,    *)
(* ramp and conflicting targets do.                                         *)
Near(d) == d = 0 \/ d < Deadband
Closer(after, before) == after < before \/ (after = before /\ Near(after))
FromDefault(w) == Distance(w, Clamp(Default, PMin, PMax))

Approaches ==
  [][ Resolve /\ last # None =>
        /\ \A r \in Live : honored'[r] = "honored"
                           => Closer(Away(last', board[r]), Away(last, board[r]))
        /\ Live = {} => Closer(FromDefault(last'), FromDefault(last)) ]_vars

(* When the controllers stop changing their claims the setpoint comes to   *)
(* within the deadband of every range honored, and with no claim at all    *)
(* to within the deadband of the fail-safe default.                        *)
Settled ==
  /\ last # None
  /\ \A r \in Live : honored[r] = "honored" => Near(Away(last, board[r]))
  /\ Live = {} => Near(FromDefault(last))

Settles == <>[][~\E r \in Requester : Withdraw(r) \/ \E q \in Claim[r] : Post(r, q)]_vars
             => <>[]Settled

=============================================================================
