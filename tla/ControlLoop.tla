----------------------------- MODULE ControlLoop -----------------------------
(***************************************************************************)
(* The closed loop around one generating unit: the plant and its meter     *)
(* (sim/plant.py, the physics the tests of the control laws run against),  *)
(* the tags the polls fill, the controllers that turn tags into claims     *)
(* (safety, export limit, connection-point regulation, compliance monitor, *)
(* headroom limiter), the arbiter of module Allocation that resolves the   *)
(* claims, and the setpoint register the result is flushed to.             *)
(*                                                                         *)
(* A scan cycle goes through the phases poll, execute (the tasks), tasks   *)
(* (the resolution), idle (the flush) and plant.  Power is counted in a    *)
(* grid unit and is positive on import at the connection point; a product  *)
(* with a gain is rounded towards zero to the grid.                        *)
(***************************************************************************)
EXTENDS Integers, FiniteSets

CONSTANTS
  Sites,         \* the control modes and import limits a site may be configured with
  ExportLimit,   \* export_limit_w
  ImportBand,    \* deadband_w of the import-limit controller
  Headroom,      \* headroom_w, the absolute floor of the allowed excess
  HeadroomPct,   \* headroom_pct
  Tolerance,     \* tolerance_w of the compliance monitor
  Window,        \* max_violation_s
  SafePower,     \* safe_active_power_w
  Kp, Ki, Den,   \* the PID gains kp = Kp/Den, ki = Ki/Den; kd = 0
  Tt,            \* the anti-windup tracking time
  MaxMemory,     \* what the integral is claimed to stay within
  PMin, PMax, Default, RampUp, RampDown, Deadband, RegMin, RegMax,
                 \* the setpoint channel, see Allocation
  Count,         \* grid units per count of the setpoint register (its scale)
  Loads, Avails, \* what the site may consume, what the resource may offer
  MaxLoad,       \* what the site consumes at most
  MaxEvents,     \* bound: disturbances and late transfers of a behaviour
  MaxLag,        \* bound: the ticks between two cycles
  None

Requester == {"safety", "export", "regulation", "headroom"}

Prio == [r \in Requester |-> CASE r = "safety" -> 0 [] r = "export" -> 5
                               [] r = "regulation" -> 10 [] r = "headroom" -> 11]

ASSUME SiteAssumption ==
  /\ Sites \subseteq [mode : {"export_limit", "import_limit"}, import : Nat]
  /\ ExportLimit \in Nat /\ ImportBand \in Nat
  /\ Headroom \in Nat \ {0} /\ HeadroomPct \in Nat
  /\ Tolerance \in Nat /\ Window \in Nat \ {0}
  /\ SafePower \in PMin..PMax

ASSUME GainAssumption ==
  Kp \in Nat /\ Ki \in Nat /\ Den \in Nat \ {0} /\ Tt \in Nat \ {0} /\ MaxMemory \in Nat

ASSUME UnitAssumption ==
  /\ PMin \in Int /\ PMax \in Nat /\ PMin <= PMax /\ Default \in Int
  /\ RampUp \in Nat /\ RampDown \in Nat /\ Deadband \in Nat
  /\ RegMin \in Int /\ RegMax \in Int /\ RegMin <= RegMax /\ Count \in Nat \ {0}

ASSUME PlantAssumption ==
  /\ MaxLoad \in Nat /\ Loads \subseteq 0..MaxLoad /\ Avails \subseteq Nat
  /\ MaxEvents \in Nat /\ MaxLag \in Nat \ {0}

ASSUME NoneAssumption == None \notin Int

ASSUME NoClaimAssumption ==
  None \notin [min : Int, max : Int, target : Int \cup {None}, ttl : {None}]

VARIABLES
  site,      \* scenario.control_mode and import_limit_w, fixed at start-up
  obeys,     \* whether the unit follows its setpoint register, fixed
  swift,     \* whether it follows within a cycle or with its lag, fixed
  load,      \* what the site consumes
  avail,     \* what the resource offers the unit
  trip,      \* whether a safety guard is over its limit
  budget,    \* the disturbances and late transfers still to come
  unit,      \* what the unit produces
  register,  \* the raw content of the unit's setpoint register
  gridTag,   \* grid.W in SystemState
  unitTag,   \* pv.W in SystemState
  dt,        \* ticks since the previous cycle
  integral,  \* PIDController._integral
  requested, \* _last_requested_w, None when the controller is new or reset
  over,      \* ticks since _over_since, None when the unit is inside tolerance
  violating, \* sys.setpoint_violation
  board, honored, alarms, last, setpoint, phase \* as in Allocation

fixed == <<site, obeys, swift>>
world == <<load, avail, trip>>
plant == <<unit, register>>
tags == <<gridTag, unitTag, dt>>
regulation == <<integral, requested>>
compliance == <<over, violating>>
channel == <<board, honored, alarms, last, setpoint>>
vars == <<fixed, world, budget, plant, tags, regulation, compliance, channel, phase>>

-----------------------------------------------------------------------------
(* Claims and arbitration.  The claims of these controllers have no ttl, so *)
(* their age tells nothing.                                                 *)

A == INSTANCE Allocation WITH
       Rank <- Prio,
       Claim <- [r \in Requester |-> {}],
       age <- [r \in Requester |-> 0]

NonNeg(w) == IF w < 0 THEN 0 ELSE w
Least(v, w) == IF v < w THEN v ELSE w
Most(v, w) == IF v > w THEN v ELSE w

Request(lo, hi, target) == [min |-> lo, max |-> hi, target |-> target, ttl |-> None]

NoFloor(w) == Least(w, PMin) - 1  \* min_w = -inf, below w
NoCap(w) == Most(w, PMax) + 1     \* max_w = inf, above w

(* Mutant: the export limiter reads the meter as export positive. *)
CapExportPositive == NonNeg(unitTag - gridTag + ExportLimit)

(* What the unit may make without exporting more than the limit. *)
Cap == NonNeg(unitTag + gridTag + ExportLimit)

(* What the unit must make for the import to stay below its limit. *)
Floor == NonNeg(unitTag + gridTag - site.import)

(* Mutant: a relative headroom without the absolute floor. *)
HeadroomCapRelative == NonNeg(unitTag) + (NonNeg(unitTag) * HeadroomPct) \div 100

HeadroomCap ==
  NonNeg(unitTag) + Most(Headroom, (NonNeg(unitTag) * HeadroomPct) \div 100)

-----------------------------------------------------------------------------
(* PIDController, with kd = 0 as every profile of the repository has it.    *)

Scaled(n, x) == IF x < 0 THEN -((n * (-x)) \div Den) ELSE (n * x) \div Den

(* _tracking_beta, in units of 1/Den. *)
Beta(d) == IF d >= Tt THEN Den ELSE (d * Den) \div Tt

(* track_applied_output: the setpoint in SystemState is what the arbiter    *)
(* made of the previous request.                                            *)
Tracked ==
  IF requested = None \/ Ki = 0 THEN integral
  ELSE integral + Scaled(Beta(dt), setpoint - requested)

(* step: the output before and after the clamp to lo..hi, and the integral. *)
Candidate(i, error) == i + Scaled(Ki * dt, error)
Unclamped(i, error) == Scaled(Kp, error) + Candidate(i, error)
Output(i, error, lo, hi) == A!Clamp(Unclamped(i, error), lo, hi)

(* Mutant: no back-calculation of the saturation. *)
IntegralWound(i, error, lo, hi) == Candidate(i, error)

Integral(i, error, lo, hi) ==
  IF Ki = 0 THEN i
  ELSE Candidate(i, error) + Scaled(Beta(dt), Output(i, error, lo, hi) - Unclamped(i, error))

(* Mutant: the target is not clamped to the band again. *)
RegulatedLoosely(feedforward, error, lo, hi) ==
  /\ requested' = IF requested = None THEN feedforward
                  ELSE feedforward + Unclamped(Tracked, error)
  /\ integral' = IF requested = None THEN integral
                 ELSE Integral(Tracked, error, lo - feedforward, hi - feedforward)

(* One run of the regulation: feed-forward plus trim.  The first run after  *)
(* a start or a reset has no dt and leaves the PID alone.                   *)
Regulated(feedforward, error, lo, hi) ==
  /\ requested' = A!Clamp(feedforward + (IF requested = None THEN 0
                            ELSE Output(Tracked, error, lo - feedforward, hi - feedforward)),
                          lo, hi)
  /\ integral' = IF requested = None THEN integral
                 ELSE Integral(Tracked, error, lo - feedforward, hi - feedforward)

-----------------------------------------------------------------------------
(* The plant *)

Init ==
  /\ site \in Sites /\ obeys \in BOOLEAN /\ swift \in BOOLEAN
  /\ load \in Loads /\ avail \in Avails /\ trip = FALSE /\ budget = MaxEvents
  /\ unit = 0 /\ register = PMax \div Count
  /\ gridTag = 0 /\ unitTag = 0 /\ dt = 1
  /\ integral = 0 /\ requested = None
  /\ over = None /\ violating = FALSE
  /\ board = [r \in Requester |-> None]
  /\ honored = [r \in Requester |-> "unseen"]
  /\ alarms = {} /\ last = None /\ setpoint = 0
  /\ phase = "plant"

Spend == budget > 0 /\ budget' = budget - 1

(* The load, the resource or the health of the bus changes. *)
Disturb ==
  /\ phase = "plant"
  /\ Spend
  /\ \/ load' \in Loads \ {load} /\ UNCHANGED <<avail, trip>>
     \/ avail' \in Avails \ {avail} /\ UNCHANGED <<load, trip>>
     \/ trip' = ~trip /\ UNCHANGED <<load, avail>>
  /\ UNCHANGED <<fixed, plant, tags, regulation, compliance, channel, phase>>

(* GeneratingUnitSim.step: what the unit makes for, at once or by half of   *)
(* the way each cycle.                                                      *)
Goal ==
  NonNeg(Least(avail, IF obeys THEN Least(register * Count, PMax) ELSE PMax))

Toward(v, w) ==
  IF swift THEN w ELSE IF v < w THEN (v + w + 1) \div 2 ELSE (v + w) \div 2

Move ==
  /\ phase = "plant"
  /\ unit' = Toward(unit, Goal)
  /\ phase' = "poll"
  /\ UNCHANGED <<fixed, world, budget, register, tags, regulation, compliance, channel>>

(* The polls of the meter and of the unit are independent: a cycle that     *)
(* finds one undelivered goes on with the older sample, and a cycle may     *)
(* come late.                                                               *)
PollOf(devices, d) ==
  /\ phase = "poll"
  /\ gridTag' = IF "grid" \in devices THEN load - unit ELSE gridTag
  /\ unitTag' = IF "unit" \in devices THEN unit ELSE unitTag
  /\ dt' = d
  /\ phase' = "execute"
  /\ UNCHANGED <<fixed, world, plant, regulation, compliance, channel>>

Poll == PollOf({"grid", "unit"}, 1) /\ UNCHANGED budget

PollLate ==
  /\ Spend
  /\ \/ \E devices \in {{}, {"grid"}, {"unit"}} : PollOf(devices, 1)
     \/ \E d \in 2..MaxLag : PollOf({"grid", "unit"}, d)

-----------------------------------------------------------------------------
(* The controllers.  The tasks of a cycle run one after the other in the    *)
(* control thread, on the tags of one snapshot, and each controller has a   *)
(* slot of its own on the board: one action runs them all.                  *)

(* SafetyController pins the unit while a guard is over its limit. *)
SafetyClaim == IF trip THEN Request(SafePower, SafePower, SafePower) ELSE None

(* GridExportLimitController: an export_limit site has it. *)
ExportClaim == IF site.mode = "export_limit" THEN Request(NoFloor(Cap), Cap, None) ELSE None

(* SetpointHeadroomLimiter *)
HeadroomClaim == Request(NoFloor(HeadroomCap), HeadroomCap, None)

(* _execute_export_limit: what the connection point is regulated to ... *)
Target == IF gridTag > site.import THEN site.import ELSE -ExportLimit

(* ... inside the band the two limits leave. *)
FloorInBand == Least(Floor, Cap)

RegulateExport ==
  /\ site.mode = "export_limit"
  /\ Regulated(A!Clamp(unitTag + gridTag - Target, FloorInBand, Cap),
               gridTag - Target, FloorInBand, Cap)

(* _execute_import_limit: back inside the limit the PID is reset ... *)
RegulateImportReleased ==
  /\ site.mode = "import_limit" /\ gridTag <= site.import + ImportBand
  /\ integral' = 0 /\ requested' = None

(* ... and above it the unit is asked for at least what brings it back. *)
Free == NoCap(Floor + NonNeg(Unclamped(Tracked, gridTag - site.import)))

RegulateImport ==
  /\ site.mode = "import_limit" /\ gridTag > site.import + ImportBand
  /\ Regulated(Floor, gridTag - site.import, Floor, Free)

RegulationClaim ==
  IF requested' = None THEN None
  ELSE IF site.mode = "export_limit" THEN Request(FloorInBand, Cap, requested')
  ELSE Request(Floor, NoCap(requested'), requested')

(* Mutant: the timer of an overshoot survives its end. *)
OvershootKept ==
  over' = IF unitTag <= setpoint + Tolerance THEN over
          ELSE IF over = None THEN 0 ELSE Least(over + dt, Window)

(* SetpointComplianceMonitor's timer; beyond Window it tells nothing more. *)
Overshoot ==
  over' = IF unitTag <= setpoint + Tolerance THEN None
          ELSE IF over = None THEN 0 ELSE Least(over + dt, Window)

Execute ==
  /\ phase = "execute"
  /\ RegulateExport \/ RegulateImportReleased \/ RegulateImport
  /\ Overshoot
  /\ violating' = (over' # None /\ over' >= Window)
  /\ board' = [safety |-> SafetyClaim, export |-> ExportClaim,
               regulation |-> RegulationClaim, headroom |-> HeadroomClaim]
  /\ phase' = "tasks"
  /\ UNCHANGED <<fixed, world, budget, plant, tags, honored, alarms, last, setpoint>>

Resolve ==
  /\ A!Resolve
  /\ UNCHANGED <<fixed, world, budget, plant, tags, regulation, compliance>>

-----------------------------------------------------------------------------
(* The register *)

(* write_setpoints: divided by the scale and truncated towards zero. *)
Encoded(w) == IF w < 0 THEN -((-w) \div Count) ELSE w \div Count

Flush ==
  /\ phase = "idle"
  /\ register' = Encoded(setpoint)
  /\ phase' = "plant"
  /\ UNCHANGED <<fixed, world, budget, unit, tags, regulation, compliance, channel>>

(* The I/O worker has not come to it, or the write failed. *)
FlushLate ==
  /\ phase = "idle"
  /\ Spend
  /\ phase' = "plant"
  /\ UNCHANGED <<fixed, world, plant, tags, regulation, compliance, channel>>

Cycle == Move \/ Poll \/ PollLate \/ Execute \/ Resolve \/ Flush \/ FlushLate

Next == Disturb \/ Cycle

(* Scheduler.run repeats the cycle for as long as the process runs. *)
Spec == Init /\ [][Next]_vars /\ WF_vars(Cycle)

-----------------------------------------------------------------------------
(* Properties *)

(* Every variable has its type and the unit never makes more than its       *)
(* rating.                                                                  *)
TypeOK ==
  /\ site \in Sites /\ obeys \in BOOLEAN /\ swift \in BOOLEAN
  /\ load \in Loads /\ avail \in Avails /\ trip \in BOOLEAN /\ budget \in 0..MaxEvents
  /\ unit \in 0..PMax /\ register \in Int
  /\ gridTag \in Int /\ unitTag \in 0..PMax /\ dt \in 1..MaxLag
  /\ integral \in Int /\ requested \in Int \cup {None}
  /\ last \in Int \cup {None} /\ setpoint \in Int
  /\ over \in 0..Window \cup {None} /\ violating \in BOOLEAN
  /\ phase \in {"poll", "execute", "tasks", "idle", "plant"}

(* Whatever was measured, stale or torn, no controller posts a claim that   *)
(* ActivePowerRequest refuses: it would raise in the middle of a cycle and  *)
(* end the control loop.                                                    *)
ClaimsAccepted == \A r \in Requester : board[r] # None => A!IsRequest(board[r])

(* Back-calculation keeps the memory of the PID within MaxMemory, however   *)
(* long the setpoint is held down by the resource, by safety, by ramp,      *)
(* deadband or headroom.                                                    *)
Unwound == integral \in -MaxMemory .. MaxMemory

(* Disturbances being over, the export comes below the limit and stays      *)
(* there, to within the deadband of the arbiter.                            *)
Economic == obeys /\ ~trip

Exported == NonNeg(unit - load)

ComesUnder == <>[](Economic /\ site.mode = "export_limit" => Exported < ExportLimit + Deadband)

(* And the unit comes back to all that the resource offers and the limit    *)
(* allows, to within what deadband and tracking leave: after a cloud, a     *)
(* trip or a stale sample nothing locks it in.  While the site imports more *)
(* than its import limit it is that limit that is aimed for.                *)
Wanted == load - (IF load - unit > site.import THEN site.import ELSE -ExportLimit)

Slack == (Deadband * Beta(1)) \div Ki

(* With an import limit it comes to cover what the site takes beyond that,  *)
(* although the headroom limiter would hold it down.                        *)
Offered ==
  IF site.mode = "export_limit" THEN Least(avail, Least(PMax, Wanted)) - Slack
  ELSE Least(avail, Least(PMax, load - site.import - ImportBand))

Recovers == <>[](Economic => unit >= Offered)

(* The violation flag comes to agree with the plant: a unit that keeps      *)
(* ignoring its setpoint is reported, and one that obeys is not, whatever   *)
(* late samples suggested in between.                                       *)
Flagged == <>[](violating <=> unit > setpoint + Tolerance)

(* Not what the code does for a headroom below the deadband, which nothing  *)
(* refuses: "The floor keeps the unit startable at zero production"         *)
(* (setpoint_headroom.py).                                                  *)
Startable ==
  <>[](Economic /\ site.mode = "export_limit" /\ Least(avail, load + ExportLimit) > Headroom + Slack
         => unit > Headroom)

=============================================================================
