-------------------------- MODULE ControllerClock --------------------------
(***************************************************************************)
(* The controller's clock: the requests of TimeController (ui.py), the     *)
(* settings file, and the helper processes of time_service.py that systemd *)
(* runs as root: one unit each to apply the settings, to set the time an   *)
(* operator entered and to synchronise now, and one the minute timer       *)
(* starts to synchronise when it is due.                                   *)
(*                                                                         *)
(* Times are minutes modulo a day.  A helper may take longer than the 20 s *)
(* a request waits for it, and every command it runs may fail.             *)
(***************************************************************************)
EXTENDS Integers

CONSTANTS
  Caller,     \* the threads of the UI that serve requests
  Zone,        \* time zones
  ZoneOffset,  \* how far each is ahead of UTC
  Day,         \* the minutes of a day
  Entered,     \* the times of day that operators enter
  Off,         \* how far the clock may be ahead at the start
  Found,       \* the settings that an earlier run may have left
  MaxEvents,   \* bound: requests and failures of a behaviour
  Absent

Minute == 0..Day - 1
HelperUnit == {"apply", "manual", "now", "due"}
Kind == {"ntp", "manual", "zone", "now"}
Stage == {"idle", "load", "zone", "auto", "probe", "set"}

(* Normalised settings: each mode keeps what is its own.                    *)
Settings ==
  {s \in [mode : {"ntp", "manual"}, at : Entered \cup {Absent},
          manual : Entered \cup {Absent}, zone : Zone \cup {Absent}] :
     IF s.mode = "ntp" THEN s.at # Absent /\ s.manual = Absent ELSE s.at = Absent}

ASSUME ClockAssumption ==
  /\ Day \in Nat \ {0} /\ MaxEvents \in Nat
  /\ Entered \subseteq Minute /\ Off \subseteq Minute /\ Found \subseteq Settings /\ Found # {}
  /\ Zone # {} /\ ZoneOffset \in [Zone -> Minute]
  /\ Absent \notin Minute \cup Zone \cup Caller

VARIABLES
  \* the operating system
  minute,   \* UTC
  ahead,    \* how far the clock is ahead of it
  zone,     \* its time zone
  auto,     \* whether timesyncd adjusts the clock
  file,     \* time-settings.json
  \* the UI
  lock,     \* TimeController._lock
  place,    \* of each request: idle, or it has read the settings, or it waits
  ask,      \* what it asks for: kind and value
  seen,     \* its local previous
  \* systemd and the helpers
  run,      \* of each unit: the next command of its helper, and its locals
  done,     \* how its last run ended
  \* the model
  stored,   \* history: the file as each request left it
  joined,   \* history: whether it found its unit running
  budget

os == <<minute, ahead, zone, auto>>
callers == <<lock, place, ask, seen>>
helpers == <<run, done>>
history == <<stored, joined>>
clockVars == <<os, file, callers, helpers, history, budget>>

Spend == budget > 0 /\ budget' = budget - 1

Default == [mode |-> "manual", at |-> Absent, manual |-> Absent, zone |-> Absent]
Unasked == [kind |-> "now", value |-> Absent]

(* The locals: the settings, the zone the process began with, and whether   *)
(* the clock was set while its NTP sample was under way.                    *)
Idle == [stage |-> "idle", cfg |-> Default, began |-> Absent, jumped |-> FALSE]
Unknown == [ok |-> FALSE, cfg |-> Default]

ClockInit ==
  /\ minute = 0 /\ ahead \in Off /\ zone \in Zone /\ auto = TRUE
  /\ file \in Found
  /\ lock = Absent
  /\ place = [t \in Caller |-> "idle"] /\ ask = [t \in Caller |-> Unasked]
  /\ seen = [t \in Caller |-> Default]
  /\ run = [u \in HelperUnit |-> Idle] /\ done = [u \in HelperUnit |-> Unknown]
  /\ stored = [t \in Caller |-> Default] /\ joined = [t \in Caller |-> FALSE]
  /\ budget = MaxEvents

-----------------------------------------------------------------------------
(* Requests *)

UnitOf(kind) == CASE kind \in {"ntp", "zone"} -> "apply"
                  [] kind = "manual" -> "manual"
                  [] kind = "now" -> "now"

Values(kind) == CASE kind \in {"ntp", "manual"} -> Entered
                  [] kind = "zone" -> Zone
                  [] kind = "now" -> {Absent}

IdleCallers == {t \in Caller : place[t] = "idle"}

(* The settings are read before the lock is taken.  Synchronising is        *)
(* refused at once in manual mode.  Threads are alike: any free one will do.*)
Begin(t) ==
  /\ IdleCallers # {} /\ t = CHOOSE free \in IdleCallers : TRUE
  /\ Spend
  /\ \E kind \in Kind : \E v \in Values(kind) :
       /\ kind = "now" => file.mode = "ntp"
       /\ ask' = [ask EXCEPT ![t] = [kind |-> kind, value |-> v]]
  /\ seen' = [seen EXCEPT ![t] = file]
  /\ place' = [place EXCEPT ![t] = "read"]
  /\ UNCHANGED <<os, file, lock, helpers, history>>

(* Mutant: the settings are stored as they were merged. *)
MergedOnly(t) ==
  LET was == seen[t]
  IN CASE ask[t].kind = "ntp" -> [was EXCEPT !.mode = "ntp", !.at = ask[t].value]
       [] ask[t].kind = "manual" -> [was EXCEPT !.mode = "manual", !.manual = ask[t].value]
       [] ask[t].kind = "zone" -> [was EXCEPT !.zone = ask[t].value]
       [] ask[t].kind = "now" -> file

(* The settings to be stored, normalised: a mode keeps only what is its own.*)
Merged(t) ==
  CASE ask[t].kind = "ntp" ->
         [mode |-> "ntp", at |-> ask[t].value, manual |-> Absent, zone |-> seen[t].zone]
    [] ask[t].kind = "manual" ->
         [mode |-> "manual", at |-> Absent, manual |-> ask[t].value, zone |-> seen[t].zone]
    [] ask[t].kind = "zone" -> [seen[t] EXCEPT !.zone = ask[t].value]
    [] ask[t].kind = "now" -> file

(* Mutant: the lock covers the file only. *)
AcquiredForFile(t) == lock = Absent /\ lock' = Absent

Acquired(t) == lock = Absent /\ lock' = t

(* Mutant: the lock is kept when the operation failed. *)
LetGoWhenGood(good) == lock' = IF good THEN Absent ELSE lock

LetGo(good) == lock' = Absent

(* Writes the file and starts the unit; a unit that is running already is   *)
(* joined.  Only helpers look at the file between the two, and they may     *)
(* look before or after.                                                    *)
Store(t) ==
  /\ place[t] = "read" /\ Acquired(t)
  /\ file' = Merged(t)
  /\ stored' = [stored EXCEPT ![t] = file']
  /\ LET u == UnitOf(ask[t].kind)
     IN /\ joined' = [joined EXCEPT ![t] = run[u].stage # "idle"]
        /\ run' = [run EXCEPT ![u].stage = IF @ = "idle" THEN "load" ELSE @]
  /\ place' = [place EXCEPT ![t] = "wait"]
  /\ UNCHANGED <<os, ask, seen, done, budget>>

(* A request ends: nothing is left of it.                                   *)
Released(t, good) ==
  /\ LetGo(good)
  /\ place' = [place EXCEPT ![t] = "idle"]
  /\ ask' = [ask EXCEPT ![t] = Unasked] /\ seen' = [seen EXCEPT ![t] = Default]
  /\ stored' = [stored EXCEPT ![t] = Default] /\ joined' = [joined EXCEPT ![t] = FALSE]

(* The file cannot be written, or systemd refuses the unit.                 *)
StoreFails(t) ==
  /\ place[t] = "read" /\ lock = Absent /\ Spend
  /\ file' \in {file, Merged(t)}
  /\ Released(t, FALSE)
  /\ UNCHANGED <<os, helpers>>

Waits(t, u) == place[t] = "wait" /\ u = UnitOf(ask[t].kind)
Running(u) == run[u].stage # "idle"

Acknowledge(t, u) ==
  /\ Waits(t, u) /\ ~Running(u)
  /\ Released(t, done[u].ok)
  /\ done' = [done EXCEPT ![u] = Unknown]
  /\ UNCHANGED <<os, file, run, budget>>

(* Twenty seconds are over; the helper runs on.                             *)
Abandon(t, u) ==
  /\ Waits(t, u) /\ Running(u)
  /\ Released(t, FALSE)
  /\ UNCHANGED <<os, file, helpers, budget>>

-----------------------------------------------------------------------------
(* Helpers *)

Synchronises(u) == u \in {"now", "due"}

Local == (minute + ahead + ZoneOffset[zone]) % Day

To(u, stage) == run' = [run EXCEPT ![u].stage = stage] /\ UNCHANGED done

(* How it ended is known to the request that waits for it.                  *)
Outcome(u, ok) ==
  done' = IF \E t \in Caller : Waits(t, u)
          THEN [done EXCEPT ![u] = [ok |-> ok, cfg |-> run[u].cfg]] ELSE done

End(u, ok) == run' = [run EXCEPT ![u] = Idle] /\ Outcome(u, ok)

Due(settings) == Local = settings.at

(* The settings and, in synchronize, the local time are read; what is not   *)
(* to be done ends here.                                                    *)
Load(u) ==
  /\ run[u].stage = "load"
  /\ IF Synchronises(u) /\ (file.mode # "ntp" \/ (u = "due" /\ ~Due(file)))
     THEN End(u, TRUE)
     ELSE /\ run' = [run EXCEPT ![u] = [Idle EXCEPT !.stage = "zone", !.cfg = file, !.began = zone]]
          /\ UNCHANGED done
  /\ UNCHANGED <<os, file, callers, history, budget>>

(* Mutant: the zone is left to the apply unit. *)
ZoneForApply(u) == IF u = "apply" /\ run[u].cfg.zone # Absent THEN run[u].cfg.zone ELSE zone

ZoneFor(u) == IF run[u].cfg.zone # Absent THEN run[u].cfg.zone ELSE zone

ApplyZone(u) ==
  /\ run[u].stage = "zone"
  /\ zone' = ZoneFor(u)
  /\ To(u, "auto")
  /\ UNCHANGED <<minute, ahead, auto, file, callers, history, budget>>

StopAuto(u) ==
  /\ run[u].stage = "auto"
  /\ auto' = FALSE
  /\ CASE u = "apply" -> End(u, TRUE)
       [] u = "manual" -> IF run[u].cfg.manual = Absent THEN End(u, FALSE) ELSE To(u, "set")
       [] OTHER -> To(u, "probe")
  /\ UNCHANGED <<minute, ahead, zone, file, callers, history, budget>>

Jumped == [u \in HelperUnit |-> [run[u] EXCEPT !.jumped = @ \/ run[u].stage = "probe"]]

Set(u, lead) ==
  /\ ahead' = lead % Day
  /\ run' = [Jumped EXCEPT ![u] = Idle] /\ Outcome(u, TRUE)
  /\ UNCHANGED <<minute, zone, auto, file, callers, history, budget>>

(* timedatectl set-time takes local time: what was entered is set as it is. *)
SetEntered(u) ==
  run[u].stage = "set" /\ Set(u, run[u].cfg.manual - ZoneOffset[zone] - minute)

(* The sample is computed from the clock's readings before and after the    *)
(* query: set in between, the clock spoils it.  It is formatted by a        *)
(* process whose C library may still go by the zone it began with.          *)
SetSampled(u) ==
  /\ run[u].stage = "probe"
  /\ \E error \in IF run[u].jumped THEN Minute ELSE {0} : \E z \in {run[u].began, zone} :
       Set(u, error + ZoneOffset[z] - ZoneOffset[zone])

(* A command fails, or the server does not answer.                          *)
CommandFails(u) ==
  /\ run[u].stage \in {"zone", "auto", "probe", "set"} /\ Spend
  /\ End(u, FALSE)
  /\ UNCHANGED <<os, file, callers, history>>

-----------------------------------------------------------------------------
(* The minute timer.  A helper it starts reads the clock within the minute, *)
(* and a sample is taken and set within one.                                *)
Tick ==
  /\ run["due"].stage # "load"
  /\ \A u \in HelperUnit : run[u].stage # "probe"
  /\ minute' = (minute + 1) % Day
  /\ run' = [run EXCEPT !["due"].stage = IF @ = "idle" THEN "load" ELSE @]
  /\ UNCHANGED <<ahead, zone, auto, file, callers, done, history, budget>>

(* timesyncd *)
Adjust ==
  /\ auto /\ ahead # 0 /\ ahead' = 0
  /\ run' = Jumped
  /\ UNCHANGED <<minute, zone, auto, file, callers, done, history, budget>>

Serve(t) == Store(t) \/ StoreFails(t) \/ \E u \in HelperUnit : Acknowledge(t, u) \/ Abandon(t, u)

Help(u) ==
  Load(u) \/ ApplyZone(u) \/ StopAuto(u) \/ SetEntered(u) \/ SetSampled(u) \/ CommandFails(u)

ClockNext ==
  \/ \E t \in Caller : Begin(t) \/ Serve(t)
  \/ \E u \in HelperUnit : Help(u)
  \/ Tick \/ Adjust

(* Helpers and the threads of the UI move on when they can, and time        *)
(* passes.  Which of the threads that wait for the lock gets it is open.    *)
Fairness ==
  /\ WF_clockVars(\E t \in Caller : Serve(t))
  /\ \A u \in HelperUnit : WF_clockVars(Help(u))
  /\ WF_clockVars(Tick)

ClockSpec == ClockInit /\ [][ClockNext]_clockVars /\ Fairness

-----------------------------------------------------------------------------
(* Properties *)

(* Every variable has its type, and the lock is held exactly by the request *)
(* that waits for a unit.                                                   *)
ClockTypeOK ==
  /\ minute \in Minute /\ ahead \in Minute /\ zone \in Zone /\ auto \in BOOLEAN
  /\ file \in Settings
  /\ lock \in Caller \cup {Absent}
  /\ place \in [Caller -> {"idle", "read", "wait"}]
  /\ ask \in [Caller -> [kind : Kind, value : Minute \cup Zone \cup {Absent}]]
  /\ seen \in [Caller -> Settings]
  /\ run \in [HelperUnit -> [stage : Stage, cfg : Settings, began : Zone \cup {Absent},
                       jumped : BOOLEAN]]
  /\ done \in [HelperUnit -> [ok : BOOLEAN, cfg : Settings]]
  /\ stored \in [Caller -> Settings] /\ joined \in [Caller -> BOOLEAN]
  /\ budget \in 0..MaxEvents
  /\ \A t \in Caller : place[t] = "wait" <=> lock = t

(* A request that is answered with success, and whose unit was not running  *)
(* on for a request that gave up, had its unit run with the very settings   *)
(* it stored, however many requests overlap.                                *)
Acknowledges(t, u) == Waits(t, u) /\ place'[t] = "idle" /\ ~Running(u) /\ done[u].ok

AppliedAsStored ==
  [][\A t \in Caller, u \in HelperUnit :
       Acknowledges(t, u) /\ u # "now" /\ ~joined[t] => done[u].cfg = stored[t]]_clockVars

(* Requests are all answered, however long the helpers take and whatever    *)
(* fails: none is left waiting for the lock or for a unit.                  *)
RequestsEnd == <>[](\A t \in Caller : place[t] = "idle")

(* Once an NTP schedule stands and failures are over, the clock comes to    *)
(* the right time in the stored zone and stays there: over a clock that was *)
(* set wrong, past the minute that is due or back before it, by hand, by    *)
(* two helpers at a time or by a spoilt sample, and over a zone that could  *)
(* not be applied when it was stored.                                       *)
KeepsTime ==
  <>[](file.mode = "ntp" =>
         ahead = 0 /\ ~auto /\ (file.zone # Absent => zone = file.zone))

=============================================================================
