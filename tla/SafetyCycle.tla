---------------------------- MODULE SafetyCycle -----------------------------
(***************************************************************************)
(* The scan cycle of the scheduler (scheduler.py) around the priority-0    *)
(* interlock (controllers/safety.py): the control thread reads the ages    *)
(* and measurements the I/O worker left in CachedDriver, trips or releases *)
(* the interlock, and publishes a setpoint that the worker flushes.  The   *)
(* process dies when the interlock raises, when the worker is dead or when *)
(* it is killed, and its supervisor starts it again; nothing of its memory *)
(* survives, the devices' registers do.                                    *)
(*                                                                         *)
(* Time is counted in ticks; every age stops at the first value over its   *)
(* limit, which also stands for an age without a first good read or write. *)
(* Requesters below the interlock, and what the allocator makes of them,   *)
(* are the one setpoint "economic"; Allocation shows that a priority-0     *)
(* claim gets its exact value in one resolution.                           *)
(***************************************************************************)
EXTENDS Integers

CONSTANTS
  Device,       \* the devices of the site
  Meter,        \* the device whose measurement the freeze guard watches
  Limit,        \* per device: max_comms_age_s or its tighter device_comms_max_age_s
  MaxWriteAge,  \* max_write_age_s
  MaxFrozen,    \* max_measurement_frozen_s
  Rewrite,      \* setpoint_rewrite_s
  Cycle,        \* the shortest distance of two cycles, fast_cycle_s
  MaxCycle,     \* bound: the longest one, with overruns
  MaxPass,      \* bound: the longest pass of the worker
  Settle,       \* how long after a disturbance the interlock may still trip
  None

ASSUME SafetyCycleAssumption ==
  /\ Meter \in Device
  /\ Limit \in [Device -> Nat]
  /\ MaxWriteAge \in Nat /\ MaxFrozen \in Nat /\ Rewrite \in Nat
  /\ Cycle \in Nat /\ MaxCycle \in Nat /\ Cycle <= MaxCycle
  /\ MaxPass \in Nat /\ Settle \in Nat
  /\ None \notin {"safe", "economic", "raised", "cleared", 0, 1}

VARIABLES
  up,        \* whether the EMS process runs
  worker,    \* whether its thread modbus-io is alive
  elapsed,   \* ticks since the cycle began
  mid,       \* between the tasks of a cycle and its output
  ran,       \* whether the tasks ran in the last cycle (Task._next_run)
  claim,     \* whether the interlock's claims stand on the board
  safeMode,  \* sys.safe_mode
  tripped,   \* SafetyController._tripped
  seen,      \* the watched value as last recorded (_last_change)
  frozenFor, \* ticks since then
  active,    \* whether EventJournal holds safety.trip as active
  line,      \* the last line this run appended to the journal
  published, \* the setpoint in CachedDriver's cache
  pass,      \* ticks since the worker's last pass
  age,       \* per device: ticks since its last good read
  writeAge,  \* ticks since the last good flush
  cached,    \* the watched measurement in CachedDriver's cache
  register,  \* the setpoint in the device
  answering, \* per device: whether it answers reads
  writable,  \* whether writes get through
  journalOk, \* whether the journal file can be appended to
  steady,    \* history: ticks for which the cached measurement has not changed
  overdue,   \* history: ticks for which a guard has been over its limit
  calm       \* history: ticks since the last disturbance

interlock == <<claim, safeMode, tripped, seen, frozenFor>>
journal   == <<active, line>>
control   == <<elapsed, mid, ran, interlock, journal, published>>
cache     == <<pass, age, writeAge, cached>>
plant     == <<answering, writable, journalOk>>
history   == <<steady, overdue, calm>>
vars      == <<up, worker, control, cache, register, plant, history>>

(* How long after a limit is passed the safe setpoint may take: the cycle   *)
(* under way, one that skips its tasks, and the output of the next.         *)
Reaction == 3 * MaxCycle

Older(a, limit) == IF a <= limit THEN a + 1 ELSE a
Upto(n, bound)  == IF n < bound THEN n + 1 ELSE n
Never == [d \in Device |-> Limit[d] + 1]

(* A guard is over its limit; the freeze guard is given the time in which   *)
(* it first sees a value.                                                   *)
OverLimit(ages, writes, still) ==
  \/ \E d \in Device : ages[d] > Limit[d]
  \/ writes > MaxWriteAge
  \/ still > MaxFrozen + 2 * MaxCycle

Healthy == writable /\ \A d \in Device : answering[d]

Init ==
  /\ up = FALSE /\ worker = FALSE
  /\ elapsed = 0 /\ mid = FALSE /\ ran = FALSE
  /\ claim = FALSE /\ safeMode = 0 /\ tripped = FALSE
  /\ seen = None /\ frozenFor = 0
  /\ active = FALSE /\ line = None
  /\ published = None
  /\ pass = 0 /\ age = Never /\ writeAge = MaxWriteAge + 1 /\ cached = 0
  /\ register = None
  /\ answering = [d \in Device |-> TRUE] /\ writable = TRUE /\ journalOk = TRUE
  /\ steady = 0 /\ overdue = 0 /\ calm = 0

-----------------------------------------------------------------------------
(* The life of the process *)

(* build_ems and the start of run: the worker is started before anything    *)
(* else, the first cycle follows at once.                                   *)
StartEms ==
  /\ ~up
  /\ up' = TRUE /\ worker' = TRUE
  /\ elapsed' = Cycle
  /\ UNCHANGED <<mid, ran, interlock, journal, published, cache, register, plant, history>>

(* The process ends; what it held in memory is gone. *)
Down ==
  /\ up' = FALSE /\ worker' = FALSE
  /\ elapsed' = 0 /\ mid' = FALSE /\ ran' = FALSE
  /\ claim' = FALSE /\ safeMode' = 0 /\ tripped' = FALSE
  /\ seen' = None /\ frozenFor' = 0
  /\ active' = FALSE /\ line' = None
  /\ published' = None
  /\ pass' = 0 /\ age' = Never /\ writeAge' = MaxWriteAge + 1 /\ cached' = 0
  /\ steady' = 0 /\ overdue' = 0 /\ calm' = 0
  /\ UNCHANGED <<register, plant>>

(* Killed, stopped by an operator, or without power. *)
Killed == up /\ Down

(* A bug ends the worker thread; the process goes on for now. *)
WorkerDies ==
  /\ worker
  /\ worker' = FALSE
  /\ UNCHANGED <<up, control, cache, register, plant, history>>

-----------------------------------------------------------------------------
(* The control thread: Scheduler.step *)

(* Mutant: a value is recorded whether it changed or not. *)
RecordAlways ==
  /\ seen' = cached
  /\ frozenFor' = 0

(* _frozen_measurements: a value is recorded at first sight and when it     *)
(* changes.                                                                 *)
Record ==
  \/ /\ cached # seen
     /\ seen' = cached /\ frozenFor' = 0
  \/ /\ cached = seen
     /\ UNCHANGED <<seen, frozenFor>>

Frozen == cached = seen /\ frozenFor > MaxFrozen

(* Mutant: an age at its limit is a fault. *)
FaultAtLimit == (\E d \in Device : age[d] >= Limit[d]) \/ writeAge > MaxWriteAge \/ Frozen

(* The preconditions of the interlock; every age comes from the cache. *)
Fault == (\E d \in Device : age[d] > Limit[d]) \/ writeAge > MaxWriteAge \/ Frozen

(* raise_alarm latches, then appends; clear releases, then appends.  An     *)
(* append that fails raises out of the priority-0 task and ends the         *)
(* process, before the setpoint of the cycle is written.                    *)
Trip ==
  /\ Fault
  /\ \/ /\ tripped
        /\ UNCHANGED journal
     \/ /\ ~tripped /\ journalOk
        /\ active' = TRUE /\ line' = "raised"
  /\ claim' = TRUE /\ safeMode' = 1 /\ tripped' = TRUE

(* Mutant: the claims stay on the board. *)
ReleaseKeepsClaim ==
  /\ ~Fault
  /\ \/ /\ ~tripped
        /\ UNCHANGED journal
     \/ /\ tripped /\ journalOk
        /\ active' = FALSE /\ line' = "cleared"
  /\ safeMode' = 0 /\ tripped' = FALSE
  /\ UNCHANGED claim

Release ==
  /\ ~Fault
  /\ \/ /\ ~tripped
        /\ UNCHANGED journal
     \/ /\ tripped /\ journalOk
        /\ active' = FALSE /\ line' = "cleared"
  /\ claim' = FALSE /\ safeMode' = 0 /\ tripped' = FALSE

(* The cycle goes on to its output. *)
Alive == /\ elapsed' = 0 /\ mid' = TRUE
         /\ UNCHANGED <<up, worker, published, cache, register, plant, history>>

ReadState == up /\ ~mid /\ elapsed >= Cycle /\ worker

(* A cycle whose tasks are due. *)
Execute ==
  /\ ReadState
  /\ Record
  /\ Trip \/ Release
  /\ ran' = TRUE
  /\ Alive

(* Jitter makes a cycle begin just before the tasks are due; they run in    *)
(* the next one.                                                            *)
Skip ==
  /\ ReadState
  /\ ran
  /\ ran' = FALSE
  /\ UNCHANGED <<interlock, journal>>
  /\ Alive

(* The journal fails when the interlock trips or releases. *)
AbortInJournal ==
  /\ ReadState
  /\ ~journalOk /\ Fault # tripped
  /\ Down

(* read_state raises when the worker is dead. *)
AbortOnDeadWorker ==
  /\ up /\ ~mid /\ elapsed >= Cycle
  /\ ~worker
  /\ Down

(* Mutant: the pin of an earlier cycle has expired on the board. *)
ResolvedPinExpires == IF claim /\ ran THEN "safe" ELSE "economic"
Resolved == IF claim THEN "safe" ELSE "economic"

(* resolve and write_setpoints; the allocator's own warning goes through    *)
(* the journal too.                                                         *)
Publish ==
  /\ mid
  /\ \/ /\ published' = Resolved
        /\ mid' = FALSE
        /\ UNCHANGED <<up, worker, elapsed, ran, interlock, journal, cache, register, plant, history>>
     \/ /\ ~journalOk
        /\ Down

-----------------------------------------------------------------------------
(* The worker, time and the surroundings *)

(* Mutant: no keep-alive. *)
FlushDueOnChange == published # None /\ published # register
FlushDue == published # None /\ (published # register \/ writeAge >= Rewrite)

(* One pass of the worker: it flushes, then reads every device that answers; *)
(* the meter may or may not show the value it showed before.                *)
Pass ==
  /\ up /\ worker /\ pass > 0
  /\ pass' = 0
  /\ \/ /\ writable /\ FlushDue
        /\ register' = published /\ writeAge' = 0
     \/ /\ ~(writable /\ FlushDue)
        /\ UNCHANGED <<register, writeAge>>
  /\ age' = [d \in Device |-> IF answering[d] THEN 0 ELSE age[d]]
  /\ cached' \in IF answering[Meter] THEN {0, 1} ELSE {cached}
  /\ steady' = IF cached' = cached THEN steady ELSE 0
  /\ overdue' = IF OverLimit(age', writeAge', steady') THEN overdue ELSE 0
  /\ UNCHANGED <<up, worker, control, plant, calm>>

Tick ==
  /\ up => elapsed < MaxCycle /\ (worker => pass < MaxPass)
  /\ elapsed' = IF up THEN elapsed + 1 ELSE 0
  /\ pass' = IF up THEN Upto(pass, MaxPass) ELSE 0
  /\ frozenFor' = IF up THEN Older(frozenFor, MaxFrozen) ELSE 0
  /\ age' = [d \in Device |-> Older(age[d], Limit[d])]
  /\ writeAge' = Older(writeAge, MaxWriteAge)
  /\ steady' = IF up THEN Older(steady, MaxFrozen + 2 * MaxCycle) ELSE 0
  /\ overdue' = IF up /\ OverLimit(age', writeAge', steady') THEN Upto(overdue, Reaction + 1) ELSE 0
  /\ calm' = IF up /\ worker /\ Healthy THEN Upto(calm, Settle) ELSE 0
  /\ UNCHANGED <<up, worker, mid, ran, claim, safeMode, tripped, seen, journal, published,
                 cached, register, plant>>

BusChanges ==
  /\ \/ /\ \E d \in Device : answering' = [answering EXCEPT ![d] = ~@]
        /\ UNCHANGED writable
     \/ /\ writable' = ~writable
        /\ UNCHANGED answering
  /\ calm' = 0
  /\ UNCHANGED <<up, worker, control, cache, register, journalOk, steady, overdue>>

DiskChanges ==
  /\ journalOk' = ~journalOk
  /\ UNCHANGED <<up, worker, control, cache, register, answering, writable, history>>

Scheduler == Execute \/ Skip \/ AbortInJournal \/ AbortOnDeadWorker \/ Publish

Next ==
  \/ StartEms \/ Killed \/ WorkerDies
  \/ Scheduler
  \/ Pass \/ Tick \/ BusChanges \/ DiskChanges

(* Both threads run, time passes and the supervisor restarts the process.   *)
Spec ==
  /\ Init /\ [][Next]_vars
  /\ WF_vars(Scheduler) /\ WF_vars(Pass) /\ WF_vars(Tick) /\ WF_vars(StartEms)

-----------------------------------------------------------------------------
(* Properties *)

(* Types; a process that is down holds nothing in memory.                   *)
TypeOK ==
  /\ up \in BOOLEAN /\ worker \in BOOLEAN /\ mid \in BOOLEAN /\ ran \in BOOLEAN
  /\ elapsed \in 0..MaxCycle /\ pass \in 0..MaxPass
  /\ claim \in BOOLEAN /\ safeMode \in {0, 1} /\ tripped \in BOOLEAN
  /\ seen \in {0, 1, None} /\ frozenFor \in 0..(MaxFrozen + 1)
  /\ active \in BOOLEAN /\ line \in {"raised", "cleared", None}
  /\ published \in {"safe", "economic", None} /\ register \in {"safe", "economic", None}
  /\ age \in [Device -> Nat] /\ \A d \in Device : age[d] <= Limit[d] + 1
  /\ writeAge \in 0..(MaxWriteAge + 1)
  /\ cached \in {0, 1}
  /\ answering \in [Device -> BOOLEAN] /\ writable \in BOOLEAN /\ journalOk \in BOOLEAN
  /\ steady \in 0..(MaxFrozen + 2 * MaxCycle + 1)
  /\ overdue \in 0..(Reaction + 1)
  /\ calm \in 0..Settle
  /\ ~up => /\ ~worker /\ ~mid /\ ~claim /\ ~tripped /\ ~active
            /\ published = None /\ age = Never

(* Whatever a guard watches, a site that has been over its limit for the    *)
(* reaction time is not driven by an economic setpoint, through overruns,   *)
(* skipped tasks, failing writes and restarts of the process.               *)
Caught == overdue > Reaction => published # "economic"

(* The claim on the board, the status word, the interlock's own memory, the *)
(* alarm banner and the last line this run wrote to the journal agree,      *)
(* whenever the control thread is not in the middle of them.                *)
InterlockAgrees ==
  /\ claim = tripped /\ tripped = active
  /\ safeMode = IF tripped THEN 1 ELSE 0
  /\ tripped => line = "raised"
  /\ ~tripped => line # "raised"

(* A trip has a cause: on a bus that has worked for the settling time, only *)
(* a measurement that stands still trips the interlock.                     *)
TripHasCause == [][~tripped /\ tripped' => calm < Settle \/ frozenFor > MaxFrozen]_vars

(* From some point on the bus and the disk stay as they are and the process *)
(* ends, if it does, by itself.                                             *)
Undisturbed ==
  <>[][~(WorkerDies \/ BusChanges \/ DiskChanges) /\ (Killed => Scheduler)]_vars

(* A device that stays silent gets the unit to the safe setpoint for good,  *)
(* with writes and the journal working.                                     *)
TripLands ==
  Undisturbed /\ <>[](writable /\ journalOk /\ \E d \in Device : ~answering[d])
    => <>[](register = "safe")

(* When everything works again the interlock lets go and the alarm clears.  *)
Releases ==
  Undisturbed /\ <>[](Healthy /\ journalOk /\ frozenFor <= MaxFrozen)
    => <>[](register = "economic" /\ ~active)

-----------------------------------------------------------------------------
(* What the code's own comments say and the code does not do *)

(* "the safe value lands exactly, in one cycle": a device that stays silent *)
(* gets the unit to the safe setpoint whatever becomes of the journal.      *)
AlwaysLands ==
  Undisturbed /\ <>[](writable /\ \E d \in Device : ~answering[d]) => <>[](register = "safe")

=============================================================================
