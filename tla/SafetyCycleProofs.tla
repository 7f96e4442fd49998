------------------------- MODULE SafetyCycleProofs --------------------------
(***************************************************************************)
(* Proofs about SafetyCycle, for any devices, limits and cycle lengths:    *)
(* types, the agreement of the interlock's four records of itself, the     *)
(* bound on how long an economic setpoint may outlive a guard that is over *)
(* its limit, and that no trip comes without a cause.                      *)
(***************************************************************************)
EXTENDS SafetyCycle, TLAPS

(* How long the control thread may not have looked at the cache: since the  *)
(* cycle began, and one more if that one skipped its tasks.                 *)
Unseen == IF ran THEN elapsed ELSE MaxCycle + elapsed

(* A process that is down counts nothing.                                   *)
DownCounts == ~up => elapsed = 0 /\ steady = 0 /\ overdue = 0

(* Only a guard that is over its limit counts as overdue.                   *)
OverdueMeans == overdue > 0 => OverLimit(age, writeAge, steady)

(* The interlock's own clock lags behind the meter's by two cycles at most. *)
FreezeLag ==
  /\ cached # seen => steady <= Unseen
  /\ cached = seen => frozenFor > MaxFrozen \/ frozenFor + 2 * MaxCycle >= steady

(* What was not claimed yet is as old as the last look at most.             *)
Unclaimed == ~claim => overdue <= Unseen

(* A claim the output has not followed yet is one of this very cycle.       *)
Underway == claim /\ published = "economic" => mid /\ ran /\ overdue <= 2 * MaxCycle + elapsed

Deadline == DownCounts /\ OverdueMeans /\ FreezeLag /\ Unclaimed /\ Underway

USE DEF interlock, journal, control, cache, plant, history

-----------------------------------------------------------------------------
(* The type invariant in parts, by the provers that can handle them.        *)
Flags ==
  /\ up \in BOOLEAN /\ worker \in BOOLEAN /\ mid \in BOOLEAN /\ ran \in BOOLEAN
  /\ claim \in BOOLEAN /\ tripped \in BOOLEAN /\ active \in BOOLEAN
  /\ writable \in BOOLEAN /\ journalOk \in BOOLEAN
Values ==
  /\ seen \in {0, 1, None} /\ cached \in {0, 1} /\ safeMode \in {0, 1}
  /\ line \in {"raised", "cleared", None}
  /\ published \in {"safe", "economic", None} /\ register \in {"safe", "economic", None}
Counters ==
  /\ elapsed \in 0..MaxCycle /\ pass \in 0..MaxPass
  /\ frozenFor \in 0..(MaxFrozen + 1) /\ writeAge \in 0..(MaxWriteAge + 1)
  /\ steady \in 0..(MaxFrozen + 2 * MaxCycle + 1)
  /\ overdue \in 0..(Reaction + 1) /\ calm \in 0..Settle
Ages ==
  /\ age \in [Device -> Nat] /\ \A d \in Device : age[d] <= Limit[d] + 1
  /\ answering \in [Device -> BOOLEAN]
Emptied ==
  ~up => /\ ~worker /\ ~mid /\ ~claim /\ ~tripped /\ ~active
         /\ published = None /\ age = Never

LEMMA TypeParts == TypeOK <=> Flags /\ Values /\ Counters /\ Ages /\ Emptied
BY Zenon DEF TypeOK, Flags, Values, Counters, Ages, Emptied

(* The parts of the type invariant under each step.                         *)
LEMMA FlagsStep == TypeOK /\ [Next]_vars => Flags'
<1> SUFFICES ASSUME Flags, [Next]_vars PROVE Flags'
  BY TypeParts
<1> USE DEF Flags
<1>0. CASE Down
  BY <1>0, Zenon DEF Down
<1>1. CASE StartEms
  BY <1>1, Zenon DEF StartEms
<1>2. CASE WorkerDies
  BY <1>2, Zenon DEF WorkerDies
<1>3. CASE Execute \/ Skip
  <2>1. claim' \in BOOLEAN /\ tripped' \in BOOLEAN /\ active' \in BOOLEAN
    BY <1>3, Zenon DEF Execute, Skip, Trip, Release, Alive
  <2> QED
    BY <1>3, <2>1, Zenon DEF Execute, Skip, Alive
<1>4. CASE Publish /\ ~Down
  BY <1>4, Zenon DEF Publish
<1>5. CASE Pass
  BY <1>5, Zenon DEF Pass
<1>6. CASE Tick
  BY <1>6, Zenon DEF Tick
<1>7. CASE BusChanges
  BY <1>7, Zenon DEF BusChanges
<1>8. CASE DiskChanges
  BY <1>8, Zenon DEF DiskChanges
<1>9. CASE UNCHANGED vars
  BY <1>9, Zenon DEF vars
<1> QED
  BY <1>0, <1>1, <1>2, <1>3, <1>4, <1>5, <1>6, <1>7, <1>8, <1>9, Zenon
  DEF Next, Scheduler, Killed, AbortInJournal, AbortOnDeadWorker

LEMMA ValuesStep == TypeOK /\ [Next]_vars => Values'
<1> SUFFICES ASSUME Values, [Next]_vars PROVE Values'
  BY TypeParts
<1> USE DEF Values
<1>0. CASE Down
  BY <1>0, Zenon DEF Down
<1>1. CASE StartEms \/ WorkerDies \/ BusChanges \/ DiskChanges
  BY <1>1, Zenon DEF StartEms, WorkerDies, BusChanges, DiskChanges
<1>2. CASE Execute \/ Skip
  BY <1>2, Zenon DEF Execute, Skip, Record, Trip, Release, Alive
<1>3. CASE Publish /\ ~Down
  BY <1>3, Zenon DEF Publish, Resolved
<1>4. CASE Pass
  <2>1. cached' \in {0, 1}
    BY <1>4 DEF Pass
  <2> QED
    BY <1>4, <2>1, Zenon DEF Pass
<1>5. CASE Tick
  BY <1>5, Zenon DEF Tick
<1>6. CASE UNCHANGED vars
  BY <1>6, Zenon DEF vars
<1> QED
  BY <1>0, <1>1, <1>2, <1>3, <1>4, <1>5, <1>6, Zenon
  DEF Next, Scheduler, Killed, AbortInJournal, AbortOnDeadWorker

LEMMA CountersStep == TypeOK /\ [Next]_vars => Counters'
<1> SUFFICES ASSUME Counters, [Next]_vars PROVE Counters'
  BY TypeParts
<1> USE SafetyCycleAssumption DEF Counters, Reaction
<1>0. CASE Down
  BY <1>0 DEF Down
<1>1. CASE StartEms \/ WorkerDies \/ BusChanges \/ DiskChanges
  BY <1>1 DEF StartEms, WorkerDies, BusChanges, DiskChanges
<1>2. CASE Execute \/ Skip
  <2>1. frozenFor' \in 0..(MaxFrozen + 1)
    BY <1>2 DEF Execute, Skip, Record
  <2>2. elapsed' = 0 /\ UNCHANGED <<pass, writeAge, steady, overdue, calm>>
    BY <1>2 DEF Execute, Skip, Alive
  <2> QED
    BY <2>1, <2>2
<1>3. CASE Publish /\ ~Down
  BY <1>3 DEF Publish
<1>4. CASE Pass
  <2>1. pass' = 0 /\ writeAge' \in {0, writeAge} /\ steady' \in {0, steady}
        /\ overdue' \in {0, overdue} /\ UNCHANGED <<elapsed, frozenFor, calm>>
    BY <1>4 DEF Pass
  <2> QED
    BY <2>1
<1>5. CASE Tick
  <2>1. elapsed' \in 0..MaxCycle
    BY <1>5 DEF Tick
  <2>2. pass' \in 0..MaxPass /\ calm' \in 0..Settle
    BY <1>5 DEF Tick, Upto
  <2>3. frozenFor' \in 0..(MaxFrozen + 1) /\ writeAge' \in 0..(MaxWriteAge + 1)
    BY <1>5 DEF Tick, Older
  <2>4. steady' \in 0..(MaxFrozen + 2 * MaxCycle + 1)
    BY <1>5 DEF Tick, Older
  <2>5. overdue' \in 0..(Reaction + 1)
    BY <1>5 DEF Tick, Upto
  <2> QED
    BY <2>1, <2>2, <2>3, <2>4, <2>5
<1>6. CASE UNCHANGED vars
  BY <1>6 DEF vars
<1> HIDE DEF Counters
<1> QED
  BY <1>0, <1>1, <1>2, <1>3, <1>4, <1>5, <1>6, Zenon
  DEF Next, Scheduler, Killed, AbortInJournal, AbortOnDeadWorker

LEMMA AgesStep == TypeOK /\ [Next]_vars => Ages'
<1> SUFFICES ASSUME Ages, [Next]_vars PROVE Ages'
  BY TypeParts
<1> USE SafetyCycleAssumption DEF Ages
<1>0. CASE Down
  BY <1>0 DEF Down, Never
<1>1. CASE UNCHANGED <<age, answering>>
  BY <1>1
<1>2. CASE Pass
  BY <1>2 DEF Pass
<1>3. CASE Tick
  <2>1. \A d \in Device : Older(age[d], Limit[d]) \in Nat /\ Older(age[d], Limit[d]) <= Limit[d] + 1
    BY DEF Older
  <2>2. age' = [d \in Device |-> Older(age[d], Limit[d])] /\ answering' = answering
    BY <1>3 DEF Tick
  <2> QED
    BY <2>1, <2>2
<1>4. CASE BusChanges
  BY <1>4 DEF BusChanges
<1>5. ~Down /\ ~Pass /\ ~Tick /\ ~BusChanges => UNCHANGED <<age, answering>>
  BY Zenon DEF Next, Scheduler, Killed, AbortInJournal, AbortOnDeadWorker, StartEms, WorkerDies,
           DiskChanges, Execute, Skip, Alive, Publish, vars
<1> HIDE DEF Ages
<1> QED
  BY <1>0, <1>1, <1>2, <1>3, <1>4, <1>5, Zenon

LEMMA EmptiedStep == TypeOK /\ [Next]_vars => Emptied'
<1> SUFFICES ASSUME Ages, Emptied, [Next]_vars PROVE Emptied'
  BY TypeParts
<1> USE DEF Emptied
<1>0. CASE Down
  BY <1>0, Zenon DEF Down, Never
<1>1. CASE StartEms \/ Execute \/ Skip \/ (Publish /\ ~Down) \/ Pass
  <2>1. up' = TRUE
    BY <1>1, Zenon DEF StartEms, Execute, Skip, Alive, ReadState, Publish, Pass, Flags, Emptied
  <2> QED
    BY <2>1, Zenon
<1>2. CASE WorkerDies \/ BusChanges \/ DiskChanges \/ UNCHANGED vars
  BY <1>2, Zenon DEF WorkerDies, BusChanges, DiskChanges, vars, Never
<1>3. CASE Tick
  <2>1. ASSUME ~up PROVE age' = Never
    <3>1. \A d \in Device : Older(Never[d], Limit[d]) = Limit[d] + 1
      BY SafetyCycleAssumption DEF Never, Older
    <3>2. age' = [d \in Device |-> Older(Never[d], Limit[d])]
      BY <1>3, <2>1, Zenon DEF Tick
    <3> QED
      BY <3>1, <3>2 DEF Never
  <2> QED
    BY <1>3, <2>1, Zenon DEF Tick, Never
<1> HIDE DEF Emptied
<1> QED
  BY <1>0, <1>1, <1>2, <1>3, Zenon
  DEF Next, Scheduler, Killed, AbortInJournal, AbortOnDeadWorker

(* The process starts with nothing.                                         *)
LEMMA TypeInit == Init => TypeOK
<1> SUFFICES ASSUME Init PROVE Flags /\ Values /\ Counters /\ Ages /\ Emptied
  BY TypeParts
<1>1. Flags /\ Values
  BY Zenon DEF Init, Flags, Values
<1>2. Counters
  BY SafetyCycleAssumption DEF Init, Counters, Reaction
<1>3. Ages
  BY SafetyCycleAssumption DEF Init, Ages, Never
<1>4. Emptied
  BY Zenon DEF Init, Emptied
<1> QED
  BY <1>1, <1>2, <1>3, <1>4

LEMMA TypeStep == TypeOK /\ [Next]_vars => TypeOK'
<1> SUFFICES ASSUME TypeOK, [Next]_vars PROVE TypeOK'
  OBVIOUS
<1>1. Flags' /\ Values' /\ Counters' /\ Ages' /\ Emptied'
  BY FlagsStep, ValuesStep, CountersStep, AgesStep, EmptiedStep
<1> QED
  BY <1>1, TypeParts, PTL

(* SafetyController, CachedDriver and EventJournal hold values of their     *)
(* types in every state, and nothing while the process is down.             *)
THEOREM TypeCorrect == Spec => []TypeOK
<1> QED
  BY TypeInit, TypeStep, PTL DEF Spec

-----------------------------------------------------------------------------
(* The four records of the interlock                                        *)

(* Only a cycle's tasks and the end of the process change them.             *)
LEMMA AgreesStep == TypeOK /\ InterlockAgrees /\ [Next]_vars => InterlockAgrees'
<1> SUFFICES ASSUME TypeOK, InterlockAgrees, [Next]_vars PROVE InterlockAgrees'
  OBVIOUS
<1> USE DEF InterlockAgrees
<1>1. CASE Down
  BY <1>1, SafetyCycleAssumption DEF Down
<1>2. CASE Execute
  <2>0. claim \in BOOLEAN /\ tripped \in BOOLEAN /\ active \in BOOLEAN
    BY TypeParts, Zenon DEF Flags
  <2>1. CASE Trip
    <3>1. claim' = TRUE /\ tripped' = TRUE /\ safeMode' = 1
      BY <2>1, Zenon DEF Trip
    <3>2. active' = TRUE /\ line' = "raised"
      BY <2>0, <2>1, Zenon DEF Trip
    <3> QED
      BY <3>1, <3>2, Zenon
  <2>2. CASE Release
    <3>1. claim' = FALSE /\ tripped' = FALSE /\ safeMode' = 0
      BY <2>2, Zenon DEF Release
    <3>2. active' = FALSE
      BY <2>0, <2>2, Zenon DEF Release
    <3>3. line' # "raised"
      <4>1. CASE tripped
        BY <2>2, <4>1 DEF Release
      <4>2. CASE ~tripped
        BY <2>2, <4>2, Zenon DEF Release
      <4> QED
        BY <4>1, <4>2
    <3> QED
      BY <3>1, <3>2, <3>3, Zenon
  <2> QED
    BY <1>2, <2>1, <2>2 DEF Execute
<1>3. ~Down /\ ~Execute => UNCHANGED <<claim, safeMode, tripped, active, line>>
  BY Zenon DEF Next, Scheduler, Killed, AbortInJournal, AbortOnDeadWorker, StartEms, WorkerDies,
     Skip, Publish, Pass, Tick, BusChanges, DiskChanges, vars
<1>4. CASE UNCHANGED <<claim, safeMode, tripped, active, line>>
  BY <1>4, Zenon
<1> HIDE DEF InterlockAgrees
<1> QED
  BY <1>1, <1>2, <1>3, <1>4, Zenon

(* Board, status word, interlock, alarm banner and journal agree whenever   *)
(* the control thread is not inside SafetyController.execute, through       *)
(* failing appends and restarts.                                            *)
THEOREM RecordsAgree == Spec => []InterlockAgrees
<1>1. Init => InterlockAgrees
  BY SafetyCycleAssumption DEF Init, InterlockAgrees
<1> QED
  BY <1>1, TypeInit, TypeStep, AgreesStep, PTL DEF Spec

-----------------------------------------------------------------------------
(* The deadline of the safe setpoint                                        *)

(* What the counters are when the proof does arithmetic on them.            *)
LEMMA Numbers ==
  ASSUME TypeOK
  PROVE  /\ elapsed \in Nat /\ elapsed <= MaxCycle /\ MaxCycle \in Nat
         /\ frozenFor \in Nat /\ steady \in Nat /\ overdue \in Nat
BY SafetyCycleAssumption, TypeParts DEF Counters, Reaction

(* A guard over its limit is a fault for the interlock that looks at it.    *)
LEMMA OverLimitIsFault ==
  ASSUME TypeOK, FreezeLag, OverLimit(age, writeAge, steady), ~Fault
  PROVE  FALSE
<1>1. steady > MaxFrozen + 2 * MaxCycle
  BY Zenon DEF OverLimit, Fault
<1>2. Unseen <= 2 * MaxCycle
  BY Numbers, SafetyCycleAssumption DEF Unseen
<1>3. Unseen \in Int
  BY Numbers, SafetyCycleAssumption DEF Unseen
<1>4. cached = seen
  BY <1>1, <1>2, <1>3, Numbers, SafetyCycleAssumption DEF FreezeLag
<1>5. frozenFor > MaxFrozen
  BY <1>1, <1>4, Numbers, SafetyCycleAssumption DEF FreezeLag
<1> QED
  BY <1>4, <1>5 DEF Fault, Frozen

(* The end of the process ends every count.                                 *)
LEMMA DeadlineDown == Down => Deadline'
BY SafetyCycleAssumption
DEF Down, Deadline, DownCounts, OverdueMeans, FreezeLag, Unclaimed, Underway, Unseen

(* The tasks of a cycle look at everything.                                 *)
LEMMA DeadlineExecute == TypeOK /\ Deadline /\ Execute => Deadline'
<1> SUFFICES ASSUME TypeOK, Deadline, Execute PROVE Deadline'
  OBVIOUS
<1> USE Numbers, SafetyCycleAssumption
<1>1. /\ up /\ up' = up /\ ~mid /\ mid' = TRUE /\ ran' = TRUE /\ elapsed' = 0
      /\ UNCHANGED <<published, age, writeAge, cached, steady, overdue>>
  BY Zenon DEF Execute, ReadState, Alive
<1>2. DownCounts' /\ OverdueMeans'
  BY <1>1 DEF Deadline, DownCounts, OverdueMeans
<1>3. Unseen \in Nat /\ Unseen <= 2 * MaxCycle
  BY DEF Unseen
<1>4. FreezeLag'
  <2>1. CASE cached # seen /\ seen' = cached /\ frozenFor' = 0
    BY <1>1, <1>3, <2>1 DEF Deadline, FreezeLag
  <2>2. CASE cached = seen /\ UNCHANGED <<seen, frozenFor>>
    BY <1>1, <2>2 DEF Deadline, FreezeLag
  <2> QED
    BY <2>1, <2>2 DEF Execute, Record
<1>5. Unclaimed'
  <2>1. CASE Release
    <3>1. ~OverLimit(age, writeAge, steady)
      BY <2>1, OverLimitIsFault, Zenon DEF Release, Deadline
    <3>2. overdue = 0
      BY <3>1 DEF Deadline, OverdueMeans
    <3> QED
      BY <1>1, <3>2 DEF Unclaimed, Unseen
  <2>2. CASE Trip
    BY <2>2 DEF Trip, Unclaimed
  <2> QED
    BY <2>1, <2>2 DEF Execute
<1>6. Underway'
  <2>1. ASSUME published = "economic" PROVE overdue <= 2 * MaxCycle
    BY <1>1, <1>3, <2>1 DEF Deadline, Unclaimed, Underway
  <2> QED
    BY <1>1, <2>1 DEF Underway
<1> QED
  BY <1>2, <1>4, <1>5, <1>6 DEF Deadline

(* A cycle that skips its tasks counts as one more.                         *)
LEMMA DeadlineSkip == TypeOK /\ Deadline /\ Skip => Deadline'
<1> SUFFICES ASSUME TypeOK, Deadline, Skip PROVE Deadline'
  OBVIOUS
<1>1. /\ up /\ up' = up /\ ~mid /\ mid' = TRUE /\ ran /\ ran' = FALSE /\ elapsed' = 0
      /\ UNCHANGED <<claim, seen, frozenFor, published, age, writeAge, cached, steady, overdue>>
  BY Zenon DEF Skip, ReadState, Alive
<1> QED
  BY <1>1, Numbers, SafetyCycleAssumption
  DEF Deadline, DownCounts, OverdueMeans, FreezeLag, Unclaimed, Underway, Unseen

(* A pass can only clear a count.                                           *)
LEMMA DeadlinePass == TypeOK /\ Deadline /\ Pass => Deadline'
<1> SUFFICES ASSUME TypeOK, Deadline, Pass PROVE Deadline'
  OBVIOUS
<1> USE Numbers, SafetyCycleAssumption
<1>1. /\ up /\ up' = up
      /\ UNCHANGED <<mid, ran, elapsed, claim, seen, frozenFor, published>>
  BY Zenon DEF Pass
<1>2. steady' = IF cached' = cached THEN steady ELSE 0
  BY Zenon DEF Pass
<1>3. overdue' = IF OverLimit(age', writeAge', steady') THEN overdue ELSE 0
  BY Zenon DEF Pass
<1>4. DownCounts'
  BY <1>1, Zenon DEF DownCounts
<1>5. OverdueMeans'
  <2>1. CASE OverLimit(age', writeAge', steady')
    BY <2>1, Zenon DEF OverdueMeans
  <2>2. CASE ~OverLimit(age', writeAge', steady')
    <3>1. overdue' = 0
      BY <1>3, <2>2, Zenon
    <3> QED
      BY <3>1 DEF OverdueMeans
  <2> QED
    BY <2>1, <2>2
<1>6. Unseen' = Unseen /\ Unseen \in Nat
  BY <1>1 DEF Unseen
<1>7. FreezeLag'
  BY <1>1, <1>2, <1>6 DEF Deadline, FreezeLag
<1>8. overdue' <= overdue /\ overdue' \in Nat
  BY <1>3
<1>9. Unclaimed'
  BY <1>1, <1>6, <1>8 DEF Deadline, Unclaimed
<1>10. Underway'
  BY <1>1, <1>8 DEF Deadline, Underway
<1> QED
  BY <1>4, <1>5, <1>7, <1>9, <1>10 DEF Deadline

(* Time adds to the counts and to the cycle alike.                          *)
LEMMA DeadlineTick == TypeOK /\ Deadline /\ Tick => Deadline'
<1> SUFFICES ASSUME TypeOK, Deadline, Tick PROVE Deadline'
  OBVIOUS
<1> USE Numbers, SafetyCycleAssumption
<1>1. UNCHANGED <<up, mid, ran, claim, seen, cached, published>>
  BY Zenon DEF Tick
<1>2. overdue' = IF up /\ OverLimit(age', writeAge', steady') THEN Upto(overdue, Reaction + 1) ELSE 0
  BY Zenon DEF Tick
<1>3. OverdueMeans'
  <2>1. CASE OverLimit(age', writeAge', steady')
    BY <2>1, Zenon DEF OverdueMeans
  <2>2. CASE ~OverLimit(age', writeAge', steady')
    <3>1. overdue' = 0
      BY <1>2, <2>2, Zenon
    <3> QED
      BY <3>1 DEF OverdueMeans
  <2> QED
    BY <2>1, <2>2
<1>4. CASE ~up
  <2>1. elapsed' = 0 /\ frozenFor' = 0 /\ steady' = 0 /\ overdue' = 0
    BY <1>4, Zenon DEF Tick
  <2>2. claim = FALSE
    BY <1>4, TypeParts, Zenon DEF Emptied, Flags
  <2> QED
    BY <1>1, <1>3, <1>4, <2>1, <2>2
    DEF Deadline, DownCounts, FreezeLag, Unclaimed, Underway, Unseen
<1>5. CASE up
  <2>1. elapsed' = elapsed + 1
    BY <1>5, Zenon DEF Tick
  <2>2. steady' <= steady + 1 /\ steady' \in Nat
    <3>1. steady' = Older(steady, MaxFrozen + 2 * MaxCycle)
      BY <1>5, Zenon DEF Tick
    <3> QED
      BY <3>1 DEF Older
  <2>3. frozenFor' = frozenFor + 1 \/ (frozenFor' = frozenFor /\ frozenFor > MaxFrozen)
    <3>1. frozenFor' = Older(frozenFor, MaxFrozen)
      BY <1>5, Zenon DEF Tick
    <3> QED
      BY <3>1 DEF Older
  <2>4. overdue' <= overdue + 1 /\ overdue' \in Nat
    <3>1. overdue' = Upto(overdue, Reaction + 1) \/ overdue' = 0
      BY <1>2, Zenon
    <3> QED
      BY <3>1 DEF Upto, Reaction
  <2>5. DownCounts'
    BY <1>1, <1>5, Zenon DEF DownCounts
  <2>6. Unseen \in Nat /\ Unseen' = Unseen + 1
    BY <1>1, <2>1 DEF Unseen
  <2>7. FreezeLag'
    BY <1>1, <2>2, <2>3, <2>6 DEF Deadline, FreezeLag
  <2>8. Unclaimed'
    BY <1>1, <2>4, <2>6 DEF Deadline, Unclaimed
  <2>9. Underway'
    BY <1>1, <2>1, <2>4 DEF Deadline, Underway
  <2> QED
    BY <1>3, <2>5, <2>7, <2>8, <2>9 DEF Deadline
<1> QED
  BY <1>4, <1>5

(* The process comes back with empty memory and begins its first cycle.     *)
LEMMA DeadlineStart == TypeOK /\ Deadline /\ StartEms => Deadline'
<1> SUFFICES ASSUME TypeOK, Deadline, StartEms PROVE Deadline'
  OBVIOUS
<1>1. /\ elapsed' = Cycle /\ overdue = 0 /\ steady = 0 /\ ~claim
      /\ UNCHANGED <<mid, ran, claim, seen, frozenFor, published, age, writeAge, cached, steady, overdue>>
  BY TypeParts, Zenon DEF StartEms, Deadline, DownCounts, Emptied
<1>2. Unseen' \in Nat
  BY <1>1, SafetyCycleAssumption DEF Unseen
<1> QED
  BY <1>1, <1>2, Numbers, SafetyCycleAssumption
  DEF Deadline, DownCounts, OverdueMeans, FreezeLag, Unclaimed, Underway, StartEms

(* The output follows the board.                                            *)
LEMMA DeadlinePublish == TypeOK /\ Deadline /\ Publish => Deadline'
<1> SUFFICES ASSUME TypeOK, Deadline, Publish, ~Down PROVE Deadline'
  BY DeadlineDown
<1>1. /\ published' = Resolved /\ mid' = FALSE
      /\ UNCHANGED <<up, elapsed, ran, claim, seen, frozenFor, age, writeAge, cached, steady, overdue>>
  BY Zenon DEF Publish
<1> QED
  BY <1>1, Zenon
  DEF Resolved, Deadline, DownCounts, OverdueMeans, FreezeLag, Unclaimed, Underway, Unseen

LEMMA DeadlineStep == TypeOK /\ Deadline /\ [Next]_vars => Deadline'
<1> SUFFICES ASSUME TypeOK, Deadline, [Next]_vars PROVE Deadline'
  OBVIOUS
<1>1. CASE UNCHANGED <<up, mid, ran, elapsed, claim, seen, frozenFor, published, age, writeAge,
                       cached, steady, overdue>>
  BY <1>1, Zenon DEF Deadline, DownCounts, OverdueMeans, FreezeLag, Unclaimed, Underway, Unseen
<1>2. WorkerDies \/ BusChanges \/ DiskChanges \/ UNCHANGED vars
        => UNCHANGED <<up, mid, ran, elapsed, claim, seen, frozenFor, published, age, writeAge,
                       cached, steady, overdue>>
  BY Zenon DEF WorkerDies, BusChanges, DiskChanges, vars
<1> QED
  BY <1>1, <1>2, DeadlineDown, DeadlineExecute, DeadlineSkip, DeadlinePass, DeadlineTick,
     DeadlineStart, DeadlinePublish, Zenon
  DEF Next, Scheduler, Killed, AbortInJournal, AbortOnDeadWorker

(* A guard over its limit for longer than three cycles has the unit on the  *)
(* safe setpoint: SafetyController, Task's schedule and the output of       *)
(* Scheduler.step together, for any limits and any cycle length.            *)
THEOREM CaughtInTime == Spec => []Caught
<1>1. Init => Deadline
  BY SafetyCycleAssumption
  DEF Init, Deadline, DownCounts, OverdueMeans, FreezeLag, Unclaimed, Underway, Unseen
<1>2. TypeOK /\ Deadline => Caught
  <2> SUFFICES ASSUME TypeOK, Deadline, published = "economic" PROVE ~(overdue > Reaction)
    BY Zenon DEF Caught
  <2>1. Unseen <= 2 * MaxCycle /\ Unseen \in Nat
    BY Numbers DEF Unseen
  <2>2. CASE claim
    BY <2>2, Numbers DEF Deadline, Underway, Reaction
  <2>3. CASE ~claim
    BY <2>1, <2>3, Numbers DEF Deadline, Unclaimed, Reaction
  <2> QED
    BY <2>2, <2>3
<1> QED
  BY <1>1, <1>2, TypeInit, TypeStep, DeadlineStep, PTL DEF Spec

-----------------------------------------------------------------------------
(* What undisturbed ticks show.                                             *)

(* Only a process on a working bus counts them.                             *)
CalmMeans ==
  /\ calm > 0 => up /\ writable /\ \A d \in Device : answering[d]
  /\ ~up => calm = 0

(* Before the first output nothing was written, and either the interlock    *)
(* has seen that or no cycle has begun.                                     *)
FirstCycle ==
  published = None =>
    /\ writeAge > MaxWriteAge
    /\ tripped \/ (~mid /\ ~ran /\ calm <= elapsed)

(* What calm began before the worker's last pass is in the ages.            *)
FreshReads == \A d \in Device : calm <= pass \/ age[d] <= pass
FreshWrites ==
  \/ calm <= pass
  \/ writeAge <= Rewrite + pass
  \/ writeAge > MaxWriteAge /\ (tripped \/ published = None)

Causes == CalmMeans /\ FirstCycle /\ FreshReads /\ FreshWrites

LEMMA CausesDown == Down => Causes'
BY SafetyCycleAssumption
DEF Down, Causes, CalmMeans, FirstCycle, FreshReads, FreshWrites

(* Numbers of the ages and of the two clocks above them.                    *)
LEMMA AgeNumbers ==
  ASSUME TypeOK
  PROVE  /\ writeAge \in Nat /\ calm \in Nat /\ pass \in Nat /\ pass <= MaxPass
         /\ calm <= Settle /\ \A d \in Device : age[d] \in Nat /\ Limit[d] \in Nat
BY SafetyCycleAssumption, TypeParts DEF Counters, Ages

LEMMA CausesExecute == TypeOK /\ Causes /\ Execute => Causes'
<1> SUFFICES ASSUME TypeOK, Causes, Execute PROVE Causes'
  OBVIOUS
<1>1. UNCHANGED <<up, published, pass, age, writeAge, writable, answering, calm>>
  BY Zenon DEF Execute, Alive
<1>2. writeAge > MaxWriteAge => tripped'
  BY Zenon DEF Execute, Trip, Release, Fault
<1> QED
  BY <1>1, <1>2, Zenon DEF Causes, CalmMeans, FirstCycle, FreshReads, FreshWrites

LEMMA CausesPass == TypeOK /\ Causes /\ Pass => Causes'
<1> SUFFICES ASSUME TypeOK, Causes, Pass PROVE Causes'
  OBVIOUS
<1>1. /\ pass' = 0 /\ age' = [d \in Device |-> IF answering[d] THEN 0 ELSE age[d]]
      /\ UNCHANGED <<up, published, writable, answering, calm, tripped, mid, ran, elapsed>>
  BY Zenon DEF Pass
<1>2. CalmMeans'
  BY <1>1, Zenon DEF Causes, CalmMeans
<1>3. FreshReads'
  <2> SUFFICES ASSUME NEW d \in Device, calm > 0 PROVE age'[d] = 0
    BY <1>1, AgeNumbers DEF FreshReads
  <2> QED
    BY <1>1 DEF Causes, CalmMeans
<1>4. CASE FlushDue /\ writable
  <2>1. published # None /\ writeAge' = 0
    BY <1>4, Zenon DEF Pass, FlushDue
  <2> QED
    BY <1>1, <1>2, <1>3, <2>1, SafetyCycleAssumption DEF Causes, FirstCycle, FreshWrites
<1>5. CASE ~(FlushDue /\ writable)
  <2>1. writeAge' = writeAge
    BY <1>5, Zenon DEF Pass
  <2>2. FirstCycle'
    BY <1>1, <2>1, Zenon DEF Causes, FirstCycle
  <2>3. FreshWrites'
    <3>1. CASE calm = 0
      BY <1>1, <3>1 DEF FreshWrites
    <3>2. CASE published = None
      BY <1>1, <2>2, <3>2, Zenon DEF FirstCycle, FreshWrites
    <3>3. CASE calm > 0 /\ published # None
      <4>1. ~(writeAge >= Rewrite)
        BY <1>5, <3>3, Zenon DEF FlushDue, Causes, CalmMeans
      <4> QED
        BY <1>1, <2>1, <4>1, AgeNumbers, SafetyCycleAssumption DEF FreshWrites
    <3> QED
      BY <3>1, <3>2, <3>3, AgeNumbers
  <2> QED
    BY <1>2, <1>3, <2>2, <2>3 DEF Causes
<1> QED
  BY <1>4, <1>5

LEMMA CausesTick == TypeOK /\ Causes /\ Tick => Causes'
<1> SUFFICES ASSUME TypeOK, Causes, Tick PROVE Causes'
  OBVIOUS
<1>1. UNCHANGED <<up, published, writable, answering, tripped, mid, ran>>
  BY Zenon DEF Tick
<1>2. /\ writeAge' = Older(writeAge, MaxWriteAge)
      /\ age' = [d \in Device |-> Older(age[d], Limit[d])]
  BY Zenon DEF Tick
<1>3. writeAge > MaxWriteAge => writeAge' > MaxWriteAge
  BY <1>2, AgeNumbers, SafetyCycleAssumption DEF Older
<1>4. CASE up /\ worker /\ Healthy
  <2>1. calm' \in Nat /\ calm' <= calm + 1
    <3>1. calm' = Upto(calm, Settle)
      BY <1>4, Zenon DEF Tick
    <3> QED
      BY <3>1, AgeNumbers DEF Upto
  <2>2. elapsed' = elapsed + 1
    BY <1>4, Zenon DEF Tick
  <2>3. pass' = pass + 1
    <3>1. pass' = Upto(pass, MaxPass) /\ pass < MaxPass
      BY <1>4, Zenon DEF Tick
    <3> QED
      BY <3>1 DEF Upto
  <2>4. CalmMeans'
    BY <1>1, <1>4, Zenon DEF CalmMeans, Healthy
  <2>5. FirstCycle'
    BY <1>1, <1>3, <2>1, <2>2, Numbers, AgeNumbers DEF Causes, FirstCycle
  <2>6. FreshReads'
    <3> SUFFICES ASSUME NEW d \in Device PROVE calm' <= pass' \/ age'[d] <= pass'
      BY Zenon DEF FreshReads
    <3>1. age'[d] = Older(age[d], Limit[d])
      BY <1>2
    <3>2. age'[d] <= age[d] + 1 /\ age'[d] \in Nat
      BY <3>1, AgeNumbers DEF Older
    <3>3. calm <= pass \/ age[d] <= pass
      BY Zenon DEF Causes, FreshReads
    <3> QED
      BY <2>1, <2>3, <3>2, <3>3, AgeNumbers
  <2>7. FreshWrites'
    <3>1. writeAge' <= writeAge + 1 /\ writeAge' \in Nat
      BY <1>2, AgeNumbers DEF Older
    <3> QED
      BY <1>1, <1>3, <2>1, <2>3, <3>1, AgeNumbers, SafetyCycleAssumption DEF Causes, FreshWrites
  <2> QED
    BY <2>4, <2>5, <2>6, <2>7 DEF Causes
<1>5. CASE ~(up /\ worker /\ Healthy)
  <2>1. calm' = 0
    BY <1>5, Zenon DEF Tick
  <2>2. elapsed' \in Nat /\ pass' \in Nat
    <3>1. TypeOK'
      BY TypeStep, Zenon DEF Next
    <3> QED
      BY <3>1, TypeParts, SafetyCycleAssumption DEF TypeOK
  <2> QED
    BY <1>1, <1>3, <2>1, <2>2 DEF Causes, CalmMeans, FirstCycle, FreshReads, FreshWrites
<1> QED
  BY <1>4, <1>5

LEMMA CausesStart == TypeOK /\ Causes /\ StartEms => Causes'
<1> SUFFICES ASSUME TypeOK, Causes, StartEms PROVE Causes'
  OBVIOUS
<1>1. /\ up' = TRUE /\ elapsed' = Cycle /\ calm = 0
      /\ UNCHANGED <<mid, ran, published, tripped, writeAge, age, pass, calm, writable, answering>>
  BY Zenon DEF StartEms, Causes, CalmMeans
<1> QED
  BY <1>1, AgeNumbers, SafetyCycleAssumption
  DEF Causes, CalmMeans, FirstCycle, FreshReads, FreshWrites

LEMMA CausesPublish == TypeOK /\ Causes /\ Publish => Causes'
<1> SUFFICES ASSUME TypeOK, Causes, Publish, ~Down PROVE Causes'
  BY CausesDown
<1>1. /\ published' = Resolved /\ mid
      /\ UNCHANGED <<up, tripped, writeAge, age, pass, calm, writable, answering>>
  BY Zenon DEF Publish
<1>2. published' # None
  BY <1>1, SafetyCycleAssumption, Zenon DEF Resolved
<1> QED
  BY <1>1, <1>2, Zenon DEF Causes, CalmMeans, FirstCycle, FreshReads, FreshWrites

LEMMA CausesStep == TypeOK /\ Causes /\ [Next]_vars => Causes'
<1> SUFFICES ASSUME TypeOK, Causes, [Next]_vars PROVE Causes'
  OBVIOUS
<1>1. CASE UNCHANGED <<up, mid, ran, elapsed, tripped, published, pass, age, writeAge,
                       writable, answering, calm>>
  BY <1>1, Zenon DEF Causes, CalmMeans, FirstCycle, FreshReads, FreshWrites
<1>2. CASE Skip
  <2>1. ran /\ UNCHANGED <<up, tripped, published, pass, age, writeAge, writable, answering, calm>>
    BY <1>2, Zenon DEF Skip, Alive
  <2> QED
    BY <2>1, Zenon DEF Causes, CalmMeans, FirstCycle, FreshReads, FreshWrites
<1>3. CASE BusChanges
  <2>1. calm' = 0 /\ UNCHANGED <<up, mid, ran, elapsed, tripped, published, pass, age, writeAge>>
    BY <1>3, Zenon DEF BusChanges
  <2> QED
    BY <2>1, Numbers, AgeNumbers DEF Causes, CalmMeans, FirstCycle, FreshReads, FreshWrites
<1>4. WorkerDies \/ DiskChanges \/ UNCHANGED vars
        => UNCHANGED <<up, mid, ran, elapsed, tripped, published, pass, age, writeAge,
                       writable, answering, calm>>
  BY Zenon DEF WorkerDies, DiskChanges, vars
<1> QED
  BY <1>1, <1>2, <1>3, <1>4, CausesDown, CausesExecute, CausesPass, CausesTick,
     CausesStart, CausesPublish, Zenon
  DEF Next, Scheduler, Killed, AbortInJournal, AbortOnDeadWorker

(* Only Execute trips.                                                      *)
LEMMA OnlyExecuteTrips == [Next]_vars /\ ~tripped /\ tripped' => Execute /\ Fault
BY Zenon DEF Next, Scheduler, Killed, AbortInJournal, AbortOnDeadWorker, Down, StartEms,
   WorkerDies, Execute, Trip, Release, Skip, Publish, Pass, Tick, BusChanges, DiskChanges, vars

(* With limits above the time a pass of the worker takes and the keep-alive *)
(* well inside the write age, a bus that works for longer than a cycle and  *)
(* a pass never trips the interlock by an age: only a frozen value does.    *)
THEOREM NoTripWithoutCause ==
  ASSUME MaxPass < Settle, MaxCycle < Settle, Rewrite + MaxPass <= MaxWriteAge,
         \A d \in Device : MaxPass <= Limit[d]
  PROVE  Spec => TripHasCause
<1>1. Init => Causes
  BY SafetyCycleAssumption
  DEF Init, Causes, CalmMeans, FirstCycle, FreshReads, FreshWrites
<1>2. TypeOK /\ Causes /\ [Next]_vars
        => [~tripped /\ tripped' => calm < Settle \/ frozenFor > MaxFrozen]_vars
  <2> SUFFICES ASSUME TypeOK, Causes, [Next]_vars, ~tripped, tripped'
               PROVE  calm < Settle \/ frozenFor > MaxFrozen
    BY Zenon
  <2>1. Execute /\ Fault
    BY OnlyExecuteTrips
  <2>2. CASE \E d \in Device : age[d] > Limit[d]
    <3> PICK d \in Device : age[d] > Limit[d]
      BY <2>2
    <3>1. calm <= pass \/ age[d] <= pass
      BY Zenon DEF Causes, FreshReads
    <3> QED
      BY <3>1, AgeNumbers, SafetyCycleAssumption
  <2>3. CASE writeAge > MaxWriteAge
    <3>1. published = None => calm <= elapsed
      BY Zenon DEF Causes, FirstCycle
    <3>2. calm <= pass \/ writeAge <= Rewrite + pass \/ published = None
      BY Zenon DEF Causes, FreshWrites
    <3> QED
      BY <2>3, <3>1, <3>2, Numbers, AgeNumbers, SafetyCycleAssumption
  <2>4. CASE Frozen
    BY <2>4, Zenon DEF Frozen
  <2> QED
    BY <2>1, <2>2, <2>3, <2>4, Zenon DEF Fault
<1> QED
  BY <1>1, <1>2, TypeInit, TypeStep, CausesStep, PTL DEF Spec, TripHasCause

=============================================================================
