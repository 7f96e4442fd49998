----------------------------- MODULE DeviceLink -----------------------------
(***************************************************************************)
(* One field device and a client of it, register by register: the poll and *)
(* the flush of ModbusDeviceDriver as the I/O worker of CachedDriver calls *)
(* them, or the diagnosis the UI makes of a device (diagnose_device with   *)
(* probe_registers and scan_unit_ids); and the device as sim/device.py     *)
(* serves it, with its faults.                                             *)
(*                                                                         *)
(* Each request is a step: between two of them the plant publishes new     *)
(* values and faults come and go.  A request or its answer may be lost.    *)
(***************************************************************************)
EXTENDS RegisterCodec, FiniteSets

CONSTANTS
  Profile,      \* the registers of the profile, a sequence
  Samples,      \* what the plant may publish: values of the measurements
  Commands,     \* what the control loop may want to write
  Ids, Slave,   \* the unit ids a scan tries, and the configured one
  MaxTimeouts,  \* max_consecutive_timeouts of probe_registers
  MaxEvents,    \* bound: samples, faults and losses of a behaviour
  None

Register == 1..Len(Profile)
Measurement == {r \in Register : ~Profile[r].writable}
Writable == {r \in Register : Profile[r].writable}
Fault == {"freeze", "modbus_exception", "reject_writes"}

ASSUME ProfileAssumption ==
  /\ Profile \in Seq([words : {1, 2}, signed : BOOLEAN, writable : BOOLEAN,
                      scale : Nat, min : Int, max : Int])
  /\ Len(Profile) > 0
  /\ \A r \in Register : IsRegister(Profile[r])

ASSUME LinkAssumption ==
  /\ Samples \subseteq [Measurement -> Int] /\ Samples # {}
  /\ Commands \subseteq Int
  /\ Slave \in Ids /\ IsFiniteSet(Ids) /\ Ids \subseteq Int
  /\ MaxTimeouts \in Nat \ {0} /\ MaxEvents \in Nat
  /\ None \notin Int

VARIABLES
  \* the device
  actual,    \* the unit id it answers to, fixed
  gateway,   \* whether a gateway answers for the other ids with errors, fixed
  fields,    \* _fields: the physical values published last
  faults,    \* _faults without offline
  serving,   \* whether the server runs (offline stops it)
  block,     \* the words of its registers
  target,    \* what it took from accepted writes, on_setpoint
  \* the client
  client,    \* "worker" or "diagnosis", fixed
  op,        \* what it is doing
  at,        \* the next register or unit id of the loop
  tags,      \* SystemState: a value for each register
  failed,    \* the local list of read_state or write_setpoints
  sent,      \* the setpoints of the flush, None for the others
  outcome,   \* how the last read_state or write_setpoints ended
  report,    \* the entries of probe_registers
  timeouts,  \* its local consecutive
  scan,      \* the entries of scan_unit_ids
  \* the model
  offered,   \* history: what each measurement was during this poll
  frozen,    \* history: whether the device was frozen during it
  calm,      \* history: nothing was disturbed since the diagnosis began
  budget     \* the events still to come

site == <<actual, gateway, client>>
device == <<fields, faults, serving, block, target>>
driver == <<op, at, tags, failed, sent, outcome>>
tool == <<report, timeouts, scan>>
history == <<offered, frozen, calm>>
vars == <<site, device, driver, tool, history, budget>>

Spend == budget > 0 /\ budget' = budget - 1

Zeros == [r \in Register |-> Encoded(0, Profile[r])]
Unsent == [r \in Writable |-> None]

Init ==
  /\ actual \in Ids /\ gateway \in BOOLEAN /\ client \in {"worker", "diagnosis"}
  /\ (client = "worker" => actual = Slave /\ ~gateway)
  /\ fields \in Samples /\ faults = {} /\ serving = TRUE
  /\ block = Zeros
  /\ target = [r \in Writable |-> None]
  /\ op = "idle" /\ at = 1
  /\ tags = [r \in Register |-> 0]
  /\ failed = {} /\ sent = Unsent /\ outcome = "none"
  /\ report = <<>> /\ timeouts = 0 /\ scan = <<>>
  /\ offered = [r \in Measurement |-> {}] /\ frozen = FALSE /\ calm = TRUE
  /\ budget = MaxEvents

-----------------------------------------------------------------------------
(* The device *)

(* SimHarness.tick publishes a snapshot of the plant. *)
Publish ==
  /\ Spend
  /\ fields' \in Samples \ {fields}
  /\ offered' = IF op = "poll" THEN [r \in Measurement |-> offered[r] \cup {fields'[r]}]
                ELSE offered
  /\ UNCHANGED <<site, faults, serving, block, target, driver, tool, frozen, calm>>

(* set_fault *)
SetFault ==
  /\ Spend
  /\ \E f \in Fault : faults' = IF f \in faults THEN faults \ {f} ELSE faults \cup {f}
  /\ frozen' = (frozen \/ (op = "poll" /\ "freeze" \in faults'))
  /\ calm' = FALSE
  /\ UNCHANGED <<site, fields, serving, block, target, driver, tool, offered>>

(* set_fault of "offline": a server that starts again starts from zeros. *)
SetOffline ==
  /\ Spend
  /\ serving' = ~serving
  /\ block' = IF serving' THEN Zeros ELSE block
  /\ calm' = FALSE
  /\ UNCHANGED <<site, fields, faults, target, driver, tool, offered, frozen>>

(* _refresh_registers *)
Refreshed ==
  [r \in Register |-> IF r \in Measurement /\ "freeze" \notin faults
                      THEN Encoded(Rounded(fields[r], Profile[r].scale), Profile[r]) ELSE block[r]]

(* _action for a read: what a request is answered with. *)
Answers(id) ==
  IF ~serving THEN "silence"
  ELSE IF id # actual THEN IF gateway THEN "exception" ELSE "silence"
  ELSE IF "modbus_exception" \in faults THEN "exception" ELSE "data"

Serve(answer) == block' = IF answer = "data" THEN Refreshed ELSE block

(* The value of a register as the client makes it out. *)
Value(words, r) == Decoded(words[r], Profile[r]) * Profile[r].scale

-----------------------------------------------------------------------------
(* read_state and write_setpoints *)

EndPoll(result) ==
  /\ op' = "idle" /\ at' = 1 /\ failed' = {} /\ outcome' = result
  /\ UNCHANGED <<tags, sent>>

EndFlush(result) ==
  /\ op' = "flushed" /\ at' = 1 /\ failed' = {} /\ outcome' = result /\ sent' = Unsent
  /\ UNCHANGED tags

ForgetPoll == offered' = [r \in Measurement |-> {}] /\ frozen' = FALSE /\ UNCHANGED calm

StartPoll ==
  /\ client = "worker" /\ op = "flushed"
  /\ op' = "poll" /\ at' = 1 /\ failed' = {} /\ outcome' = "none"
  /\ offered' = [r \in Measurement |-> {fields[r]}]
  /\ frozen' = ("freeze" \in faults)
  /\ UNCHANGED <<site, device, tags, sent, tool, calm, budget>>

(* The bounds of a writable register guard what is written, not what is     *)
(* read.                                                                    *)
Plausible(r, v) == Profile[r].writable \/ (Profile[r].min <= v /\ v <= Profile[r].max)

(* Mutant: a register that fails ends the poll. *)
AdvanceOnGood(good) ==
  /\ failed' = IF good THEN failed ELSE failed \cup {at}
  /\ at' = IF good THEN at + 1 ELSE Len(Profile) + 1

(* Mutant: an error response is no failure. *)
AdvanceUnnoticed(good) == failed' = failed /\ at' = at + 1

(* To the next register, whatever came of this one. *)
Advance(good) ==
  /\ failed' = IF good THEN failed ELSE failed \cup {at}
  /\ at' = at + 1

Read ==
  /\ op = "poll" /\ at \in Register
  /\ Answers(Slave) # "silence"
  /\ Serve(Answers(Slave))
  /\ LET good == Answers(Slave) = "data" /\ Plausible(at, Value(block', at))
     IN /\ tags' = IF good THEN [tags EXCEPT ![at] = Value(block', at)] ELSE tags
        /\ Advance(good)
  /\ UNCHANGED <<site, fields, faults, serving, target, op, sent, outcome, tool, history, budget>>

PollDone ==
  /\ op = "poll" /\ at \notin Register
  /\ EndPoll(IF failed = {} THEN "good" ELSE "rejected")
  /\ ForgetPoll
  /\ UNCHANGED <<site, device, tool, budget>>

(* The setpoints the flush works on are those that were due at its start,   *)
(* clamped as they enter the state it reads.                                *)
StartFlush ==
  /\ client = "worker" /\ op = "idle"
  /\ op' = "flush" /\ at' = 1 /\ failed' = {} /\ outcome' = "none"
  /\ \E due \in SUBSET Writable : \E w \in [due -> Commands] :
       sent' = [r \in Writable |-> IF r \in due THEN Clamped(w[r], Profile[r]) ELSE None]
  /\ UNCHANGED <<site, device, tags, tool, history, budget>>

Writing == op = "flush" /\ at \in Writable /\ sent[at] # None

Skip ==
  /\ op = "flush" /\ at \in Register /\ ~Writing
  /\ at' = at + 1
  /\ UNCHANGED <<site, device, op, tags, failed, sent, outcome, tool, history, budget>>

(* _route_write: the device takes the words and reports the value. *)
Take(r) ==
  LET words == Encoded(Truncated(sent[r], Profile[r].scale), Profile[r])
  IN /\ block' = [block EXCEPT ![r] = words]
     /\ target' = [target EXCEPT ![r] = Decoded(words, Profile[r]) * Profile[r].scale]

Accepting == Answers(Slave) = "data" /\ "reject_writes" \notin faults

Write ==
  /\ Writing /\ Answers(Slave) # "silence"
  /\ IF Accepting THEN Take(at) ELSE UNCHANGED <<block, target>>
  /\ Advance(Accepting)
  /\ UNCHANGED <<site, fields, faults, serving, op, tags, sent, outcome, tool, history, budget>>

FlushDone ==
  /\ op = "flush" /\ at \notin Register
  /\ EndFlush(IF failed = {} THEN "good" ELSE "rejected")
  /\ UNCHANGED <<site, device, tool, history, budget>>

(* No answer in time: the transport error leaves the loop at once.  The     *)
(* device may have acted on the request.                                    *)
ReadLost ==
  /\ op = "poll" /\ at \in Register
  /\ \/ Answers(Slave) = "silence" /\ UNCHANGED <<block, budget>>
     \/ Answers(Slave) # "silence" /\ Spend /\ Serve(Answers(Slave))
  /\ EndPoll("lost") /\ ForgetPoll
  /\ UNCHANGED <<site, fields, faults, serving, target, tool>>

WriteLost ==
  /\ Writing
  /\ \/ Answers(Slave) = "silence" /\ UNCHANGED <<block, target, budget>>
     \/ Answers(Slave) # "silence" /\ Spend /\ UNCHANGED <<block, target>>
     \/ Accepting /\ Spend /\ Take(at)
  /\ EndFlush("lost")
  /\ UNCHANGED <<site, fields, faults, serving, tool, history>>

-----------------------------------------------------------------------------
(* diagnose_device *)

StartProbe ==
  /\ client = "diagnosis" /\ op = "idle"
  /\ op' = "probe" /\ at' = 1 /\ report' = <<>> /\ timeouts' = 0 /\ scan' = <<>>
  /\ calm' = TRUE
  /\ UNCHANGED <<site, device, tags, failed, sent, outcome, offered, frozen, budget>>

Counted(answer) == timeouts' = IF answer = "silence" THEN timeouts + 1 ELSE 0

Entry(answer) ==
  IF answer # "data" THEN answer
  ELSE IF Plausible(at, Value(block', at)) THEN "good" ELSE "implausible"

Probing == op = "probe" /\ at \in Register /\ timeouts < MaxTimeouts

Probed(answer) ==
  /\ Serve(Answers(Slave))
  /\ report' = Append(report, Entry(answer))
  /\ Counted(answer)
  /\ at' = at + 1
  /\ UNCHANGED <<site, fields, faults, serving, target, op, tags, failed, sent, outcome, scan,
                 offered, frozen>>

Probe == Probing /\ Probed(Answers(Slave)) /\ UNCHANGED <<calm, budget>>

ProbeLost ==
  Probing /\ Answers(Slave) # "silence" /\ Spend /\ calm' = FALSE /\ Probed("silence")

Answered(entries) == \E i \in 1..Len(entries) : entries[i] \in {"good", "implausible"}

(* The registers are done or given up; the ids are tried when no register   *)
(* was read.                                                                *)
ProbeDone ==
  /\ op = "probe" /\ ~Probing
  /\ op' = IF Answered(report) THEN "idle" ELSE "scan"
  /\ at' = 1
  /\ UNCHANGED <<site, device, tags, failed, sent, outcome, tool, history, budget>>

(* Mutant: an id that answers with an error counts as silent. *)
LiveData(answer) == answer = "data"

Live(answer) == answer # "silence"

IdOf(i) == CHOOSE id \in Ids : Cardinality({n \in Ids : n < id}) = i - 1

Scanning == op = "scan" /\ at <= Cardinality(Ids)

Scanned(answer) ==
  /\ Serve(Answers(IdOf(at)))
  /\ scan' = Append(scan, [id |-> IdOf(at), alive |-> Live(answer), status |-> answer])
  /\ at' = at + 1
  /\ UNCHANGED <<site, fields, faults, serving, target, op, tags, failed, sent, outcome,
                 report, timeouts, offered, frozen>>

Scan == Scanning /\ Scanned(Answers(IdOf(at))) /\ UNCHANGED <<calm, budget>>

ScanLost ==
  Scanning /\ Answers(IdOf(at)) # "silence" /\ Spend /\ calm' = FALSE /\ Scanned("silence")

ScanDone ==
  /\ op = "scan" /\ ~Scanning
  /\ op' = "idle" /\ at' = 1
  /\ UNCHANGED <<site, device, tags, failed, sent, outcome, tool, history, budget>>

-----------------------------------------------------------------------------
Disturbance == Publish \/ SetFault \/ SetOffline

Worker == StartPoll \/ Read \/ ReadLost \/ PollDone
            \/ StartFlush \/ Skip \/ Write \/ WriteLost \/ FlushDone

Diagnosis == StartProbe \/ Probe \/ ProbeLost \/ ProbeDone \/ Scan \/ ScanLost \/ ScanDone

Next == Disturbance \/ Worker \/ Diagnosis

(* The I/O worker's loop never ends while the EMS runs.                     *)
Spec == Init /\ [][Next]_vars /\ WF_vars(Worker)

-----------------------------------------------------------------------------
(* Properties *)

(* Every variable has its type; each register has its words, in their       *)
(* range.                                                                   *)
Blocks == {b \in [Register -> Seq(0..Base - 1)] : \A r \in Register : Len(b[r]) = Profile[r].words}

TypeOK ==
  /\ actual \in Ids /\ gateway \in BOOLEAN /\ client \in {"worker", "diagnosis"}
  /\ fields \in Samples /\ faults \subseteq Fault /\ serving \in BOOLEAN
  /\ block \in Blocks
  /\ target \in [Writable -> Int \cup {None}] /\ sent \in [Writable -> Int \cup {None}]
  /\ op \in {"idle", "flush", "flushed", "poll", "probe", "scan"} /\ at \in Nat \ {0}
  /\ tags \in [Register -> Int] /\ offered \in [Measurement -> SUBSET Int]
  /\ failed \subseteq Register /\ outcome \in {"none", "good", "rejected", "lost"}
  /\ report \in Seq({"good", "implausible", "exception", "silence"})
  /\ timeouts \in 0..MaxTimeouts /\ budget \in 0..MaxEvents
  /\ frozen \in BOOLEAN /\ calm \in BOOLEAN

Near(v, w, r) == 2 * Magnitude(v - w) <= Profile[r].scale

(* A poll that counts as good (only such a poll resets the ages the safety  *)
(* interlock watches) has brought every measurement as the device had it at *)
(* some time during that very poll, to half a count, whatever faults came   *)
(* and went between the registers; only a frozen device can pass off an     *)
(* older value.                                                             *)
PollIsCurrent ==
  [][op = "poll" /\ outcome' = "good" /\ ~frozen =>
       \A r \in Measurement : \E w \in offered[r] : Near(tags'[r], w, r)]_vars

(* Faults over, every plausible measurement comes to its tag and stays      *)
(* there, also past registers that are never plausible and fail every poll, *)
(* and after a server that restarted from zeros.                            *)
Believable == {r \in Measurement : \E w \in {fields[r]} :
                 Plausible(r, Rounded(w, Profile[r].scale) * Profile[r].scale)}
Shown == {r \in Measurement : Near(tags[r], fields[r], r)}

OthersLand ==
  <>[](client = "worker" /\ serving /\ faults = {} => Believable \subseteq Shown)

(* Of the setpoints of a flush that got through the loop, those not         *)
(* reported as rejected are in the device to within one count, however the  *)
(* others fared.                                                            *)
Landed(r) ==
  /\ target[r] # None
  /\ Magnitude(sent[r] - target[r]) < Profile[r].scale

WritesLand ==
  [][op = "flush" /\ op' = "flushed" /\ outcome' # "lost" =>
       \A r \in Writable : sent[r] # None /\ r \notin failed => Landed(r)]_vars

(* What the device takes is never beyond what was commanded: of the same    *)
(* sign and no larger, although it is scaled, truncated, cut into words and *)
(* put together again.                                                      *)
NeverBeyond ==
  [][\A r \in Writable : target'[r] # target[r] =>
       \/ 0 <= target'[r] /\ target'[r] <= sent[r]
       \/ target'[r] <= 0 /\ sent[r] <= target'[r]]_vars

(* With the wrong unit id configured an undisturbed diagnosis ends with a   *)
(* scan that shows the id of the device as live, also when the device       *)
(* answers nothing but errors or a gateway answers for the missing one; and *)
(* no other id is shown with data.                                          *)
Told(id) == \E i \in 1..Len(scan) : scan[i].id = id /\ scan[i].alive
Only(id) == \A i \in 1..Len(scan) : scan[i].status = "data" => scan[i].id = id

Discriminates ==
  [][op' = "idle" /\ op \in {"probe", "scan"} =>
       Only(actual) /\ (calm /\ serving /\ actual # Slave => Told(actual))]_vars

=============================================================================
