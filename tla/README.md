# PyEMS in TLA+

PyEMS runs a small power plant from a Raspberry Pi: a scan cycle reads meters and
inverters over Modbus, controllers claim an active-power setpoint, an allocator
arbitrates, and a driver writes the result back. A web UI edits the site file,
starts and stops the loop and passes operator commands to it. This directory
models the parts where order, time and failure decide whether that works, checks
them with TLC on small instances and proves the main invariants with TLAPS.

All paths below are relative to the repository; `pyems/` stands for `src/pyems/`.

## 1. The system

| component | state it keeps | operations | talks to |
|---|---|---|---|
| Scan cycle (`scheduler.py`) | last run of each task, overrun flag | `step`, `run`, `stop` | everything below, once per cycle, in one thread |
| Safety interlock (`controllers/safety.py`) | tripped, last measurement and its change | `execute` | ages in the tag pool, request board, journal |
| Request board and allocator (`allocation/`) | standing claims, retained setpoint, verdicts, alarms | `post`, `withdraw`, `resolve` | controllers above it, tag pool below it |
| Cached driver (`drivers/cached.py`) | cache, stamps, setpoint mirror, dirty set, command queue | `read_state`, `write_setpoints`, `send_command`; worker thread: poll, flush | control thread and worker share it under one lock |
| Composite driver (`drivers/composite.py`) | endpoints to reconnect, failed and healthy ids | `read_state`, `write_setpoints`, `connect`, `disconnect` | one Modbus session per endpoint, shared by devices |
| Modbus driver (`drivers/modbus_device.py`) | last good read per register | read, write, decode, encode, probe | the bus |
| Operator commands (`commands.py`, `generation_gate.py`, `hard_switch.py`) | the command file; last id seen, allowed | UI writes, EMS reads once per cycle | UI threads and EMS through one file |
| Journal (`events.py`) | active alarms, the log | `raise_alarm`, `clear_alarm` | interlock, allocator |
| Lifecycle (`ui.py`: `EmsManager`, `SimManager`; `telemetry.py`) | handle of the child; age of the telemetry file | RUN, STOP, UI exit | request threads, systemd, the loop |
| Simulated device (`sim/device.py`, `sim/plant.py`) | registers, faults, setpoints taken; the plant | serve reads and writes, publish, faults | the driver over Modbus |
| Diagnosis (`ui.py`: `diagnose_device`, `probe_registers`, `scan_unit_ids`) | the entries so far | probe, unit-id scan | a device |
| Clock (`ui.py`: `TimeController`, `time_service.py`) | settings file, status file, OS clock | NTP, manual time, zone, sync now | request threads, root helpers, a minute timer |
| Control laws (export limit, connection-point PID, headroom, compliance) | integral, timers | `execute` | measurements, board |
| UI sessions, site files, network (`ui.py`: `UIApp`, `NetworkController`) | live session, site file, error log | live start/read/stop, save, switch site, IP | request threads |
| Start-up (`ems.py`), tables, schema, recorder, deployment | none while the loop runs | - | - |

What is hard in it:

* two threads on one cache: the control thread publishes and sends commands while
  the worker is on a bus that may take seconds, fail halfway or die;
* time: staleness limits, keep-alive, cycle length and poll length add up, and the
  interlock must trip in bounded time without tripping for nothing;
* failure at any point: a journal that cannot be written, a dead worker, a killed
  process, a device that half answers, a gateway whose socket is a zombie;
* one file as a channel between a threaded HTTP server and the loop, stamped with a
  wall clock that operators and NTP set;
* processes known only by a handle and by the age of the file they write;
* feedback: the setpoint is computed from samples of the meter and of the unit that
  are of different instants, and goes through ramp, deadband, lag and a
  register that counts in hundreds of watts, so that the loop may rest short
  of what it should reach;
* numbers: a setpoint is scaled, truncated and cut into words, and put together
  again by the device;
* one clock and one settings file between request threads, root helpers that
  systemd runs one at a time and a timer, none of which waits for all the others.

`PROJECT.json` lists each hazard at its line, with the properties that watch it.

What makes each part correct: the allocator stays in the envelope, obeys the
gradient and lands safety pins at once; the driver calls nothing written that is
not, loses no command, and publishes whole values with honest ages; the interlock
catches every guard in bounded time, lets go again, and its records agree; a
command acts once and never across a restart; a child process is never lost and
STOP means stopped; the control laws bring the export under its limit and the unit
back to all it may make; what a device is told is never more than what was
commanded; an acknowledged time setting was applied and an NTP schedule corrects
the clock.

## 2. The modules

Each module opens with what it abstracts. One action stands for one operation or
for one step of an operation that the other thread can get between.

**Allocation** (`allocation/request.py`, `allocator.py`). One channel: channels share
nothing. `Post`, `Withdraw` are the board's methods, `Resolve` is
`ChannelArbiter.resolve` with the expiry purge, narrowing, target, deadband, ramp,
clamp, alarms and the bounded write to the tag pool in one step; `Tick` is time.
The narrowing is stated without a loop (`Arbitrated`: a claim is honored iff it
meets what the honored claims before it leave). **AllocationLoop** transcribes the
loop of the code as a fold and `LoopAgrees` checks the two against each other in
every state reached.

**WritePath** (`cached.py`, write side). Control thread: `Publish`, `SendCommand`. Worker:
`TakeCommands`, `WriteCommand`, `CommandsDelivered` or `RequeueCommands`,
`Snapshot`, `WriteSetpoints`, `SetpointsFlushed`, `NextPass`. A batch of commands is
reduced to the last for each register (`Effective`) and written one register at a time
in the order of the devices and their profiles (`WritePlan`, `Planned`), with the control
thread, the bus and the clock between any two; setpoints are written in one step, as
nothing depends on their order. A failed write may have reached its register all the
same, and after one the rest of a batch may or may not be written. The bus fails and recovers and registers drift
(a device reset, a local operator).

**Delivery** is what the control loop may rely on of that driver, with no threads, no
clock and no bus: a mirror of setpoints, each outstanding until its value has arrived,
and a line of commands, numbered as they are sent, that loses its front only once
performed. For one register commands arrive in the order in which they were sent;
between registers nothing is promised, because the code does not keep it. WritePath
implements it: `Service == INSTANCE Delivery WITH ...` maps the mirror to
`wanted`, the dirty set to `outstanding`, the batch in the worker's hands plus the
queue to the line, and `KeepsPromise` is `Service!Spec`.

**ReadPath** (`cached.py` read side, `composite.py`). A poll is `BeginPoll`, one
`ReadDevice` per device in site order, `EndPoll`; the control thread copies the values
(`CopyCache`) and then asks for the ages (`ReadAges`) as two steps, because only
each of them is under the lock. Both polling modes (device ids or none), devices
sharing an endpoint or not, good reads, rejected registers, transport errors,
sessions dropped from the other side. Time is the number of device reads: no poll
is given a duration.

**Reading** is what the control loop may rely on of the read side, as Delivery is of the
write side: a register with an age. A device's value is all of one reading and is replaced
only by a later one; its age starts over with the value, never alone; what the control
thread takes is the register of one instant. ReadPath implements it: `Register ==
INSTANCE Reading WITH ...` maps the value to the reads since it was taken (a value of
several polls maps to nothing Reading has), the stamps to the ages and the copy to what
is held, and `KeepsReading` is `Register!Spec`.

**Commands** (`commands.py`, `generation_gate.py`, `hard_switch.py`). A request is
`Issue` (the stamp), `ReadDocument`, `Replace`; the loop is `Scan`, with a task that
may or may not be due. The file may be missing or unreadable, the loop killed
and started, the clock set back once.

**SafetyCycle** (`scheduler.py`, `safety.py`, with the ages of `cached.py` and the
alarms of `events.py`). A cycle is `ReadState`, then `Execute` (tasks due, interlock
with trip, hold or release) or `Skip` (tasks not due), then `Publish`; the abort
paths are `AbortInJournal` and `AbortOnDeadWorker`. `Pass` is a pass of the worker,
`Tick` the clock, `StartEms` and `Down` the supervisor. `Resolved` takes
from Allocation what `PinLands` proves there: a live safety pin is what is published.

**ControlLoop** (`controllers/`, `sim/plant.py`) closes the loop around one unit. A
cycle is `Move` (the plant), `Poll` or `PollLate` (which devices delivered), `Execute`
(every controller: the safety claim, the export cap, the regulation in its two
modes, the compliance monitor, the headroom cap), `Resolve` (the arbiter, by
`INSTANCE Allocation`) and `Flush` or `FlushLate`. The PID keeps its order of
operations: tracking of the applied setpoint, candidate, clamp, back-calculation. Power
is on a grid; products with gains are rounded towards zero to it.

**RegisterCodec** and **DeviceLink** (`modbus_device.py`, `sim/device.py`, the diagnosis
in `ui.py`). The codec is a set of operators on registers of one or two words. The link is
one device and one client: either the I/O worker's flush and poll, a request per
register (`Write`, `Skip`, `Read`, with the lost ones `WriteLost` and `ReadLost`), or the
diagnosis, a request per register and then per unit id (`Probe`, `Scan`). Between any
two requests the plant publishes, faults come and go and the server stops or
starts again from zeros; a gateway may answer for units that are not there.

**ControllerClock** (`ui.py`: `TimeController`; `time_service.py`). A request is `Begin` (it
reads the settings, without the lock), `Store` or `StoreFails` (under the lock: merge,
write, start the unit), then `Acknowledge` or `Abandon` after 20 s. A helper runs its commands
one by one (`Load`, `ApplyZone`, `StopAuto`, `SetEntered`, `SetSampled`, any of which may
fail); `Adjust` is timesyncd. A unit that runs already is joined, not started again.
The status file and the queries are left out.

**EmsLifecycle** (`ui.py`: `EmsManager`, `SimManager`, `main`). A RUN is `BeginRun`
(the look at the telemetry), `LaunchChild` or `LaunchUnit` (Popen under the lock, or
systemctl), then the wait (`Look`, `Poll`, `GiveUp`); a STOP is `BeginStop`, `Own`,
`Take`, `Terminate`, `Wait`; the main thread goes through the last three on exit.
`mode` is fixed for a behaviour: a child, a systemd unit, or the simulator.
Processes are started elsewhere, publish, fall silent, and end at any time.

ControlLoop is composed with Allocation and DeviceLink with the codec; WritePath
refines Delivery and ReadPath refines Reading. The others meet at names: `Resolved` in SafetyCycle is
Allocation's promise, the write age and the read ages in SafetyCycle are what
WritePath and ReadPath show the driver to deliver, the flush and poll of DeviceLink
are the writes and reads that those two take as one step, and the
supervisor's restart is the same external action in SafetyCycle, Commands and
EmsLifecycle. They are not composed into one state machine: each pair
shares one value (an age, a setpoint, a file), and the product would only
multiply states.

## 3. The runs

| run | instance | shows |
|---|---|---|
| `allocation` | safety pin, gate pin, cap, band with a ttl; envelope 0..6 | the retained setpoint stays in the envelope (`WithinEnvelope`), obeys the gradient except for safety (`GradientRespected`), lands safety pins in one cycle (`PinLands`), comes closer to each honored range until it is within the deadband (`Approaches`) and settles once claims stop changing (`Settles`); the loop of the code and the declarative arbitration are one (`LoopAgrees`) |
| `write` | one setpoint with two values, a start and a stop register, two sends | the driver keeps the promise of Delivery (`KeepsPromise`); what counts as flushed is in the device (`CleanIsWritten`); the write age stays within `rewrite + 2 * pass` (`WriteAgeBounded`); once the bus stays up every command is performed (`CommandsPerformed`) and every setpoint arrives (`Converges`) |
| `read` | a meter and an inverter, two endpoints, both modes | what is published is a register with an age, with whole values that never go back (`KeepsReading`); ages are honest to one poll (`AgeHonest`), a wrong age lasts one cycle (`StaleForOneCycle`), devices are isolated and heal (`Isolated`) |
| `commands` | two request threads, file faults, one clock step | each command acts at most once (`ActsOnce`), leftovers are inert (`RestartGuard`), a stop reaches (`StopReaches`) |
| `safety` | one meter, all guards, dying worker, failing journal, restarts | reaction within three longest cycles (`Caught`), records agree (`InterlockAgrees`), trips have a cause (`TripHasCause`), land (`TripLands`) and end (`Releases`) |
| `lifecycle` | two requests, the main thread, three processes | children accounted for (`Accounted`), STOP reaches (`StopReaches`), requests answered (`Answered`) |
| `control` | a unit of 12, loads of 0 and 9, a resource of 3 and 15, three disturbances | no controller posts a claim that raises (`ClaimsAccepted`); the integral stays within `MaxMemory`, 24 here (`Unwound`); disturbances over, the export comes under the limit (`ComesUnder`), the unit comes back to what it may make (`Recovers`), and the monitor reports exactly the unit that does not follow (`Flagged`) |
| `link` | two measurements, two setpoints, words of eight values, two disturbances | a good poll brings each measurement as it was during that poll (`PollIsCurrent`); the others land past a register that always fails (`OthersLand`); setpoints not reported as rejected are in the device (`WritesLand`), and never more than was commanded (`NeverBeyond`); a diagnosis finds the right unit id (`Discriminates`) |
| `clock` | two requests, a day of three minutes, two zones, a clock that is wrong | an acknowledged setting was applied as stored (`AppliedAsStored`), every request is answered (`RequestsEnd`), a standing NTP schedule brings clock and zone right (`KeepsTime`); the types include who holds the lock (`ClockTypeOK`) |

Three further runs each check one sentence of the repository that the code does not
keep; TLC's counterexample is the finding.

| run | sentence | what happens |
|---|---|---|
| `commands_clobber` | `commands.py:72`, no clobbering | two overlapping requests: the second puts the other's old half back, a stop is lost |
| `safety_journal` | `safety.py:31`, lands in one cycle | with a journal that cannot be written each trip ends the process before the safe value is written, and so does the next |
| `control_locked` | `setpoint_headroom.py:52`, startable at zero | with a headroom below the arbiter's deadband, which nothing refuses, the unit never leaves zero |

Seen while modelling, without a run of their own:

* a "hard" range is left by up to `deadband_w`, as the deadband is applied
  after the narrowing (`allocator.py:154`; `Approaches`, `Settles` and `Recovers` carry that slack);
* `cached.py:372` speaks of FIFO order, and `cached.py:124` and `:207` of a command that
  is performed exactly once per call. Within a batch only the last command for each
  register is written, in profile order (`modbus_device.py:535`), and a batch that failed
  is written again: with a register each for start and stop (as in
  `profiles/inverters/sim_sun2000_switch.yaml`, start first) a stop and a later start that
  stand in the queue together, after an outage for instance, reach the device as start,
  stop, and a pulse may be given twice or, of two alike, once. Delivery promises what
  holds, the order and the last command of each register; `KeepsPromise` and
  `CommandsPerformed` say nothing of the order between two;
* after the clock is set back a restarted loop takes an old start for a new one
  (`commands.py:191`; `RestartGuard` and `ActsOnce` exclude it by name);
* RUN does not see a loop that has not published yet, so that there may be two
  (`ui.py:1337` against `ui.py:1241`), and a RUN in the last moment of the UI's exit
  leaves a child behind (`ui.py:2426`);
* the write age the interlock watches is refreshed by commands too (`cached.py:388`);
* a profile with a setpoint whose bounds its register cannot hold is accepted and
  wraps (`modbus_device.py:538`; `Guarded` is the premise of the theorems);
* a time request that finds its unit running is acknowledged by the run it joined,
  which may have read older settings (`AppliedAsStored` excludes it by name);
* a due synchronisation overrides a manual time that was acknowledged in the same
  minute, and the first one after a change of zone may come at another minute
  (`time_service.py:85`).

### Bounds, and why they are enough

* *Allocation.* Two ranks above the pure claims, an equal-priority pair, conflicting
  ranges, a deadband of two against ramps of one and two, so that each of clamp,
  deadband and ramp wins somewhere; `MaxLag` 2 lets a ttl of 2 expire mid-cycle.
* *WritePath.* `MaxSent` 2 is the smallest number for which order and loss exist, for one
  register and for two. `WritePlan` puts start before stop, so that a batch is met in both
  orders of sending.
  `MaxLoop` bounds how long a pass lasts; the write age bound is stated in terms of it,
  as a pass takes a poll interval only while the devices answer in time
  (`cached.py:252` speaks of the interval).
* *ReadPath.* `Settle` 6 is three polls of two devices and is tight: with 5,
  `Isolated` fails. Ages saturate at `Settle`. With two devices the watched one
  comes before, after, on the same endpoint as or apart from its sibling.
  Endpoints are interchangeable; devices are not, as the order is the site's.
* *Commands.* `MaxClock` 2 gives every order of two stamps, a start and a restart;
  `MaxAge` 0 makes every delay stale.
* *SafetyCycle.* Cycle, pass and limits are one or two ticks, which makes
  limits, cycles and skipped cycles collide in every order. `Reaction` is
  `3 * MaxCycle` and tight. `Settle` 2 ticks of quiet (a cycle and a pass) is tight
  as well: shorter, and a trip without a cause is found. The checked instance has
  the meter only, an instance with a second device and one with `MaxCycle` 2 and
  `Settle` 4 pass too and are left out for their length.
* *ControlLoop.* The numbers keep the order of a real site: ramp, deadband, band
  and headroom below the rating, the register's count below the deadband, loads and
  resources on both sides of every limit. Three disturbances let two fall into
  one transient and one after it; `MaxLag` 2 gives a cycle that is late.
  The grid is coarse, so the slack of `Recovers` is stated as the formula it comes from;
  it is half the rating, so that the property bites only where the resource and the load
  leave the unit more than that.
  `MaxLoad` 9 is the larger load. `MaxMemory` 24 is twice the unit's rating; the instance
  reaches -21 and 5.
* *DeviceLink.* Words of eight values make one- and two-word registers, signed and
  not, wrap within reach; one measurement is out of bounds in one sample. Two
  disturbances are a fault and its end, or one and a lost answer.
* *ControllerClock.* Two requests and the timer are the smallest number for a join next to
  a due synchronisation. A day of three minutes puts every minute next to the due
  one; the zones are a minute apart; the clock is found right or two minutes ahead.
* *EmsLifecycle.* Two non-supervised processes allow a child that is being stopped
  next to a new child or a stranger. One site is enough for the passing run: there a
  site only decides whether telemetry looks alive, which one stranger already
  makes arbitrary.

### Fairness

Safety properties use none. `allocation`: `Resolve` and `Tick` are fair, since every
cycle resolves. `write`: the worker loops and time passes; that the bus works again
is a premise of each property, never assumed by the specification. `safety`: both threads take
their steps, time passes, and the supervisor restarts (systemd's
`Restart=on-failure`); repaired reads, writes and disks are premises. `commands`: the
loop scans. `lifecycle`: a thread of the UI that can move does; nothing is assumed
of children, which may ignore SIGTERM, nor of systemd. `control`: the cycle goes
on; late polls and flushes are bounded as disturbances. `link`: the worker's loop
goes on; serving and absence of faults are premises. `clock`: threads and helpers go on,
the minute timer fires and finds the due minute once a day; failing commands are
bounded. `read` needs none.

## 4. The proofs

TLAPS checks these for every value of the constants that the named assumptions
allow (priorities are numbers, ranks distinct, limits and bounds positive).

* `AllocationProofs`: `TypeCorrect`, `EnvelopeHolds`, `AlarmsAgree`, `GradientHolds`,
  `PinHolds`, `NeverAwayHolds`, `ApproachHolds`. The last four are action properties of
  `Resolve`; the work is in lemmas on `Room`, `Arbitrated` and `Nearest`. `ApproachHolds`
  assumes ramps that are not zero, which the configuration does not demand
  (`allocator.py:69`): with a ramp of zero a channel never moves. It is what
  `Settles` rests on: with steady claims no distance grows, and one that is not yet within the
  deadband shrinks in each cycle. `LoopComputesVerdict` (`LoopAgrees`, for a finite set of
  requesters) says that the loop of `resolve` computes the verdict that `Arbitrated` describes
  and no other; its induction goes over the set of turns (`WellFoundedInduction`), the
  loop being a recursive function. `ResolutionDetermined`: in every state there is exactly
  one value that a resolution may retain.
* `WritePathProofs`: `TypeCorrect`, `CleanHolds`, `WriteAgeHolds`, `PromiseKept`.
  `CleanIsWritten` is not inductive: while the bus answers, the register already
  holds the snapshot, not the mirror. The strengthening relates snapshot, mirror,
  dirty set and register at each place of the worker. The write age adds how much of
  the bound each place of the pass has used up. `PromiseKept` is the refinement,
  `Spec => KeepsPromise`: each step of the driver is a step of Delivery or a stutter.
  It needs two things more: as long as no write of a batch has failed, the registers
  written so far hold what it asks for (`BatchHolds`), and numbers grow along
  the line, with what has reached a register no later than what is still to reach it
  (`Numbered`): a batch that failed half way and went back in front of the
  queue overtakes nothing.
* `CommandsProofs`: `TypeCorrect`, `LeftoversIgnored`, `EachActsOnce`. The invariant orders
  all stamps: in flight, in the file, last seen, acted on.
* `SafetyCycleProofs`: `TypeCorrect`, `RecordsAgree`, `CaughtInTime`,
  `NoTripWithoutCause`. The reaction
  time needs `Deadline`: for each stage of a cycle, how much of the reaction time
  must be left, that an overdue guard in the cache means an overdue reading
  at the next cycle, and that the freeze clock lags two cycles at most. `NoTripWithoutCause`
  (`TripHasCause`) assumes what a site must configure: age limits no shorter than the
  longest pass of the worker, and `Rewrite + MaxPass <= MaxWriteAge`. `Causes` relates calm
  time to the ages: what calm began before the last pass has been read and written since,
  or the interlock, which saw the missing first write, has tripped already.
* `ReadPathProofs`: `TypeCorrect`, `PublishedWhole`, `AgesHonest`, `StaleOnce`,
  `NeverBounced`, `DevicesHeal`, `ReadingKept`. The invariant says, for a poll in progress,
  which registers belong to it and what a reconnect has been used for. `DevicesHeal`
  (`Isolated`, for `Settle >= 3 * Len(Order)`) counts undisturbed reads: off track (the
  socket is dead and the endpoint not marked) they are fewer than a poll and what this
  one has made; on track but not yet published, fewer than two polls and that. `ReadingKept`
  is the refinement, `Spec => KeepsReading`; beyond wholeness it needs `FromBefore`: what
  is in the cache is older than the reads of the poll in progress, so that no poll puts
  an older value over a newer one.
* `UIProofs`: of EmsLifecycle `TypeCorrect`, `ChildrenAccounted`, `StopsReach`. `Accounted`
  needs to know which processes the manager never owns; `StopReaches` needs `Pending`:
  until its STOP waits for it, a child is the manager's handle, or held by
  another STOP, or dead. Of ControllerClock `ClockTyped` and `SettingsApplied`
  (`AppliedAsStored`), from `ClockInv`: the request that holds the lock finds the file as it
  stored it, the helper that it started goes by that file from its first step on, and a
  helper that has ended well went by it (`Faithful`). A request that joined a running
  helper is outside of that, which is why the property names it.
* `ControlProofs`: `TypeCorrect`, `ClaimsHold`, `MemoryBounded`, `EnvelopeKept`,
  `GradientKept`, `TripLands`. For any gains, limits, measurements and tick lengths every
  claim is one that `ActivePowerRequest` accepts (`ClaimsHold`), and the closed loop keeps
  the arbiter's promises: envelope, gradient, and the safe power resolved in the cycle that
  trips. `MemoryBounded` is `Unwound`, for every sequence of stale samples, late cycles,
  trips and clouds, if `MaxMemory` is such that at that value the share that
  back-calculation takes off in a run outweighs what integration and tracking can add
  (`Outweighed`); `EnoughMemory` names one for all gains with `Tt <= Den`, that is, where
  the tracking factor is not rounded to nothing. The bound alone is not inductive: tracking
  adds the difference between what was requested and what was applied, so `MemoryInv`
  also bounds the meter, the setpoint and the request, which without an upper bound
  (regulation of import) is tied to the integral itself. The theorem's bound is coarse: for
  the constants of the run it asks for 84, where TLC finds that 24 do.
* `DeviceLinkProofs`: `TypeCorrect`, `NoneBeyond`, `SetpointsLand`, `PollsAreCurrent`,
  `IdsDiscriminated`. Below
  them are the arithmetic of truncation and rounding and `RoundTrip`: decoding undoes
  encoding for every count a register holds. `NoneBeyond` and `SetpointsLand` assume that
  the bounds of each setpoint are such counts (`Guarded`), `PollsAreCurrent` that what is
  published is: where a profile breaks that, the properties fail. `IdsDiscriminated` needs
  `PlaceOf`: a scan by size comes past every id of a finite set.

Each invariant was first checked by TLC, as part of the runs or of a run of its own.
Types are not properties of the runs, except for `clock`, where they say who holds the
lock. The theorems also cover `AlarmsMatchVerdicts`, `NeverAway`, `NoMidPollBounce` and
`Coherent`, which the runs leave to stronger properties or to the proofs.

Every safety invariant and action property of the passing runs is a theorem. Model-checked
only are the liveness properties (`Settles`, `Converges`, `CommandsPerformed`, `StopReaches` of
Commands, `TripLands` of SafetyCycle, `Releases`, `Answered`, `RequestsEnd`, `ComesUnder`,
`Recovers`, `Flagged`, `OthersLand`, `KeepsTime`): they hold under fairness, which the prover
does not handle.

## 5. Not modelled

* Nothing outlives a call: site validators and wiring (`ems.py`), tag tables, UI schema and
  profiles, HTTP routing, recorder, logging. Browser code is presentation, and deployment
  files enter as the supervisor's behaviour.
* UI sessions: they read devices for a page. The one race (`ui.py:2169`) is listed
  as a hazard.
* NetworkController: it calls `nmcli` and parses; NetworkManager keeps the state.
* The simulator's weather and load curves, its panel and history.

What would come next: SafetyCycle over Delivery and Reading; the measures that the other
liveness properties rest on, as `Approaches` is that of `Settles`; the sessions of the UI with
the site file swapped under a running child.

## 6. Running

`tlc -workers 2 -config MCReadPath.cfg MCReadPath` checks an instance; the longest
takes about two minutes. `tlapm ReadPathProofs.tla` checks the proofs of a module.
`PROJECT.json` maps every definition to the lines it models and gives each property a mutation
of the model, in the module beside the original, that breaks it.
