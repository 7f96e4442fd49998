----------------------------- MODULE WritePath ------------------------------
(***************************************************************************)
(* The write path of CachedDriver (drivers/cached.py): the control thread  *)
(* publishes setpoints into a cache and queues one-shot commands; the      *)
(* worker thread "modbus-io" flushes both to the devices, commands first.  *)
(* Each step below is what one thread does between two points where the    *)
(* other can run: the lock is held only inside a step, never across the    *)
(* bus transaction.                                                        *)
(*                                                                         *)
(* Time is counted in ticks.  An age saturates where nothing tells it from *)
(* a larger one.                                                           *)
(***************************************************************************)
EXTENDS Integers, Sequences, FiniteSets

CONSTANTS
  Setpoint,   \* the continuously mirrored setpoint registers (_writable)
  SpValue,    \* the values published for them
  Command,    \* the one-shot command registers (_command)
  CmdValue,   \* the values written to them
  WritePlan,  \* the place of each in the order of writing: devices, then profile
  Poll,       \* _poll, in ticks
  Rewrite,    \* _rewrite_s, in ticks: the keep-alive of unchanged setpoints
  MaxLoop,    \* bound: the ticks one pass of the worker lasts at most
  MaxSent,    \* bound: commands sent
  BusFaults,  \* whether the bus ever fails
  None

ASSUME WritePathAssumption ==
  /\ Poll \in Nat /\ Rewrite \in Nat /\ MaxLoop \in Nat /\ Poll <= MaxLoop
  /\ MaxSent \in Nat
  /\ BusFaults \in BOOLEAN
  /\ Setpoint \cap Command = {}
  /\ None \notin SpValue
  /\ WritePlan \in [Command -> Nat]
  /\ \A t, u \in Command : WritePlan[t] = WritePlan[u] => t = u

VARIABLES
  spCache,    \* _sp_cache: the setpoints published, None before the first
  dirty,      \* _sp_dirty: changed since the last good flush
  sinceFlush, \* ticks since the last good flush (_sp_flushed_at), at most Rewrite
  queue,      \* _cmd_queue
  pc,         \* where the worker stands in a pass of _poll_loop
  taken,      \* the commands a flush has taken out of the queue
  left,       \* the places of them still to be written
  lost,       \* whether a write of them failed
  due,        \* the setpoints a flush has snapshot, None for those not due
  spent,      \* ticks since this pass began (t0)
  writeAge,   \* ticks since _last_write_ok, at most MaxWriteAge, which means never
  bus,        \* whether the devices answer
  register,   \* the devices' registers, None before the first write
  drifted,    \* setpoint registers something else overwrote since the last flush
  reached,    \* history: per command register, the last command that reached it
  sent,       \* commands sent so far; each carries its number
  latest,     \* per command register: the last command sent to it
  unflushed   \* history: no setpoint was flushed yet, or the last flush failed

control == <<spCache, dirty, sent, latest>>
batch   == <<taken, left, lost>>
device  == <<register, reached, drifted, unflushed>>
vars == <<control, sinceFlush, queue, pc, batch, due, spent, writeAge, bus, device>>

MaxWriteAge == Rewrite + 2 * MaxLoop + 1

Order == [tag : Command, value : CmdValue, no : 1..MaxSent]

(* The commands on their way: the batch a flush has taken, then the queue. *)
Line == taken \o queue

-----------------------------------------------------------------------------
(* The control thread *)

Init ==
  /\ spCache = [s \in Setpoint |-> None]
  /\ dirty = {}
  /\ sinceFlush = [s \in Setpoint |-> Rewrite]
  /\ queue = <<>> /\ taken = <<>> /\ left = {} /\ lost = FALSE
  /\ due = [s \in Setpoint |-> None]
  /\ pc = "commands" /\ spent = 0
  /\ writeAge = MaxWriteAge
  /\ bus = "up"
  /\ register = [t \in Setpoint \cup Command |-> None]
  /\ reached = [t \in Command |-> 0]
  /\ drifted = {}
  /\ sent = 0 /\ latest = [t \in Command |-> None]
  /\ unflushed = TRUE

(* write_setpoints: the scheduler publishes every setpoint each cycle; only *)
(* the ones that changed turn dirty.                                        *)
Publish ==
  \E v \in [Setpoint -> SpValue] :
    /\ spCache' = v
    /\ dirty' = dirty \cup {s \in Setpoint : spCache[s] # v[s]}
    /\ UNCHANGED <<sent, latest, sinceFlush, queue, pc, batch, due, spent, writeAge,
                   bus, device>>

SendCommand(t, v) ==
  /\ sent < MaxSent
  /\ sent' = sent + 1
  /\ latest' = [latest EXCEPT ![t] = [tag |-> t, value |-> v, no |-> sent + 1]]
  /\ queue' = Append(queue, [tag |-> t, value |-> v, no |-> sent + 1])
  /\ UNCHANGED <<spCache, dirty, sinceFlush, pc, batch, due, spent, writeAge, bus, device>>

-----------------------------------------------------------------------------
(* The worker: _flush_commands *)

(* The places of a batch that reach a register: the io_state, set from the  *)
(* whole batch before anything is written, keeps the last of each register. *)
Effective(q) == {i \in DOMAIN q : \A j \in DOMAIN q : j > i => q[j].tag # q[i].tag}

TakeCommands ==
  /\ pc = "commands"
  /\ taken' = queue /\ left' = Effective(queue) /\ lost' = FALSE
  /\ queue' = <<>>
  /\ pc' = IF queue = <<>> THEN "setpoints" ELSE "cmd_write"
  /\ UNCHANGED <<control, sinceFlush, due, spent, writeAge, bus, device>>

(* inner.write_setpoints(channels=tags) goes by the plan, not by the queue. *)
Planned(i) == \A j \in left : WritePlan[taken[i].tag] <= WritePlan[taken[j].tag]

Perform(i) ==
  /\ register' = [register EXCEPT ![taken[i].tag] = taken[i].value]
  /\ reached' = [reached EXCEPT ![taken[i].tag] = taken[i].no]

(* One register is written.  A write that fails may have arrived all the    *)
(* same; after one, those behind it are attempted (a rejection) or not (an  *)
(* error of the bus).                                                       *)
WriteCommand ==
  /\ pc = "cmd_write"
  /\ \E i \in left :
       /\ Planned(i)
       /\ left' = left \ {i}
       /\ lost' = (lost \/ bus = "down")
       /\ Perform(i) \/ (lost' /\ UNCHANGED <<register, reached>>)
       /\ pc' = IF left' # {} THEN "cmd_write" ELSE IF lost' THEN "cmd_failed" ELSE "cmd_ok"
  /\ UNCHANGED <<control, sinceFlush, queue, taken, due, spent, writeAge, bus, drifted, unflushed>>

CommandsDelivered ==
  /\ pc = "cmd_ok"
  /\ writeAge' = 0
  /\ taken' = <<>>
  /\ pc' = "setpoints"
  /\ UNCHANGED <<control, sinceFlush, queue, left, lost, due, spent, bus, device>>

(* Mutants: the failed batch goes behind the queue, or is dropped. *)
RequeueBehind ==
  /\ pc = "cmd_failed"
  /\ queue' = queue \o taken
  /\ taken' = <<>> /\ lost' = FALSE
  /\ pc' = "setpoints"
  /\ UNCHANGED <<control, sinceFlush, left, due, spent, writeAge, bus, device>>

RequeueNothing ==
  /\ pc = "cmd_failed"
  /\ taken' = <<>> /\ lost' = FALSE
  /\ pc' = "setpoints"
  /\ UNCHANGED <<control, sinceFlush, queue, left, due, spent, writeAge, bus, device>>

(* A failed batch goes back in front of what was queued meanwhile. *)
RequeueCommands ==
  /\ pc = "cmd_failed"
  /\ queue' = taken \o queue
  /\ taken' = <<>> /\ lost' = FALSE
  /\ pc' = "setpoints"
  /\ UNCHANGED <<control, sinceFlush, left, due, spent, writeAge, bus, device>>

-----------------------------------------------------------------------------
(* The worker: _flush_setpoints *)

(* Mutant: no keep-alive, only changes are flushed. *)
DueIfDirty(s) == spCache[s] # None /\ s \in dirty

Due(s) == spCache[s] # None /\ (s \in dirty \/ sinceFlush[s] >= Rewrite)

InFlight == {s \in Setpoint : due[s] # None}

(* _sp_ready holds as soon as the cache holds anything. *)
Snapshot ==
  /\ pc = "setpoints"
  /\ due' = [s \in Setpoint |-> IF Due(s) THEN spCache[s] ELSE None]
  /\ pc' = IF \E s \in Setpoint : Due(s) THEN "sp_write" ELSE "wait"
  /\ UNCHANGED <<control, sinceFlush, queue, batch, spent, writeAge, bus, device>>

WriteRegisters(S) ==
  /\ register' = [t \in Setpoint \cup Command |-> IF t \in S THEN due[t] ELSE register[t]]
  /\ drifted' = drifted \ S
  /\ UNCHANGED reached

(* A failed flush may have reached any part of the registers; it leaves the *)
(* driver's bookkeeping alone, so the setpoints stay dirty or due.          *)
WriteSetpoints ==
  /\ pc = "sp_write"
  /\ \/ /\ bus = "up"
        /\ WriteRegisters(InFlight)
        /\ pc' = "sp_ok"
        /\ UNCHANGED <<due, unflushed>>
     \/ /\ bus = "down"
        /\ \E S \in SUBSET InFlight : WriteRegisters(S)
        /\ pc' = "wait"
        /\ due' = [s \in Setpoint |-> None]
        /\ unflushed' = TRUE
  /\ UNCHANGED <<control, sinceFlush, queue, batch, spent, writeAge, bus>>

(* Mutant: whatever was in flight counts as flushed. *)
FlushedBlindly(s) == s \in InFlight

(* A setpoint republished while it was in flight stays dirty. *)
Flushed(s) == s \in InFlight /\ spCache[s] = due[s]

(* Mutant: a keep-alive rewrite does not count as a good write. *)
SetpointsFlushedQuietly ==
  /\ pc = "sp_ok"
  /\ writeAge' = IF InFlight \cap dirty = {} THEN writeAge ELSE 0
  /\ sinceFlush' = [s \in Setpoint |-> IF s \in InFlight THEN 0 ELSE sinceFlush[s]]
  /\ dirty' = {s \in dirty : ~Flushed(s)}
  /\ due' = [s \in Setpoint |-> None]
  /\ pc' = "wait"
  /\ unflushed' = FALSE
  /\ UNCHANGED <<spCache, sent, latest, queue, batch, spent, bus, register, reached, drifted>>

SetpointsFlushed ==
  /\ pc = "sp_ok"
  /\ writeAge' = 0
  /\ sinceFlush' = [s \in Setpoint |-> IF s \in InFlight THEN 0 ELSE sinceFlush[s]]
  /\ dirty' = {s \in dirty : ~Flushed(s)}
  /\ due' = [s \in Setpoint |-> None]
  /\ pc' = "wait"
  /\ unflushed' = FALSE
  /\ UNCHANGED <<spCache, sent, latest, queue, batch, spent, bus, register, reached, drifted>>

(* _read_once and the wait for the rest of the poll interval. *)
NextPass ==
  /\ pc = "wait"
  /\ spent >= Poll
  /\ spent' = 0
  /\ pc' = "commands"
  /\ UNCHANGED <<control, sinceFlush, queue, batch, due, writeAge, bus, device>>

-----------------------------------------------------------------------------
(* Time and the devices *)

Tick ==
  /\ spent < MaxLoop
  /\ spent' = spent + 1
  /\ sinceFlush' = [s \in Setpoint |-> IF sinceFlush[s] < Rewrite THEN sinceFlush[s] + 1 ELSE Rewrite]
  /\ writeAge' = IF writeAge < MaxWriteAge THEN writeAge + 1 ELSE MaxWriteAge
  /\ UNCHANGED <<control, queue, pc, batch, due, bus, device>>

BusChange ==
  /\ BusFaults
  /\ bus' = IF bus = "up" THEN "down" ELSE "up"
  /\ UNCHANGED <<control, sinceFlush, queue, pc, batch, due, spent, writeAge, device>>

(* A device reset or a local operator overwrites a setpoint register. *)
Drift(s, v) ==
  /\ BusFaults
  /\ register[s] # v
  /\ register' = [register EXCEPT ![s] = v]
  /\ drifted' = drifted \cup {s}
  /\ UNCHANGED <<control, sinceFlush, queue, pc, batch, due, spent, writeAge, bus, reached, unflushed>>

Worker ==
  \/ TakeCommands \/ WriteCommand \/ CommandsDelivered \/ RequeueCommands
  \/ Snapshot \/ WriteSetpoints \/ SetpointsFlushed \/ NextPass

Next ==
  \/ Publish
  \/ \E t \in Command, v \in CmdValue : SendCommand(t, v)
  \/ Worker
  \/ Tick
  \/ BusChange
  \/ \E s \in Setpoint, v \in SpValue : Drift(s, v)

(* The worker thread runs and time passes; nothing obliges the bus to work. *)
Spec == Init /\ [][Next]_vars /\ WF_vars(Worker) /\ WF_vars(Tick)

-----------------------------------------------------------------------------
(* Properties *)

(* Every variable has its type, and the worker holds a batch or a snapshot  *)
(* only in the steps that deal with it.                                     *)
TypeOK ==
  /\ spCache \in [Setpoint -> SpValue \cup {None}]
  /\ dirty \subseteq Setpoint
  /\ sinceFlush \in [Setpoint -> 0..Rewrite]
  /\ queue \in Seq(Order)
  /\ taken \in Seq(Order)
  /\ pc \in {"commands", "cmd_write", "cmd_ok", "cmd_failed",
             "setpoints", "sp_write", "sp_ok", "wait"}
  /\ left \subseteq DOMAIN taken /\ lost \in BOOLEAN
  /\ pc # "cmd_write" => left = {}
  /\ pc \notin {"cmd_write", "cmd_ok", "cmd_failed"} => taken = <<>>
  /\ due \in [Setpoint -> SpValue \cup {None}]
  /\ pc \notin {"sp_write", "sp_ok"} => due = [s \in Setpoint |-> None]
  /\ spent \in 0..MaxLoop
  /\ writeAge \in 0..MaxWriteAge
  /\ bus \in {"up", "down"}
  /\ register \in [Setpoint \cup Command -> SpValue \cup CmdValue \cup {None}]
  /\ reached \in [Command -> 0..MaxSent]
  /\ drifted \subseteq Setpoint
  /\ sent \in 0..MaxSent
  /\ latest \in [Command -> Order \cup {None}]
  /\ unflushed \in BOOLEAN

(* A setpoint the driver counts as flushed is in the device: what the       *)
(* control loop published last, whatever was in flight when it changed,     *)
(* unless something else overwrote the register since.                      *)
CleanIsWritten ==
  \A s \in Setpoint : spCache[s] # None /\ s \notin dirty /\ s \notin drifted
                        => register[s] = spCache[s]

(* The driver keeps the promise of Delivery, which is one for each          *)
(* register: no command is dropped, none reaches its register after a later *)
(* one for that register has, none leaves the line before its register      *)
(* holds what it or a later one asked for, a device is only ever given      *)
(* values that were published, and a setpoint stops being dirty only when   *)
(* the value that is wanted has arrived, however the two threads and the    *)
(* bus interleave.  Commands for different registers may change places.     *)
Service == INSTANCE Delivery WITH
  Value <- SpValue, wanted <- spCache, outstanding <- dirty, transfer <- due,
  line <- Line, overwritten <- drifted

KeepsPromise == Service!Spec

(* With a bus that works from some point on, no external change and a       *)
(* steady control loop, the registers come to hold the published setpoints, *)
(* the keep-alive repairing the ones that drifted.                          *)
Converges ==
  <>[](bus = "up") /\ <>[][UNCHANGED spCache /\ ~\E s \in Setpoint, v \in SpValue : Drift(s, v)]_vars
    => <>[](\A s \in Setpoint : spCache[s] # None => register[s] = spCache[s])

(* With a bus that works from some point on, the line empties and each      *)
(* command register holds the last command sent to it.                      *)
CommandsPerformed ==
  <>[](bus = "up")
    => <>[](/\ Line = <<>>
            /\ \A t \in Command : latest[t] # None => register[t] = latest[t].value)

(* As long as flushes succeed, sys.write_age_s stays within the bound the   *)
(* start-up check of max_write_age_s relies on, rewrite + 2 * poll, so the  *)
(* write guard never trips on a working device.                             *)
WriteAgeBounded ==
  ~unflushed /\ pc # "sp_ok" => writeAge <= Rewrite + 2 * MaxLoop

=============================================================================
