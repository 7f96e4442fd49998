------------------------------ MODULE Commands ------------------------------
(***************************************************************************)
(* The operator command channel: request threads of the UI rewrite one     *)
(* command file (commands.py), the EMS reads it every cycle                *)
(* (CommandFileReader.apply), the generation gate pins the unit while      *)
(* generation is not allowed, and the hard switch sends a latched start or *)
(* stop.  The EMS may be killed and started again at any moment, and the   *)
(* wall clock, the only clock both sides share, may be set back.           *)
(*                                                                         *)
(* An absent, unreadable or malformed file reads as the empty document on  *)
(* both sides, in any cycle and for as long as it lasts.                   *)
(***************************************************************************)
EXTENDS Integers, FiniteSets

CONSTANTS
  Writer,      \* the UI's request threads
  MaxAge,      \* max_age_s: how old a start may be when the EMS first sees it
  MaxClock,    \* bound: the last wall-clock reading
  FileFaults,  \* whether reads and writes of the file fail
  ClockSteps,  \* whether the wall clock is ever set back
  None

ASSUME CommandsAssumption ==
  /\ MaxAge \in Nat /\ MaxClock \in Nat
  /\ FileFaults \in BOOLEAN /\ ClockSteps \in BOOLEAN
  /\ None \notin Int

VARIABLES
  clock,     \* time.time(); two commands never get the same stamp unless it is set back
  file,      \* the command document
  writer,    \* per request thread: where it is, its command, the document it read
  running,   \* whether the EMS runs
  runStart,  \* _run_start_wall
  allowed,   \* _generation_allowed, published as sys.generation_allowed
  lastSoft,  \* _last_generation_command_id
  pinned,    \* whether the gate's claim stands on the board
  lastHard,  \* HardSwitchController._last_id
  runState,  \* sys.inverter_run_state
  thisRun,   \* history: the commands stamped since the EMS started
  grant,     \* history: the start that allows generation, None when it is not
  overlapped,\* history: whether two requests of the UI ever overlapped
  stepped,   \* history: whether the clock was ever set back
  enabled,   \* history: how often each start turned generation on, at most 2
  fired      \* history: how often each hard command was sent, at most 2

reader == <<allowed, lastSoft, grant, enabled>>
switch == <<lastHard, runState, fired>>
ems    == <<running, runStart, pinned, reader, switch>>
ui     == <<file, writer, overlapped>>
vars   == <<clock, stepped, ui, thisRun, ems>>

Stamp  == 0..MaxClock
Action == {"start", "stop"}

(* issued_at and generation_enabled; inverter_command_id and inverter_command. *)
Document == [at : Stamp \cup {None}, on : BOOLEAN, id : Stamp \cup {None}, act : Action \cup {None}]
Empty    == [at |-> None, on |-> FALSE, id |-> None, act |-> None]

(* A command is the fields it sets: a document whose other half is empty. *)
Soft(on, t)  == [at |-> t, on |-> on, id |-> None, act |-> None]
Hard(act, t) == [at |-> None, on |-> FALSE, id |-> t, act |-> act]

(* doc.update(fields) *)
Merge(doc, c) == IF c.at # None THEN [doc EXCEPT !.at = c.at, !.on = c.on]
                                ELSE [doc EXCEPT !.id = c.id, !.act = c.act]

(* The histories count up to 2, and end when the clock is set back. *)
Counted(history, t) == [history EXCEPT ![t] = IF @ = 0 THEN 1 ELSE 2]
NothingCounted == [t \in Stamp |-> 0]

Idle == [pc |-> "idle", command |-> Empty, base |-> Empty]

Init ==
  /\ clock = 0
  /\ file = Empty
  /\ writer = [w \in Writer |-> Idle]
  /\ running = FALSE /\ runStart = 0
  /\ allowed = FALSE /\ lastSoft = None /\ grant = None
  /\ pinned = FALSE
  /\ lastHard = None /\ runState = None
  /\ thisRun = {} /\ overlapped = FALSE /\ stepped = FALSE
  /\ enabled = NothingCounted /\ fired = NothingCounted

(* What a read of the file returns. *)
Readings == IF FileFaults THEN {file, Empty} ELSE {file}

-----------------------------------------------------------------------------
(* The UI *)

(* write_command_file, write_inverter_command: time.time(), then the update. *)
Issue(w) ==
  /\ writer[w].pc = "idle"
  /\ clock < MaxClock
  /\ clock' = clock + 1
  /\ \E c \in {Soft(on, clock + 1) : on \in BOOLEAN} \cup {Hard(a, clock + 1) : a \in Action} :
       writer' = [writer EXCEPT ![w] = [pc |-> "stamped", command |-> c, base |-> Empty]]
  /\ thisRun' = thisRun \cup {clock + 1}
  /\ overlapped' = (overlapped \/ \E v \in Writer : writer[v].pc # "idle")
  /\ UNCHANGED <<file, stepped, ems>>

ReadDocument(w) ==
  /\ writer[w].pc = "stamped"
  /\ \E doc \in Readings : writer' = [writer EXCEPT ![w].pc = "read", ![w].base = doc]
  /\ UNCHANGED <<clock, stepped, file, overlapped, thisRun, ems>>

(* os.replace, or an error that leaves the old file. *)
Replace(w) ==
  /\ writer[w].pc = "read"
  /\ \/ file' = Merge(writer[w].base, writer[w].command)
     \/ FileFaults /\ UNCHANGED file
  /\ writer' = [writer EXCEPT ![w] = Idle]
  /\ UNCHANGED <<clock, stepped, overlapped, thisRun, ems>>

-----------------------------------------------------------------------------
(* The EMS *)

StartEms ==
  /\ ~running
  /\ running' = TRUE /\ runStart' = clock
  /\ allowed' = FALSE /\ lastSoft' = None /\ grant' = None
  /\ pinned' = FALSE
  /\ lastHard' = None /\ runState' = None
  /\ thisRun' = {}
  /\ UNCHANGED <<clock, stepped, ui, enabled, fired>>

KillEms ==
  /\ running
  /\ running' = FALSE
  /\ allowed' = FALSE /\ grant' = None /\ pinned' = FALSE
  /\ UNCHANGED <<clock, stepped, ui, thisRun, runStart, lastSoft, enabled, switch>>

AgeOf(stamp) == IF clock > stamp THEN clock - stamp ELSE 0

(* Mutant: a command stamped at the start of the run belongs to it. *)
FromThisRunOrStart(stamp) == stamp # None /\ stamp >= runStart
FromThisRun(stamp) == stamp # None /\ stamp > runStart

(* Mutant: the command acted on is not remembered. *)
NewSoftAlways(doc) == FromThisRun(doc.at)
NewSoft(doc) == FromThisRun(doc.at) /\ doc.at # lastSoft

(* Mutant: an old stop is as stale as an old start. *)
HonoredIfFresh(doc) == NewSoft(doc) /\ AgeOf(doc.at) <= MaxAge
Honored(doc) == NewSoft(doc) /\ (doc.on => AgeOf(doc.at) <= MaxAge)

(* The soft half of apply: a command of an earlier run, or no command, takes *)
(* the permission away; a new one is remembered, a stale start without being *)
(* honored; one seen before changes nothing.                                 *)
ApplySoft(doc) ==
  /\ allowed' = IF ~FromThisRun(doc.at) THEN FALSE
                ELSE IF Honored(doc) THEN doc.on ELSE allowed
  /\ lastSoft' = IF NewSoft(doc) THEN doc.at ELSE lastSoft
  /\ grant' = IF ~allowed' THEN None ELSE IF Honored(doc) THEN doc.at ELSE grant
  /\ enabled' = IF allowed' /\ ~allowed /\ ~stepped THEN Counted(enabled, doc.at) ELSE enabled

Published(doc) == FromThisRun(doc.id)

Fires(doc) == Published(doc) /\ doc.id # lastHard

(* HardSwitchController.execute: every pair of the action goes to the queue *)
(* of the command sink.                                                     *)
ExecuteHardSwitch(doc) ==
  \/ /\ Fires(doc)
     /\ lastHard' = doc.id
     /\ runState' = doc.act
     /\ fired' = IF stepped THEN fired ELSE Counted(fired, doc.id)
  \/ ~Fires(doc) /\ UNCHANGED switch

(* One cycle of the scheduler: apply, then the controllers when their task  *)
(* is due, which jitter may put off to the next cycle.                      *)
Scan(doc, due) ==
  /\ running
  /\ ApplySoft(doc)
  /\ IF due THEN pinned' = ~allowed' /\ ExecuteHardSwitch(doc)
            ELSE UNCHANGED <<pinned, switch>>
  /\ UNCHANGED <<clock, stepped, ui, thisRun, running, runStart>>

-----------------------------------------------------------------------------
(* The surroundings *)

Tick ==
  /\ clock < MaxClock
  /\ clock' = clock + 1
  /\ UNCHANGED <<stepped, ui, thisRun, ems>>

(* An operator or a time service sets the clock back; bound: once. *)
StepBack ==
  /\ ClockSteps
  /\ ~stepped
  /\ clock' \in 0..(clock - 1)
  /\ stepped' = TRUE
  /\ enabled' = NothingCounted /\ fired' = NothingCounted
  /\ UNCHANGED <<ui, thisRun, running, runStart, pinned, allowed, lastSoft, grant, lastHard, runState>>

Next ==
  \/ \E w \in Writer : Issue(w) \/ ReadDocument(w) \/ Replace(w)
  \/ StartEms \/ KillEms
  \/ \E doc \in Readings, due \in BOOLEAN : Scan(doc, due)
  \/ Tick \/ StepBack

(* A running EMS keeps cycling, reads the file again and again, and its     *)
(* tasks come due again and again.                                          *)
Spec == Init /\ [][Next]_vars /\ WF_vars(Scan(file, TRUE))

-----------------------------------------------------------------------------
(* Properties *)

(* Types; permission and pin exist only while the EMS runs, and whatever it *)
(* remembers carries a stamp later than its start.                          *)
TypeOK ==
  /\ clock \in Stamp
  /\ file \in Document
  /\ writer \in [Writer -> [pc : {"idle", "stamped", "read"}, command : Document, base : Document]]
  /\ running \in BOOLEAN /\ allowed \in BOOLEAN /\ pinned \in BOOLEAN
  /\ overlapped \in BOOLEAN /\ stepped \in BOOLEAN
  /\ runStart \in Stamp
  /\ lastSoft \in Stamp \cup {None} /\ lastHard \in Stamp \cup {None}
  /\ grant \in Stamp \cup {None}
  /\ runState \in Action \cup {None}
  /\ thisRun \subseteq Stamp
  /\ enabled \in [Stamp -> 0..2] /\ fired \in [Stamp -> 0..2]
  /\ ~running => ~allowed /\ ~pinned
  /\ allowed <=> grant # None
  /\ \A t \in {grant, lastSoft, lastHard} : running /\ t # None => t > runStart

(* With a clock that was never set back, a leftover of an earlier run has   *)
(* no effect: only a start stamped during this run allows generation, and   *)
(* only a hard command stamped during this run is the last one sent,        *)
(* whatever happens to the file and however many requests overlap.          *)
RestartGuard ==
  running /\ ~stepped => /\ allowed => grant \in thisRun
                         /\ lastHard # None => lastHard \in thisRun

(* One start turns generation on at most once, through restarts of the EMS, *)
(* lost files and unreadable ones: a stop, a restart or an unreadable file  *)
(* is undone by a new start only.  A hard command is sent at most once.     *)
(* Both take requests that never overlap.                                   *)
ActsOnce ==
  ~stepped /\ ~overlapped => \A t \in Stamp : enabled[t] <= 1 /\ fired[t] <= 1

(* A stop that stays in the file, or no readable file, gets the unit pinned *)
(* for good, however late the EMS sees it.                                  *)
StopReaches ==
  []~stepped /\ <>[](running /\ (file.at # None => ~file.on)) => <>[](~allowed /\ pinned)

-----------------------------------------------------------------------------
(* What the code's own comments say and the code does not do *)

(* "share ONE file without clobbering each other's keys": a hard command    *)
(* leaves the soft half of the file as it is, a soft one the hard half.     *)
Unclobbered ==
  [][\A w \in Writer : Replace(w) =>
       IF writer[w].command.at # None
       THEN file'.id = file.id /\ file'.act = file.act
       ELSE file'.at = file.at /\ file'.on = file.on]_vars

=============================================================================
