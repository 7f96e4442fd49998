---------------------------- MODULE EmsLifecycle ----------------------------
(***************************************************************************)
(* RUN and STOP from the UI (ui.py): the EmsManager, as the parent of the  *)
(* control loop ("child") or through systemd ("unit"), and the SimManager  *)
(* ("sim"), which starts and stops the simulator the same way.  Every HTTP *)
(* request has a thread of its own; the main thread ends the UI.           *)
(*                                                                         *)
(* A process is known to the UI only by its handle and by what it serves:  *)
(* the telemetry file of its site, or the simulator's panel.  That a site  *)
(* looks alive starts with a publication and ends when none came for long  *)
(* enough, because the process ended, is slow, or cannot write.            *)
(***************************************************************************)
CONSTANTS
  Request,  \* the threads of the HTTP server
  Main,     \* the UI's main thread
  Process,  \* the processes there can be at a time
  Unit,     \* the one the supervisor runs
  Site,     \* the site files the UI may edit
  UnitSite, \* the site file of the supervised EMS, in its unit file
  None

ASSUME EmsLifecycleAssumption ==
  /\ Main \notin Request
  /\ Unit \in Process
  /\ None \notin Process
  /\ UnitSite \in Site

VARIABLES
  mode,    \* who runs the process: "child", "unit" or "sim"
  ui,      \* "up", "leaving" (after Ctrl-C) or "down"
  site,    \* the manager's site_path
  proc,    \* its _proc, the handle of the child
  life,    \* each process: "none", "building", "running" or "stopping"
  runs,    \* the site file each process was started with
  mine,    \* the processes this run of the UI has started
  again,   \* the supervisor is about to restart the unit
  fresh,   \* the sites whose telemetry (panel) looks alive
  pc,      \* what each thread does next
  held,    \* the handle a thread has taken to stop it
  outside, \* the STOPs that found no live child of their own
  asked    \* history: the children without a stopper when a STOP began

observed == <<fresh, again>>
processes == <<life, runs, mine>>
vars == <<mode, ui, site, proc, processes, observed, pc, held, outside, asked>>

Thread == Request \cup {Main}

Alive(p) == p # None /\ life[p] # "none"

Taken == {held[t] : t \in Thread}

(* Processes that nobody knows and that do not run.                        *)
Free == {p \in Process \ {Unit} :
           life[p] = "none" /\ p # proc /\ p \notin Taken /\ \A t \in Thread : p \notin asked[t]}

-----------------------------------------------------------------------------
Init ==
  /\ mode \in {"child", "unit", "sim"}
  /\ ui = "up"
  /\ site \in Site
  /\ proc = None
  /\ life = [p \in Process |-> "none"]
  /\ runs = [p \in Process |-> UnitSite]
  /\ mine = {}
  /\ again = FALSE
  /\ fresh = {}
  /\ pc = [t \in Thread |-> "idle"]
  /\ held = [t \in Thread |-> None]
  /\ outside = {}
  /\ asked = [t \in Thread |-> {}]

(* Process p is started with site s.                                       *)
Launch(p, s) ==
  /\ life' = [life EXCEPT ![p] = "building"]
  /\ runs' = [runs EXCEPT ![p] = s]

Over(p) ==
  /\ life' = [life EXCEPT ![p] = "none"]
  /\ runs' = [runs EXCEPT ![p] = UnitSite]

(* A thread is done with its request.                                     *)
Answer(t) ==
  /\ pc' = [pc EXCEPT ![t] = "idle"]
  /\ held' = [held EXCEPT ![t] = None]
  /\ outside' = outside \ {t}
  /\ asked' = [asked EXCEPT ![t] = {}]

GoTo(t, place) == pc' = [pc EXCEPT ![t] = place] /\ UNCHANGED <<held, outside, asked>>

-----------------------------------------------------------------------------
(* start(): EmsManager looks at the telemetry before it takes the lock,    *)
(* SimManager probes the panel inside.                                     *)
BeginRun(r) ==
  /\ ui # "down" /\ pc[r] = "idle"
  /\ IF mode # "sim" /\ site \in fresh THEN Answer(r) ELSE GoTo(r, "launch")
  /\ UNCHANGED <<mode, ui, site, proc, processes, observed>>

MayLaunchAlways == TRUE
MayLaunch == ~Alive(proc) /\ (mode = "sim" => site \notin fresh)

(* Popen of a child, under the lock; without room for one it raises.       *)
LaunchChild(r) ==
  /\ mode # "unit" /\ pc[r] = "launch"
  /\ IF MayLaunch /\ Free = {} THEN Answer(r) ELSE GoTo(r, "look")
  /\ IF MayLaunch /\ Free # {}
       THEN \E p \in Free : Launch(p, site) /\ proc' = p /\ mine' = mine \cup {p}
       ELSE UNCHANGED <<proc, processes>>
  /\ UNCHANGED <<mode, ui, site, observed>>

(* systemctl start: nothing if the unit runs, after the stop if it stops.  *)
LaunchUnit(r) ==
  /\ mode = "unit" /\ pc[r] = "launch" /\ life[Unit] # "stopping"
  /\ IF life[Unit] = "none"
       THEN Launch(Unit, UnitSite) /\ UNCHANGED mine /\ again' = FALSE
       ELSE UNCHANGED <<processes, again>>
  /\ GoTo(r, "look")
  /\ UNCHANGED <<mode, ui, site, proc, fresh>>

(* The wait for signs of life: of the telemetry or the panel first ...     *)
Look(r) ==
  /\ pc[r] = "look" /\ site \in fresh
  /\ Answer(r)
  /\ UNCHANGED <<mode, ui, site, proc, processes, observed>>

(* ... then of the process: a child that has ended is forgotten ...        *)
Poll(r) ==
  /\ pc[r] = "look"
  /\ IF mode = "unit" THEN life[Unit] = "none" ELSE proc # None /\ ~Alive(proc)
  /\ proc' = None
  /\ Answer(r)
  /\ UNCHANGED <<mode, ui, site, processes, observed>>

(* ... until wait_s are over.                                              *)
GiveUp(r) ==
  /\ pc[r] = "look"
  /\ Answer(r)
  /\ UNCHANGED <<mode, ui, site, proc, processes, observed>>

-----------------------------------------------------------------------------
(* The loop is judged by its process, the simulator by the handle alone.   *)
Disowned == IF mode = "child" THEN ~Alive(proc) ELSE proc = None

(* stop(): whether there is a child of its own ...                         *)
BeginStop(r) ==
  /\ mode # "unit" /\ ui # "down" /\ pc[r] = "idle"
  /\ pc' = [pc EXCEPT ![r] = "own"]
  /\ outside' = IF Disowned THEN outside \cup {r} ELSE outside
  /\ asked' = [asked EXCEPT ![r] = {p \in mine : Alive(p)} \ Taken]
  /\ UNCHANGED <<mode, ui, site, proc, processes, observed, held>>

(* ... a process that was started elsewhere is left alone ...              *)
Own(r) ==
  /\ pc[r] = "own"
  /\ IF r \in outside /\ site \in fresh THEN Answer(r) ELSE GoTo(r, "take")
  /\ UNCHANGED <<mode, ui, site, proc, processes, observed>>

(* ... and stop_managed: the handle changes hands under the lock ...       *)
Take(t) ==
  /\ pc[t] = "take"
  /\ held' = [held EXCEPT ![t] = proc]
  /\ proc' = None
  /\ pc' = [pc EXCEPT ![t] = "terminate"]
  /\ UNCHANGED <<mode, ui, site, processes, observed, outside, asked>>

(* SIGTERM ends a loop when its cycle is over, and at once one that has    *)
(* not installed its handler yet.                                          *)
Signalled(p) ==
  IF life[p] \in {"running", "stopping"} /\ mode # "sim"
    THEN life' = [life EXCEPT ![p] = "stopping"] /\ UNCHANGED runs
    ELSE Over(p)

TerminateQuietly(t) ==
  /\ pc[t] = "terminate"
  /\ IF Alive(held[t]) THEN Signalled(held[t]) ELSE UNCHANGED <<life, runs>>
  /\ Answer(t)
  /\ UNCHANGED <<mode, ui, site, proc, mine, observed>>

Terminate(t) ==
  /\ pc[t] = "terminate"
  /\ IF Alive(held[t])
       THEN Signalled(held[t]) /\ GoTo(t, "wait")
       ELSE Answer(t) /\ UNCHANGED <<life, runs>>
  /\ UNCHANGED <<mode, ui, site, proc, mine, observed>>

(* The wait for its end, and SIGKILL when it takes too long.               *)
WaitPolitely(t) ==
  /\ pc[t] = "wait" /\ ~Alive(held[t])
  /\ Answer(t)
  /\ UNCHANGED <<mode, ui, site, proc, processes, observed>>

Wait(t) ==
  /\ pc[t] = "wait"
  /\ Over(held[t])
  /\ Answer(t)
  /\ UNCHANGED <<mode, ui, site, proc, mine, observed>>

(* systemctl stop: a restart that was due is off, the loop gets SIGTERM,   *)
(* and the command returns when it has ended.                              *)
BeginStopUnit(r) ==
  /\ mode = "unit" /\ ui # "down" /\ pc[r] = "idle"
  /\ again' = FALSE
  /\ Signalled(Unit)
  /\ GoTo(r, "unit")
  /\ UNCHANGED <<mode, ui, site, proc, mine, fresh>>

EndStopUnit(r) ==
  /\ pc[r] = "unit" /\ life[Unit] # "stopping"
  /\ Answer(r)
  /\ UNCHANGED <<mode, ui, site, proc, processes, observed>>

-----------------------------------------------------------------------------
(* POST /api/site-file: the managers follow the file, the child does not.  *)
SetSiteFile(s) ==
  /\ ui # "down" /\ mode # "sim"
  /\ site' = s
  /\ UNCHANGED <<mode, ui, proc, processes, observed, pc, held, outside, asked>>

(* Ctrl-C: the main thread goes through stop_managed, which does nothing   *)
(* in systemd mode.  The server's threads are daemons: they go on until    *)
(* the process ends.                                                       *)
BeginExit ==
  /\ ui = "up"
  /\ ui' = "leaving"
  /\ IF mode = "unit"
       THEN UNCHANGED <<pc, asked>>
       ELSE /\ pc' = [pc EXCEPT ![Main] = "take"]
            /\ asked' = [asked EXCEPT ![Main] = {p \in mine : Alive(p)} \ Taken]
  /\ UNCHANGED <<mode, site, proc, processes, observed, held, outside>>

Gone ==
  /\ ui' = "down"
  /\ proc' = None
  /\ mine' = {}
  /\ pc' = [t \in Thread |-> "idle"]
  /\ held' = [t \in Thread |-> None]
  /\ outside' = {}
  /\ asked' = [t \in Thread |-> {}]
  /\ UNCHANGED <<mode, site, life, runs, observed>>

EndExit == ui = "leaving" /\ pc[Main] = "idle" /\ Gone

UIKilled == ui # "down" /\ Gone

UIStart ==
  /\ ui = "down"
  /\ ui' = "up"
  /\ site' \in Site
  /\ UNCHANGED <<mode, proc, processes, observed, pc, held, outside, asked>>

-----------------------------------------------------------------------------
(* Somebody starts a process in a terminal.                                *)
StartOutside(p, s) ==
  /\ p \in Free
  /\ Launch(p, s)
  /\ mine' = mine \ {p}
  /\ UNCHANGED <<mode, ui, site, proc, observed, pc, held, outside, asked>>

(* build_ems is done, or the simulator's servers are up.                   *)
Built(p) ==
  /\ life[p] = "building"
  /\ life' = [life EXCEPT ![p] = "running"]
  /\ UNCHANGED <<mode, ui, site, proc, runs, mine, observed, pc, held, outside, asked>>

(* A cycle publishes, the one SIGTERM lets finish too.                     *)
Publish(p) ==
  /\ life[p] \in {"running", "stopping"}
  /\ fresh' = fresh \cup {runs[p]}
  /\ UNCHANGED <<mode, ui, site, proc, processes, again, pc, held, outside, asked>>

Stale(s) ==
  /\ s \in fresh
  /\ fresh' = fresh \ {s}
  /\ UNCHANGED <<mode, ui, site, proc, processes, again, pc, held, outside, asked>>

(* A process ends: a bad site, an error, Ctrl-C in its terminal, or the    *)
(* SIGTERM it has got.  The supervisor restarts what has failed.           *)
Ends(p) ==
  /\ Alive(p)
  /\ Over(p)
  /\ again' \in {again, p = Unit /\ life[p] # "stopping"}
  /\ UNCHANGED <<mode, ui, site, proc, mine, fresh, pc, held, outside, asked>>

Restart ==
  /\ again
  /\ again' = FALSE
  /\ Launch(Unit, UnitSite)
  /\ UNCHANGED <<mode, ui, site, proc, mine, fresh, pc, held, outside, asked>>

Stopper(t) == Take(t) \/ Terminate(t) \/ Wait(t)

Server(r) == LaunchChild(r) \/ Look(r) \/ Poll(r) \/ GiveUp(r) \/ Own(r) \/ Stopper(r)

Next ==
  \/ \E r \in Request : BeginRun(r) \/ LaunchUnit(r) \/ BeginStop(r) \/ Server(r)
                        \/ BeginStopUnit(r) \/ EndStopUnit(r)
  \/ Stopper(Main)
  \/ \E s \in Site : SetSiteFile(s) \/ Stale(s)
  \/ BeginExit \/ EndExit \/ UIKilled \/ UIStart
  \/ \E p \in Process : Built(p) \/ Publish(p) \/ Ends(p) \/ \E s \in Site : StartOutside(p, s)
  \/ Restart

(* The threads of a process run.  systemctl takes as long as it takes.     *)
Spec == Init /\ [][Next]_vars /\ WF_vars(Stopper(Main)) /\ \A r \in Request : WF_vars(Server(r))

-----------------------------------------------------------------------------
Place == {"idle", "launch", "look", "own", "take", "terminate", "wait", "unit"}

(* Type invariant; a thread holds a handle only while it stops it.         *)
TypeOK ==
  /\ mode \in {"child", "unit", "sim"}
  /\ ui \in {"up", "leaving", "down"}
  /\ site \in Site
  /\ proc \in Process \cup {None}
  /\ life \in [Process -> {"none", "building", "running", "stopping"}]
  /\ runs \in [Process -> Site]
  /\ mine \subseteq Process
  /\ again \in BOOLEAN
  /\ fresh \subseteq Site
  /\ pc \in [Thread -> Place]
  /\ held \in [Thread -> Process \cup {None}]
  /\ outside \subseteq Thread
  /\ asked \in [Thread -> SUBSET Process]
  /\ \A t \in Thread : held[t] # None => pc[t] \in {"terminate", "wait"}

(* No process that this run of the UI started is ever out of reach: it is  *)
(* the one STOP would find, or a STOP is at it.  So there are never two of *)
(* them that nobody is stopping.                                           *)
Accounted == ui # "down" => \A p \in mine : Alive(p) => p = proc \/ p \in Taken

(* However requests overlap, when a STOP answers, accepted or refused,     *)
(* the child it was asked to stop has ended, or another STOP is at it.     *)
StopReaches ==
  [][\A t \in Thread : ui' # "down" /\ asked'[t] = {} =>
       \A p \in asked[t] : life'[p] = "none" \/ \E u \in Thread \ {t} : held'[u] = p]_vars

(* Every request for a child is answered, and the UI's exit is not held    *)
(* up, although a child may ignore SIGTERM.                                *)
Answered == \A t \in Thread : mode # "unit" /\ pc[t] # "idle" ~> pc[t] = "idle"

-----------------------------------------------------------------------------
(* What makes Accounted and StopReaches inductive: when a STOP's child can *)
(* still be at large, who holds what, and where the main thread is.        *)
Pending ==
  \A t \in Thread : \A p \in asked[t] :
    \/ life[p] = "none"
    \/ p = proc /\ pc[t] \in {"own", "take"}
    \/ p \in Taken

Bookkeeping ==
  /\ mode = "unit" => mine = {} /\ proc = None
  /\ Unit \notin mine
  /\ ui = "down" => mine = {} /\ proc = None /\ \A t \in Thread : pc[t] = "idle"
  /\ ui # "leaving" => pc[Main] = "idle"
  /\ \A t \in Thread :
       /\ Unit \notin asked[t]
       /\ t \in outside => asked[t] = {}
       /\ pc[t] \in {"idle", "launch", "look", "unit"} => t \notin outside /\ asked[t] = {}

IInv == TypeOK /\ Accounted /\ Pending /\ Bookkeeping

=============================================================================
