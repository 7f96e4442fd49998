------------------------------ MODULE UIProofs ------------------------------
(***************************************************************************)
(* What the UI's two managers of processes guarantee for any number of     *)
(* requests: EmsManager (EmsLifecycle) for any processes and sites, and    *)
(* TimeController (ControllerClock) for any zones, times and settings.     *)
(*                                                                         *)
(* Of EmsLifecycle, IInv is the inductive invariant: Pending says where    *)
(* the child of a STOP can be while the STOP is under way, Bookkeeping     *)
(* which processes and threads the managers' state speaks of.  Of          *)
(* ControllerClock it is ClockInv: Faithful says what the request that     *)
(* holds the lock may rely on, Wellformed what a helper knows.             *)
(***************************************************************************)
EXTENDS EmsLifecycle, ControllerClock, TLAPS

USE EmsLifecycleAssumption

THEOREM InitIInv == Init => IInv
<1> SUFFICES ASSUME Init PROVE IInv
  OBVIOUS
<1> USE DEF Init
<1>1. TypeOK
  BY DEF TypeOK, Place
<1>2. Accounted /\ Pending
  BY DEF Accounted, Pending
<1>3. Bookkeeping
  BY DEF Bookkeeping, Thread
<1> QED
  BY <1>1, <1>2, <1>3 DEF IInv

(* Types.                                                                  *)
LEMMA TypeStep == TypeOK /\ Bookkeeping /\ [Next]_vars => TypeOK'
<1> SUFFICES ASSUME TypeOK, Bookkeeping, [Next]_vars PROVE TypeOK'
  OBVIOUS
<1> USE DEF observed, processes, Place
<1>r. \A r \in Request : r \in Thread
  BY DEF Thread
<1>m. Main \in Thread
  BY DEF Thread
<1>1. ASSUME NEW r \in Request, BeginRun(r) PROVE TypeOK'
  <2>1. pc' \in [Thread -> Place] /\ held' \in [Thread -> Process \cup {None}]
        /\ outside' \subseteq Thread /\ asked' \in [Thread -> SUBSET Process]
        /\ \A t \in Thread : held'[t] # None => pc'[t] \in {"terminate", "wait"}
    BY <1>1, <1>r DEF BeginRun, TypeOK, Answer, GoTo
  <2> QED
    BY <1>1, <2>1 DEF BeginRun, TypeOK
<1>2. ASSUME NEW r \in Request, LaunchUnit(r) PROVE TypeOK'
  <2>1. pc' \in [Thread -> Place] /\ held' = held /\ outside' = outside /\ asked' = asked
        /\ held[r] = None /\ \A t \in Thread \ {r} : pc'[t] = pc[t]
    BY <1>2, <1>r DEF LaunchUnit, TypeOK, GoTo
  <2>2. life' \in [Process -> {"none", "building", "running", "stopping"}]
        /\ runs' \in [Process -> Site] /\ mine' = mine /\ again' \in BOOLEAN
    <3>1. CASE life[Unit] = "none"
      <4>1. life' = [life EXCEPT ![Unit] = "building"] /\ runs' = [runs EXCEPT ![Unit] = UnitSite]
            /\ mine' = mine /\ again' = FALSE
        BY <1>2, <3>1 DEF LaunchUnit, Launch
      <4> QED
        BY <4>1 DEF TypeOK
    <3>2. CASE life[Unit] # "none"
      BY <1>2, <3>2 DEF LaunchUnit, TypeOK
    <3> QED
      BY <3>1, <3>2
  <2> QED
    BY <1>2, <2>1, <2>2 DEF LaunchUnit, TypeOK
<1>3. ASSUME NEW r \in Request, BeginStop(r) PROVE TypeOK'
  <2>1. asked' \in [Thread -> SUBSET Process]
    BY <1>3, <1>r DEF BeginStop, TypeOK
  <2>2. outside' \subseteq Thread
    BY <1>3, <1>r DEF BeginStop, TypeOK
  <2>3. pc' \in [Thread -> Place] /\ held[r] = None
    BY <1>3, <1>r DEF BeginStop, TypeOK
  <2> QED
    BY <1>3, <1>r, <2>1, <2>2, <2>3 DEF BeginStop, TypeOK
<1>4. ASSUME NEW r \in Request, LaunchChild(r) PROVE TypeOK'
  <2>1. pc' \in [Thread -> Place] /\ held' \in [Thread -> Process \cup {None}]
        /\ outside' \subseteq Thread /\ asked' \in [Thread -> SUBSET Process]
        /\ \A t \in Thread : held'[t] # None => pc'[t] \in {"terminate", "wait"}
    BY <1>4, <1>r DEF LaunchChild, TypeOK, Answer, GoTo
  <2>2. CASE MayLaunch /\ Free # {}
    <3>1. PICK p \in Free : Launch(p, site) /\ proc' = p /\ mine' = mine \cup {p}
      BY <1>4, <2>2 DEF LaunchChild
    <3> QED
      BY <1>4, <2>1, <3>1 DEF LaunchChild, TypeOK, Launch, Free
  <2>3. CASE ~(MayLaunch /\ Free # {})
    BY <1>4, <2>1, <2>3 DEF LaunchChild, TypeOK
  <2> QED
    BY <2>2, <2>3
<1>5. ASSUME NEW r \in Request, Look(r) \/ Poll(r) \/ GiveUp(r) PROVE TypeOK'
  BY <1>5, <1>r DEF Look, Poll, GiveUp, TypeOK, Answer
<1>6. ASSUME NEW r \in Request, Own(r) PROVE TypeOK'
  <2>1. pc' \in [Thread -> Place] /\ held' \in [Thread -> Process \cup {None}]
        /\ outside' \subseteq Thread /\ asked' \in [Thread -> SUBSET Process]
        /\ \A t \in Thread : held'[t] # None => pc'[t] \in {"terminate", "wait"}
    BY <1>6, <1>r DEF Own, TypeOK, Answer, GoTo
  <2> QED
    BY <1>6, <2>1 DEF Own, TypeOK
<1>7. ASSUME NEW t \in Thread, Take(t) PROVE TypeOK'
  BY <1>7 DEF Take, TypeOK
<1>8. ASSUME NEW t \in Thread, Terminate(t) PROVE TypeOK'
  <2>1. pc' \in [Thread -> Place] /\ held' \in [Thread -> Process \cup {None}]
        /\ outside' \subseteq Thread /\ asked' \in [Thread -> SUBSET Process]
        /\ \A u \in Thread : held'[u] # None => pc'[u] \in {"terminate", "wait"}
    BY <1>8 DEF Terminate, TypeOK, Answer, GoTo
  <2>2. life' \in [Process -> {"none", "building", "running", "stopping"}] /\ runs' \in [Process -> Site]
    BY <1>8 DEF Terminate, TypeOK, Signalled, Over, Alive
  <2> QED
    BY <1>8, <2>1, <2>2 DEF Terminate, TypeOK
<1>9. ASSUME NEW t \in Thread, Wait(t) PROVE TypeOK'
  BY <1>9 DEF Wait, TypeOK, Answer, Over
<1>10. ASSUME NEW r \in Request, BeginStopUnit(r) PROVE TypeOK'
  <2>1. pc' \in [Thread -> Place] /\ held' = held /\ outside' = outside /\ asked' = asked
        /\ held[r] = None /\ \A t \in Thread \ {r} : pc'[t] = pc[t]
    BY <1>10, <1>r DEF BeginStopUnit, TypeOK, GoTo
  <2>2. life' \in [Process -> {"none", "building", "running", "stopping"}] /\ runs' \in [Process -> Site]
    BY <1>10 DEF BeginStopUnit, TypeOK, Signalled, Over
  <2> QED
    BY <1>10, <2>1, <2>2 DEF BeginStopUnit, TypeOK
<1>11. ASSUME NEW r \in Request, EndStopUnit(r) PROVE TypeOK'
  BY <1>11, <1>r DEF EndStopUnit, TypeOK, Answer
<1>12. ASSUME NEW s \in Site, SetSiteFile(s) \/ Stale(s) PROVE TypeOK'
  BY <1>12 DEF SetSiteFile, Stale, TypeOK
<1>13. ASSUME BeginExit PROVE TypeOK'
  <2>1. pc[Main] = "idle" /\ held[Main] = None
    BY <1>13, <1>m DEF BeginExit, Bookkeeping, TypeOK
  <2>2. asked' \in [Thread -> SUBSET Process] /\ pc' \in [Thread -> Place]
    BY <1>13, <1>m DEF BeginExit, TypeOK
  <2> QED
    BY <1>13, <1>m, <2>1, <2>2 DEF BeginExit, TypeOK
<1>14. ASSUME EndExit \/ UIKilled PROVE TypeOK'
  BY <1>14 DEF EndExit, UIKilled, Gone, TypeOK
<1>15. ASSUME UIStart PROVE TypeOK'
  BY <1>15 DEF UIStart, TypeOK
<1>16. ASSUME NEW p \in Process, Built(p) \/ Publish(p) PROVE TypeOK'
  BY <1>16 DEF Built, Publish, TypeOK
<1>17. ASSUME NEW p \in Process, Ends(p) PROVE TypeOK'
  BY <1>17 DEF Ends, Over, TypeOK
<1>18. ASSUME NEW p \in Process, NEW s \in Site, StartOutside(p, s) PROVE TypeOK'
  BY <1>18 DEF StartOutside, Launch, TypeOK
<1>19. ASSUME Restart PROVE TypeOK'
  BY <1>19 DEF Restart, Launch, TypeOK
<1>20. CASE UNCHANGED vars
  BY <1>20 DEF vars, TypeOK
<1> QED
  BY <1>r, <1>m, <1>1, <1>2, <1>3, <1>4, <1>5, <1>6, <1>7, <1>8, <1>9, <1>10, <1>11, <1>12, <1>13,
     <1>14, <1>15, <1>16, <1>17, <1>18, <1>19, <1>20 DEF Next, Server, Stopper

(* Bookkeeping.                                                            *)
LEMMA BookkeepingStep == TypeOK /\ Accounted /\ Bookkeeping /\ [Next]_vars => Bookkeeping'
<1> SUFFICES ASSUME TypeOK, Accounted, Bookkeeping, [Next]_vars PROVE Bookkeeping'
  OBVIOUS
<1> USE DEF observed, processes
<1>r. \A r \in Request : r \in Thread /\ r # Main
  BY DEF Thread
<1>m. Main \in Thread
  BY DEF Thread
<1>1. ASSUME NEW r \in Request, BeginRun(r) PROVE Bookkeeping'
  BY <1>1, <1>r, <1>m DEF BeginRun, TypeOK, Bookkeeping, Answer, GoTo
<1>2. ASSUME NEW r \in Request, LaunchUnit(r) PROVE Bookkeeping'
  BY <1>2, <1>r, <1>m DEF LaunchUnit, TypeOK, Bookkeeping, GoTo
<1>3. ASSUME NEW r \in Request, BeginStop(r) PROVE Bookkeeping'
  <2>1. Disowned => asked'[r] = {}
    <3>1. asked'[r] = {p \in mine : Alive(p)} \ Taken
      BY <1>3, <1>r DEF BeginStop, TypeOK
    <3>2. ASSUME Disowned PROVE \A p \in mine : Alive(p) => p \in Taken
      BY <1>3, <3>2 DEF BeginStop, Accounted, Disowned, Alive
    <3> QED
      BY <3>1, <3>2
  <2>2. Unit \notin asked'[r] /\ pc'[r] = "own"
    BY <1>3, <1>r DEF BeginStop, TypeOK, Bookkeeping
  <2>3. asked[r] = {} /\ (r \in outside' => asked'[r] = {})
    <3>1. asked[r] = {}
      BY <1>3, <1>r DEF BeginStop, Bookkeeping
    <3>2. r \in outside' => Disowned \/ r \in outside
      BY <1>3 DEF BeginStop
    <3>3. r \notin outside \/ Disowned \/ asked'[r] = {}
      BY <1>3, <1>r DEF BeginStop, Bookkeeping
    <3> QED
      BY <2>1, <3>1, <3>2, <3>3
  <2>4. \A t \in Thread \ {r} : asked'[t] = asked[t] /\ pc'[t] = pc[t] /\ (t \in outside' => t \in outside)
    BY <1>3, <1>r DEF BeginStop, TypeOK
  <2> QED
    BY <1>3, <1>r, <1>m, <2>2, <2>3, <2>4 DEF BeginStop, Bookkeeping
<1>4. ASSUME NEW r \in Request, LaunchChild(r) PROVE Bookkeeping'
  <2>1. mode # "unit" /\ mode' = mode /\ ui' = ui
    BY <1>4 DEF LaunchChild
  <2>2. Unit \notin mine' /\ ui # "down"
    BY <1>4, <1>r DEF LaunchChild, Free, Bookkeeping
  <2> QED
    BY <1>4, <1>r, <1>m, <2>1, <2>2 DEF LaunchChild, TypeOK, Bookkeeping, Answer, GoTo
<1>5. ASSUME NEW r \in Request, Look(r) \/ Poll(r) \/ GiveUp(r) PROVE Bookkeeping'
  BY <1>5, <1>r, <1>m DEF Look, Poll, GiveUp, TypeOK, Bookkeeping, Answer
<1>6. ASSUME NEW r \in Request, Own(r) PROVE Bookkeeping'
  BY <1>6, <1>r, <1>m DEF Own, TypeOK, Bookkeeping, Answer, GoTo
<1>7. ASSUME NEW t \in Thread, Take(t) PROVE Bookkeeping'
  BY <1>7, <1>m DEF Take, TypeOK, Bookkeeping
<1>8. ASSUME NEW t \in Thread, Terminate(t) PROVE Bookkeeping'
  BY <1>8, <1>m DEF Terminate, TypeOK, Bookkeeping, Answer, GoTo
<1>9. ASSUME NEW t \in Thread, Wait(t) PROVE Bookkeeping'
  BY <1>9, <1>m DEF Wait, TypeOK, Bookkeeping, Answer
<1>10. ASSUME NEW r \in Request, BeginStopUnit(r) PROVE Bookkeeping'
  BY <1>10, <1>r, <1>m DEF BeginStopUnit, TypeOK, Bookkeeping, GoTo
<1>11. ASSUME NEW r \in Request, EndStopUnit(r) PROVE Bookkeeping'
  BY <1>11, <1>r, <1>m DEF EndStopUnit, TypeOK, Bookkeeping, Answer
<1>12. ASSUME NEW s \in Site, SetSiteFile(s) \/ Stale(s) PROVE Bookkeeping'
  BY <1>12 DEF SetSiteFile, Stale, Bookkeeping
<1>13. ASSUME BeginExit PROVE Bookkeeping'
  <2>1. Unit \notin asked'[Main] /\ (Main \in outside => asked'[Main] = {}) /\ pc[Main] = "idle" 
        /\ (mode # "unit" => pc'[Main] = "take")
    <3>1. pc[Main] = "idle"
      BY <1>13 DEF BeginExit, Bookkeeping
    <3>2. CASE mode = "unit"
      BY <1>13, <1>m, <3>1, <3>2 DEF BeginExit, Bookkeeping
    <3>3. CASE mode # "unit"
      BY <1>13, <1>m, <3>1, <3>3 DEF BeginExit, Bookkeeping, TypeOK
    <3> QED
      BY <3>1, <3>2, <3>3
  <2> QED
    BY <1>13, <1>m, <2>1 DEF BeginExit, TypeOK, Bookkeeping
<1>14. ASSUME EndExit \/ UIKilled PROVE Bookkeeping'
  BY <1>14, <1>m DEF EndExit, UIKilled, Gone, Bookkeeping
<1>15. ASSUME UIStart PROVE Bookkeeping'
  BY <1>15 DEF UIStart, Bookkeeping
<1>16. ASSUME NEW p \in Process, Built(p) \/ Publish(p) \/ Ends(p) PROVE Bookkeeping'
  BY <1>16 DEF Built, Publish, Ends, Bookkeeping
<1>17. ASSUME NEW p \in Process, NEW s \in Site, StartOutside(p, s) PROVE Bookkeeping'
  BY <1>17 DEF StartOutside, Bookkeeping
<1>18. ASSUME Restart PROVE Bookkeeping'
  BY <1>18 DEF Restart, Bookkeeping
<1>19. CASE UNCHANGED vars
  BY <1>19 DEF vars, Bookkeeping
<1> QED
  BY <1>r, <1>m, <1>1, <1>2, <1>3, <1>4, <1>5, <1>6, <1>7, <1>8, <1>9, <1>10, <1>11, <1>12, <1>13,
     <1>14, <1>15, <1>16, <1>17, <1>18, <1>19 DEF Next, Server, Stopper

(* Accounted and Pending.                                                  *)
LEMMA ReachStep == IInv /\ TypeOK' /\ [Next]_vars => Accounted' /\ Pending'
<1> SUFFICES ASSUME IInv, TypeOK', [Next]_vars PROVE Accounted' /\ Pending'
  OBVIOUS
<1> USE DEF observed, processes, IInv
<1>r. \A r \in Request : r \in Thread /\ r # Main
  BY DEF Thread
<1>m. Main \in Thread
  BY DEF Thread
(* Nothing Accounted or Pending speaks of has changed, but for processes   *)
(* that ended and threads that hold nothing.                               *)
<1>q. ASSUME proc' = proc, mine' \subseteq mine, ui = "down" => ui' = "down",
             \A p \in Process : life'[p] = "none" \/ life[p] # "none" \/ p \notin mine',
             \A t \in Thread : \A p \in asked'[t] : life'[p] = "none" \/ life[p] # "none",
             \A t \in Thread : held[t] # None => held'[t] = held[t] \/ life'[held[t]] = "none",
             \A t \in Thread : asked'[t] = {} \/ (asked'[t] = asked[t] /\ (pc[t] \in {"own", "take"} => pc'[t] \in {"own", "take"}))
      PROVE  Accounted' /\ Pending'
  <2>1. ASSUME NEW p \in Process, p \in Taken, life'[p] # "none" PROVE p \in Taken'
    <3>1. PICK t \in Thread : held[t] = p
      BY <2>1 DEF Taken
    <3>2. held'[t] = p
      BY <1>q, <2>1, <3>1
    <3> QED
      BY <3>2 DEF Taken
  <2>2. Accounted'
    <3> SUFFICES ASSUME ui' # "down", NEW p \in mine', Alive(p)' PROVE p = proc' \/ p \in Taken'
      BY DEF Accounted
    <3>1. p \in mine /\ p \in Process /\ life'[p] # "none" /\ life[p] # "none"
      BY <1>q DEF TypeOK, Alive
    <3>2. p = proc \/ p \in Taken
      BY <1>q, <3>1 DEF Accounted, Alive
    <3> QED
      BY <1>q, <2>1, <3>1, <3>2
  <2>3. Pending'
    <3> SUFFICES ASSUME NEW t \in Thread, NEW p \in asked'[t], life'[p] # "none"
                 PROVE  (p = proc' /\ pc'[t] \in {"own", "take"}) \/ p \in Taken'
      BY DEF Pending
    <3>1. asked'[t] = asked[t] /\ (pc[t] \in {"own", "take"} => pc'[t] \in {"own", "take"}) /\ life[p] # "none"
      BY <1>q
    <3>2. p \in Process
      BY <3>1 DEF TypeOK
    <3>3. (p = proc /\ pc[t] \in {"own", "take"}) \/ p \in Taken
      BY <3>1 DEF Pending
    <3> QED
      BY <1>q, <2>1, <3>1, <3>2, <3>3
  <2> QED
    BY <2>2, <2>3
<1>1. ASSUME NEW r \in Request, BeginRun(r) PROVE Accounted' /\ Pending'
  <2>1. held[r] = None
    BY <1>1, <1>r DEF BeginRun, TypeOK
  <2> QED
    BY <1>1, <1>r, <1>q, <2>1 DEF BeginRun, TypeOK, Answer, GoTo
<1>2. ASSUME NEW r \in Request, LaunchUnit(r) PROVE Accounted' /\ Pending'
  <2>1. mine' = {} /\ \A t \in Thread : Unit \notin asked'[t]
    BY <1>2 DEF LaunchUnit, Bookkeeping, GoTo
  <2>2. \A p \in Process \ {Unit} : life'[p] = life[p]
    BY <1>2 DEF LaunchUnit, TypeOK, Launch
  <2>3. held' = held /\ asked' = asked /\ proc' = proc /\ ui' = ui
        /\ \A t \in Thread : pc[t] \in {"own", "take"} => pc'[t] \in {"own", "take"}
    BY <1>2, <1>r DEF LaunchUnit, TypeOK, GoTo
  <2>4. \A t \in Thread : \A p \in asked'[t] : p \in Process \ {Unit}
    BY <2>1, <2>3 DEF TypeOK
  <2> QED
    BY <1>q, <2>1, <2>2, <2>3, <2>4
<1>3. ASSUME NEW r \in Request, BeginStop(r) PROVE Accounted' /\ Pending'
  <2>1. Accounted'
    BY <1>3 DEF BeginStop, Accounted, Alive, Taken
  <2>2. asked'[r] = {p \in mine : Alive(p)} \ Taken /\ pc'[r] = "own"
    BY <1>3, <1>r DEF BeginStop, TypeOK
  <2>3. \A p \in asked'[r] : p = proc
    BY <1>3, <2>2 DEF BeginStop, Accounted
  <2>4. \A t \in Thread \ {r} : asked'[t] = asked[t] /\ pc'[t] = pc[t]
    BY <1>3, <1>r DEF BeginStop, TypeOK
  <2>5. Pending'
    BY <1>3, <2>2, <2>3, <2>4 DEF BeginStop, Pending, Taken
  <2> QED
    BY <2>1, <2>5
<1>4. ASSUME NEW r \in Request, LaunchChild(r) PROVE Accounted' /\ Pending'
  <2>1. held[r] = None /\ asked[r] = {}
    BY <1>4, <1>r DEF LaunchChild, TypeOK, Bookkeeping
  <2>2. held' = held /\ asked' = asked /\ ui' = ui
        /\ \A t \in Thread : pc[t] \in {"own", "take"} => pc'[t] \in {"own", "take"}
    BY <1>4, <1>r, <2>1 DEF LaunchChild, TypeOK, Answer, GoTo
  <2>3. CASE MayLaunch /\ Free # {}
    <3>1. PICK p \in Free : Launch(p, site) /\ proc' = p /\ mine' = mine \cup {p}
      BY <1>4, <2>3 DEF LaunchChild
    <3>2. \A q \in Process \ {p} : life'[q] = life[q]
      BY <3>1 DEF Launch, TypeOK
    <3>3. ~Alive(proc) /\ \A t \in Thread : p \notin asked[t]
      BY <2>3, <3>1 DEF MayLaunch, Free
    <3>4. Accounted'
      BY <2>2, <3>1, <3>2, <3>3 DEF Accounted, Alive, Taken, TypeOK
    <3>5. Pending'
      <4> SUFFICES ASSUME NEW t \in Thread, NEW q \in asked'[t], life'[q] # "none" PROVE q \in Taken'
        BY DEF Pending
      <4>1. q \in Process \ {p} /\ q \in asked[t] /\ life[q] # "none"
        BY <2>2, <3>2, <3>3 DEF TypeOK
      <4>2. q # proc
        BY <3>3, <4>1 DEF Alive
      <4> QED
        BY <2>2, <4>1, <4>2 DEF Pending, Taken
    <3> QED
      BY <3>4, <3>5
  <2>4. CASE ~(MayLaunch /\ Free # {})
    BY <1>4, <1>q, <2>2, <2>4 DEF LaunchChild
  <2> QED
    BY <2>3, <2>4
<1>5. ASSUME NEW r \in Request, Look(r) \/ GiveUp(r) PROVE Accounted' /\ Pending'
  <2>1. held[r] = None
    BY <1>5, <1>r DEF Look, GiveUp, TypeOK
  <2> QED
    BY <1>5, <1>r, <1>q, <2>1 DEF Look, GiveUp, TypeOK, Answer
<1>6. ASSUME NEW r \in Request, Poll(r) PROVE Accounted' /\ Pending'
  <2>1. held[r] = None /\ asked[r] = {}
    BY <1>6, <1>r DEF Poll, TypeOK, Bookkeeping
  <2>2. held' = held /\ asked' = asked /\ \A t \in Thread \ {r} : pc'[t] = pc[t]
    BY <1>6, <1>r, <2>1 DEF Poll, TypeOK, Answer
  <2>3. mode = "unit" \/ ~Alive(proc)
    BY <1>6 DEF Poll
  <2>4. Accounted'
    BY <1>6, <2>2, <2>3 DEF Poll, Accounted, Bookkeeping, Alive, Taken
  <2>5. Pending'
    <3> SUFFICES ASSUME NEW t \in Thread, NEW p \in asked'[t], life'[p] # "none" PROVE p \in Taken'
      BY DEF Pending
    <3>1. p \in asked[t] /\ life[p] # "none" /\ p \in Process /\ p # None
      BY <1>6, <2>2 DEF Poll, TypeOK
    <3>2. p # proc
      BY <2>3, <3>1 DEF Bookkeeping, Alive
    <3> QED
      BY <2>2, <3>1, <3>2 DEF Pending, Taken
  <2> QED
    BY <2>4, <2>5
<1>7. ASSUME NEW r \in Request, Own(r) PROVE Accounted' /\ Pending'
  <2>1. held[r] = None
    BY <1>7, <1>r DEF Own, TypeOK
  <2> QED
    BY <1>7, <1>r, <1>q, <2>1 DEF Own, TypeOK, Answer, GoTo
<1>8. ASSUME NEW t \in Thread, Take(t) PROVE Accounted' /\ Pending'
  <2>1. held[t] = None
    BY <1>8 DEF Take, TypeOK
  <2>2. held'[t] = proc /\ \A u \in Thread \ {t} : held'[u] = held[u]
    BY <1>8 DEF Take, TypeOK
  <2>3. proc \in Taken' /\ \A p \in Process : p \in Taken => p \in Taken'
    BY <2>1, <2>2 DEF Taken
  <2>4. Accounted'
    BY <1>8, <2>3 DEF Take, Accounted, Alive, TypeOK
  <2>5. Pending'
    BY <1>8, <2>3 DEF Take, Pending, TypeOK
  <2> QED
    BY <2>4, <2>5
<1>9. ASSUME NEW t \in Thread, Terminate(t) PROVE Accounted' /\ Pending'
  <2>1. CASE Alive(held[t])
    <3>1. held' = held /\ asked' = asked /\ pc[t] = "terminate" /\ proc' = proc /\ mine' = mine /\ ui' = ui
          /\ \A u \in Thread \ {t} : pc'[u] = pc[u]
      BY <1>9, <2>1 DEF Terminate, GoTo, TypeOK
    <3>2. held[t] \in Process /\ \A p \in Process : life'[p] = "none" \/ life[p] # "none"
      BY <1>9, <2>1 DEF Terminate, Signalled, Over, Alive, TypeOK
    <3> QED
      BY <1>q, <3>1, <3>2 DEF TypeOK
  <2>2. CASE ~Alive(held[t])
    <3>1. held[t] # None => life'[held[t]] = "none"
      BY <1>9, <2>2 DEF Terminate, Alive
    <3>2. asked'[t] = {} /\ \A u \in Thread \ {t} : held'[u] = held[u] /\ asked'[u] = asked[u] /\ pc'[u] = pc[u]
      BY <1>9, <2>2 DEF Terminate, Answer, TypeOK
    <3>3. life' = life /\ proc' = proc /\ mine' = mine /\ ui' = ui
      BY <1>9, <2>2 DEF Terminate
    <3> QED
      BY <1>q, <3>1, <3>2, <3>3
  <2> QED
    BY <2>1, <2>2
<1>10. ASSUME NEW t \in Thread, Wait(t) PROVE Accounted' /\ Pending'
  <2>1. asked'[t] = {} /\ \A u \in Thread \ {t} : held'[u] = held[u] /\ asked'[u] = asked[u] /\ pc'[u] = pc[u]
    BY <1>10 DEF Wait, Answer, TypeOK
  <2>2. \A p \in Process : life'[p] = "none" \/ life'[p] = life[p]
    BY <1>10 DEF Wait, Over, TypeOK
  <2>3. held[t] # None => life'[held[t]] = "none"
    BY <1>10 DEF Wait, Over, TypeOK
  <2>4. proc' = proc /\ mine' = mine /\ ui' = ui
    BY <1>10 DEF Wait
  <2>5. \A u \in Thread : \A p \in asked'[u] : p \in Process
    BY DEF TypeOK
  <2> QED
    BY <1>q, <2>1, <2>2, <2>3, <2>4, <2>5
<1>11. ASSUME NEW r \in Request, BeginStopUnit(r) PROVE Accounted' /\ Pending'
  <2>1. \A p \in Process : life'[p] = "none" \/ life[p] # "none"
    BY <1>11 DEF BeginStopUnit, Signalled, Over, TypeOK
  <2>2. held' = held /\ asked' = asked /\ pc[r] = "idle" /\ \A u \in Thread \ {r} : pc'[u] = pc[u]
    BY <1>11, <1>r DEF BeginStopUnit, GoTo, TypeOK
  <2> QED
    BY <1>11, <1>q, <2>1, <2>2 DEF BeginStopUnit, TypeOK
<1>12. ASSUME NEW r \in Request, EndStopUnit(r) PROVE Accounted' /\ Pending'
  <2>1. held[r] = None
    BY <1>12, <1>r DEF EndStopUnit, TypeOK
  <2> QED
    BY <1>12, <1>r, <1>q, <2>1 DEF EndStopUnit, TypeOK, Answer
<1>13. ASSUME NEW s \in Site, SetSiteFile(s) \/ Stale(s) PROVE Accounted' /\ Pending'
  BY <1>13, <1>q DEF SetSiteFile, Stale
<1>14. ASSUME BeginExit PROVE Accounted' /\ Pending'
  <2>1. Accounted'
    BY <1>14 DEF BeginExit, Accounted, Alive, Taken
  <2>2. mode = "unit" => Pending'
    BY <1>14, <1>q DEF BeginExit
  <2>3. ASSUME mode # "unit" PROVE Pending'
    <3>1. asked'[Main] = {p \in mine : Alive(p)} \ Taken /\ pc'[Main] = "take"
      BY <1>14, <1>m, <2>3 DEF BeginExit, TypeOK
    <3>2. \A p \in asked'[Main] : p = proc
      BY <1>14, <3>1 DEF BeginExit, Accounted
    <3>3. \A t \in Thread \ {Main} : asked'[t] = asked[t] /\ pc'[t] = pc[t]
      BY <1>14, <2>3 DEF BeginExit, TypeOK
    <3> QED
      BY <1>14, <3>1, <3>2, <3>3 DEF BeginExit, Pending, Taken
  <2> QED
    BY <2>1, <2>2, <2>3
<1>15. ASSUME EndExit \/ UIKilled PROVE Accounted' /\ Pending'
  BY <1>15 DEF EndExit, UIKilled, Gone, Accounted, Pending
<1>16. ASSUME UIStart PROVE Accounted' /\ Pending'
  BY <1>16 DEF UIStart, Accounted, Pending, Bookkeeping, Taken
<1>17. ASSUME NEW p \in Process, Built(p) \/ Publish(p) PROVE Accounted' /\ Pending'
  <2>1. \A q \in Process : life'[q] = "none" \/ life[q] # "none"
    BY <1>17 DEF Built, Publish, TypeOK
  <2> QED
    BY <1>17, <1>q, <2>1 DEF Built, Publish, TypeOK
<1>18. ASSUME NEW p \in Process, Ends(p) PROVE Accounted' /\ Pending'
  <2>1. \A q \in Process : life'[q] = "none" \/ life[q] # "none"
    BY <1>18 DEF Ends, Over, TypeOK
  <2> QED
    BY <1>18, <1>q, <2>1 DEF Ends, TypeOK
<1>19. ASSUME NEW p \in Process, NEW s \in Site, StartOutside(p, s) PROVE Accounted' /\ Pending'
  <2>1. \A q \in Process \ {p} : life'[q] = life[q]
    BY <1>19 DEF StartOutside, Launch, TypeOK
  <2>2. p \notin mine' /\ mine' \subseteq mine /\ \A t \in Thread : p \notin asked[t]
    BY <1>19 DEF StartOutside, Free
  <2>3. \A t \in Thread : \A q \in asked[t] : q \in Process \ {p}
    BY <2>2 DEF TypeOK
  <2> QED
    BY <1>19, <1>q, <2>1, <2>2, <2>3 DEF StartOutside
<1>20. ASSUME Restart PROVE Accounted' /\ Pending'
  <2>1. \A q \in Process \ {Unit} : life'[q] = life[q]
    BY <1>20 DEF Restart, Launch, TypeOK
  <2>2. \A t \in Thread : \A q \in asked[t] : q \in Process \ {Unit}
    BY DEF TypeOK, Bookkeeping
  <2> QED
    BY <1>20, <1>q, <2>1, <2>2 DEF Restart, Bookkeeping
<1>21. CASE UNCHANGED vars
  BY <1>21, <1>q DEF vars
<1> QED
  BY <1>r, <1>m, <1>1, <1>2, <1>3, <1>4, <1>5, <1>6, <1>7, <1>8, <1>9, <1>10, <1>11, <1>12, <1>13,
     <1>14, <1>15, <1>16, <1>17, <1>18, <1>19, <1>20, <1>21 DEF Next, Server, Stopper

THEOREM Invariant == Spec => []IInv
<1>1. IInv /\ [Next]_vars => IInv'
  BY TypeStep, BookkeepingStep, ReachStep DEF IInv
<1> QED
  BY InitIInv, <1>1, PTL DEF Spec

(* Type correctness of the managers, threads and processes.                *)
THEOREM TypeCorrect == Spec => []TypeOK
<1>1. IInv => TypeOK
  BY DEF IInv
<1> QED
  BY Invariant, <1>1, PTL

(* No child of the UI is ever out of reach of its STOP.                    *)
THEOREM ChildrenAccounted == Spec => []Accounted
<1>1. IInv => Accounted
  BY DEF IInv
<1> QED
  BY Invariant, <1>1, PTL

(* A STOP with a child to stop ends only when it has waited for it, or has *)
(* found it ended.                                                         *)
LEMMA HowStopsEnd ==
  ASSUME IInv, [Next]_vars, ui' # "down",
         NEW t \in Thread, asked[t] # {}, asked'[t] = {}
  PROVE  Wait(t) \/ (Terminate(t) /\ ~Alive(held[t]))
<1> USE DEF observed, processes
<1>1. pc[t] \in {"own", "take", "terminate", "wait"} /\ t \notin outside
  BY DEF IInv, TypeOK, Bookkeeping, Place
<1>2. \A r \in Request : r \in Thread
  BY DEF Thread
<1>3. ASSUME NEW r \in Request,
             BeginRun(r) \/ LaunchUnit(r) \/ LaunchChild(r) \/ Look(r) \/ Poll(r) \/ GiveUp(r)
      PROVE  FALSE
  BY <1>1, <1>2, <1>3 DEF BeginRun, LaunchUnit, LaunchChild, Look, Poll, GiveUp, Answer, GoTo, IInv, TypeOK
<1>4. ASSUME NEW r \in Request, BeginStop(r) \/ BeginStopUnit(r) \/ EndStopUnit(r) PROVE FALSE
  BY <1>1, <1>2, <1>4 DEF BeginStop, BeginStopUnit, EndStopUnit, Answer, GoTo, IInv, TypeOK
<1>5. ASSUME NEW r \in Request, Own(r) PROVE FALSE
  BY <1>1, <1>2, <1>5 DEF Own, Answer, GoTo, IInv, TypeOK
<1>6. ASSUME NEW u \in Thread, Stopper(u) PROVE Wait(t) \/ (Terminate(t) /\ ~Alive(held[t]))
  BY <1>1, <1>6 DEF Stopper, Take, Terminate, Wait, Answer, GoTo, IInv, TypeOK
<1>7. ASSUME BeginExit PROVE FALSE
  BY <1>1, <1>7 DEF BeginExit, IInv, TypeOK, Bookkeeping
<1>8. ASSUME EndExit \/ UIKilled PROVE FALSE
  BY <1>8 DEF EndExit, UIKilled, Gone
<1>9. ASSUME UIStart \/ Restart \/ (\E s \in Site : SetSiteFile(s) \/ Stale(s)) PROVE FALSE
  BY <1>9 DEF UIStart, Restart, SetSiteFile, Stale
<1>10. ASSUME NEW p \in Process, Built(p) \/ Publish(p) \/ Ends(p) \/ \E s \in Site : StartOutside(p, s)
       PROVE  FALSE
  BY <1>10 DEF Built, Publish, Ends, StartOutside
<1>11. CASE UNCHANGED vars
  BY <1>11 DEF vars
<1>12. Main \in Thread
  BY DEF Thread
<1> QED
  BY <1>2, <1>3, <1>4, <1>5, <1>6, <1>7, <1>8, <1>9, <1>10, <1>11, <1>12 DEF Next, Server, Stopper

(* However requests overlap, when a STOP answers its child has ended, or   *)
(* another STOP is at it.                                                  *)
THEOREM StopsReach == Spec => StopReaches
<1>1. ASSUME IInv, [Next]_vars, NEW t \in Thread, ui' # "down", asked'[t] = {}, NEW p \in asked[t]
      PROVE  life'[p] = "none" \/ \E u \in Thread \ {t} : held'[u] = p
  <2>1. Wait(t) \/ (Terminate(t) /\ ~Alive(held[t]))
    BY <1>1, HowStopsEnd
  <2>2. \A u \in Thread \ {t} : held'[u] = held[u]
    BY <1>1, <2>1 DEF Wait, Terminate, Answer, IInv, TypeOK
  <2>3. life[p] = "none" => life'[p] = "none"
    BY <1>1, <2>1 DEF Wait, Terminate, Over, IInv, TypeOK
  <2>4. life[p] = "none" \/ p \in Taken
    BY <1>1, <2>1 DEF Wait, Terminate, IInv, Pending
  <2>5. p = held[t] => life'[p] = "none"
    BY <1>1, <2>1 DEF Wait, Terminate, Over, Alive, IInv, TypeOK
  <2> QED
    BY <2>2, <2>3, <2>4, <2>5 DEF Taken
<1>2. IInv /\ [Next]_vars =>
        [\A t \in Thread : ui' # "down" /\ asked'[t] = {} =>
           \A p \in asked[t] : life'[p] = "none" \/ \E u \in Thread \ {t} : held'[u] = p]_vars
  BY <1>1
<1> QED
  BY Invariant, <1>2, PTL DEF Spec, StopReaches

-----------------------------------------------------------------------------
(* The controller's clock: its requests are served by the same threads.     *)

(* What a request asks for fits its kind, and a helper past its first step  *)
(* knows what it needs: its zone, and in manual mode the time to set.       *)
Wellformed ==
  /\ \A t \in Caller : ask[t].value \in Values(ask[t].kind)
  /\ \A u \in HelperUnit : /\ run[u].stage \notin {"idle", "load"} => run[u].began \in Zone
                           /\ run[u].stage = "set" => run[u].cfg.manual # Absent

(* The request that holds the lock: the file is as it stored it, the helper *)
(* that it started goes by that file, and did so if it has ended.           *)
Started(t, u) == u = UnitOf(ask[t].kind) /\ ~joined[t]

GoesBy(u, settings) ==
  /\ run[u].stage \notin {"idle", "load"} => run[u].cfg = settings
  /\ run[u].stage = "idle" /\ done[u].ok /\ u # "now" => done[u].cfg = settings

Faithful ==
  \A t \in Caller : place[t] = "wait" =>
    file = stored[t] /\ \A u \in HelperUnit : Started(t, u) => GoesBy(u, stored[t])

ClockInv == ClockTypeOK /\ Wellformed /\ Faithful

USE ClockAssumption

(* Settings and what requests make of them.                                 *)
LEMMA InSettings ==
  /\ Default \in Settings
  /\ \A s \in Settings : s.mode \in {"ntp", "manual"} /\ s.at \in Entered \cup {Absent}
                          /\ s.manual \in Entered \cup {Absent} /\ s.zone \in Zone \cup {Absent}
  /\ \A e \in Entered, z \in Zone \cup {Absent} :
       /\ [mode |-> "ntp", at |-> e, manual |-> Absent, zone |-> z] \in Settings
       /\ [mode |-> "manual", at |-> Absent, manual |-> e, zone |-> z] \in Settings
  /\ \A s \in Settings, z \in Zone : [s EXCEPT !.zone = z] \in Settings
BY DEF Settings, Default, Minute

LEMMA Modulo ==
  ASSUME NEW n \in Int PROVE n % Day \in Minute
BY DEF Minute

LEMMA StartsClock == ClockInit => ClockInv
<1> SUFFICES ASSUME ClockInit PROVE ClockInv
  OBVIOUS
<1> USE DEF ClockInit, Idle, Unknown, Unasked
<1>1. ClockTypeOK
  BY InSettings DEF ClockTypeOK, Kind, Stage, Minute
<1>2. Wellformed
  BY DEF Wellformed, Values
<1>3. Faithful
  BY DEF Faithful, Started, GoesBy
<1> QED
  BY <1>1, <1>2, <1>3 DEF ClockInv

(* The locals of a helper.                                                  *)
Helper == [stage : Stage, cfg : Settings, began : Zone \cup {Absent}, jumped : BOOLEAN]

LEMMA MergedType ==
  ASSUME ClockInv, NEW t \in Caller
  PROVE  Merged(t) \in Settings
<1>1. ask[t].value \in Values(ask[t].kind) /\ ask[t].kind \in Kind
      /\ seen[t] \in Settings /\ file \in Settings
  BY DEF ClockInv, ClockTypeOK, Wellformed
<1>2. seen[t].zone \in Zone \cup {Absent}
  BY <1>1, InSettings
<1>3. CASE ask[t].kind = "ntp"
  BY <1>1, <1>2, <1>3, InSettings DEF Merged, Values
<1>4. CASE ask[t].kind = "manual"
  BY <1>1, <1>2, <1>4, InSettings DEF Merged, Values
<1>5. CASE ask[t].kind = "zone"
  BY <1>1, <1>5, InSettings DEF Merged, Values
<1>6. CASE ask[t].kind = "now"
  BY <1>1, <1>6 DEF Merged
<1> QED
  BY <1>1, <1>3, <1>4, <1>5, <1>6 DEF Kind

LEMMA BeginKeeps ==
  ASSUME ClockInv, NEW t0 \in Caller, Begin(t0)
  PROVE  ClockInv'
<1> USE DEF ClockInv, Begin, os, helpers, history
<1>k. PICK kind \in Kind :
        \E v \in Values(kind) : ask' = [ask EXCEPT ![t0] = [kind |-> kind, value |-> v]]
  OBVIOUS
<1>0. PICK v \in Values(kind) : ask' = [ask EXCEPT ![t0] = [kind |-> kind, value |-> v]]
  BY <1>k
<1>1. t0 \in IdleCallers /\ place[t0] = "idle"
  BY DEF IdleCallers
<1>2. v \in Minute \cup Zone \cup {Absent}
  BY <1>0 DEF Values, Kind, Minute
<1>3. ClockTypeOK'
  <2>1. ask' \in [Caller -> [kind : Kind, value : Minute \cup Zone \cup {Absent}]]
    BY <1>0, <1>2 DEF ClockTypeOK
  <2>2. /\ place' \in [Caller -> {"idle", "read", "wait"}]
        /\ \A x \in Caller : place'[x] = "wait" <=> lock' = x
    BY <1>1 DEF ClockTypeOK
  <2>3. seen' \in [Caller -> Settings] /\ budget' \in 0..MaxEvents
    BY DEF ClockTypeOK, Spend
  <2> QED
    BY <2>1, <2>2, <2>3 DEF ClockTypeOK
<1>4. Wellformed'
  BY <1>0, <1>1 DEF Wellformed, ClockTypeOK
<1>5. Faithful'
  BY <1>0, <1>1 DEF Faithful, Started, GoesBy, ClockTypeOK
<1> QED
  BY <1>3, <1>4, <1>5

LEMMA StoreKeeps ==
  ASSUME ClockInv, NEW t \in Caller, Store(t)
  PROVE  ClockInv'
<1> USE DEF Store, os, Acquired
<1> DEFINE u == UnitOf(ask[t].kind)
<1>1. Merged(t) \in Settings
  BY MergedType
<1>2. u \in HelperUnit
  BY DEF UnitOf, ClockInv, ClockTypeOK, Kind, HelperUnit
<1> HIDE DEF u
<1>r. run \in [HelperUnit -> Helper] /\ joined \in [Caller -> BOOLEAN]
  BY DEF ClockInv, ClockTypeOK, Helper
<1>3. /\ run' = [run EXCEPT ![u].stage = IF @ = "idle" THEN "load" ELSE @]
      /\ joined' = [joined EXCEPT ![t] = run[u].stage # "idle"]
  BY DEF u
<1>w. \A x \in Caller : place'[x] = "wait" <=> x = t
  <2>1. place \in [Caller -> {"idle", "read", "wait"}] /\ \A x \in Caller : place[x] # "wait"
    BY DEF ClockInv, ClockTypeOK
  <2> QED
    BY <2>1
<1>4. ClockTypeOK'
  <2> HIDE DEF Store
  <2>1. run' \in [HelperUnit -> Helper]
    BY <1>2, <1>3, <1>r DEF Helper, Stage
  <2>4. joined' \in [Caller -> BOOLEAN]
    BY <1>3, <1>r
  <2> USE DEF Store
  <2>2. place' \in [Caller -> {"idle", "read", "wait"}] /\ lock' = t
    BY DEF ClockInv, ClockTypeOK
  <2>3. file' \in Settings /\ stored' \in [Caller -> Settings]
    BY <1>1 DEF ClockInv, ClockTypeOK
  <2> QED
    BY <1>w, <2>1, <2>2, <2>3, <2>4 DEF ClockInv, ClockTypeOK, Helper
<1>5. Wellformed'
  BY <1>2, <1>3 DEF ClockInv, ClockTypeOK, Wellformed
<1>6. Faithful'
  <2>2. file' = stored'[t]
    BY DEF ClockInv, ClockTypeOK
  <2>3. ~joined'[t] => run'[u].stage = "load"
    <3> HIDE DEF Store
    <3> QED
      BY <1>2, <1>3, <1>r DEF Helper
  <2>4. UnitOf(ask'[t].kind) = u
    BY DEF u
  <2> QED
    BY <1>w, <2>2, <2>3, <2>4 DEF Faithful, Started, GoesBy
<1> QED
  BY <1>4, <1>5, <1>6 DEF ClockInv

(* The end of a request leaves nobody with the lock.                        *)
LEMMA OverKeeps ==
  ASSUME ClockInv, NEW t \in Caller, NEW good, Released(t, good), lock \in {Absent, t},
         file' \in Settings, UNCHANGED <<os, run>>,
         done' \in [HelperUnit -> [ok : BOOLEAN, cfg : Settings]], budget' \in 0..MaxEvents
  PROVE  ClockInv'
<1> USE DEF Released, LetGo, os
<1>1. \A x \in Caller : place'[x] # "wait"
  BY DEF ClockInv, ClockTypeOK
<1>2. ClockTypeOK'
  BY <1>1, InSettings DEF ClockInv, ClockTypeOK, Unasked, Kind
<1>3. Wellformed'
  BY DEF ClockInv, ClockTypeOK, Wellformed, Unasked, Values
<1>4. Faithful'
  BY <1>1 DEF Faithful, Started, GoesBy
<1> QED
  BY <1>2, <1>3, <1>4 DEF ClockInv

LEMMA ServeKeeps ==
  ASSUME ClockInv, NEW t \in Caller, Serve(t)
  PROVE  ClockInv'
<1>1. CASE Store(t)
  BY <1>1, StoreKeeps
<1>2. CASE StoreFails(t)
  <2>1. file' \in Settings
    BY <1>2, MergedType DEF StoreFails, ClockInv, ClockTypeOK
  <2>2. budget' \in 0..MaxEvents
    BY <1>2 DEF StoreFails, Spend, ClockInv, ClockTypeOK
  <2> QED
    BY <1>2, <2>1, <2>2, OverKeeps DEF StoreFails, helpers, ClockInv, ClockTypeOK
<1>3. ASSUME NEW u \in HelperUnit, Acknowledge(t, u) PROVE ClockInv'
  <2>1. done' \in [HelperUnit -> [ok : BOOLEAN, cfg : Settings]]
    BY <1>3, InSettings DEF Acknowledge, Unknown, ClockInv, ClockTypeOK
  <2>2. lock = t
    BY <1>3 DEF Acknowledge, Waits, ClockInv, ClockTypeOK
  <2> QED
    BY <1>3, <2>1, <2>2, OverKeeps DEF Acknowledge, ClockInv, ClockTypeOK
<1>4. ASSUME NEW u \in HelperUnit, Abandon(t, u) PROVE ClockInv'
  <2>1. lock = t
    BY <1>4 DEF Abandon, Waits, ClockInv, ClockTypeOK
  <2> QED
    BY <1>4, <2>1, OverKeeps DEF Abandon, helpers, ClockInv, ClockTypeOK
<1> QED
  BY <1>1, <1>2, <1>3, <1>4 DEF Serve

-----------------------------------------------------------------------------
(* The helpers.  A step of one keeps the invariant when its own next state  *)
(* fits: Proceeds when it goes on, Ends when its last command is over.      *)
Fits(u, h) ==
  /\ h \in Helper
  /\ h.stage \notin {"idle", "load"} => h.began \in Zone
  /\ h.stage = "set" => h.cfg.manual # Absent

(* Helpers other than u may learn that the clock was set, and no more.      *)
OthersStand(u) ==
  \A x \in HelperUnit \ {u} : /\ run'[x] \in Helper
                              /\ run'[x].stage = run[x].stage /\ run'[x].cfg = run[x].cfg
                              /\ run'[x].began = run[x].began

SystemStep ==
  /\ minute' \in Minute /\ ahead' \in Minute /\ zone' \in Zone /\ auto' \in BOOLEAN
  /\ UNCHANGED <<file, callers, history>> /\ budget' \in 0..MaxEvents
  /\ run' \in [HelperUnit -> Helper]

LEMMA ProceedsKeeps ==
  ASSUME ClockInv, NEW u \in HelperUnit, SystemStep, OthersStand(u), Fits(u, run'[u]), UNCHANGED done,
         run[u].stage # "idle" \/ u = "due",
         run'[u].stage # "idle",
         run'[u].cfg = run[u].cfg \/ run'[u].cfg = file,
         run[u].stage = "load" => run'[u].cfg = file,
         run[u].stage \notin {"idle", "load"} => run'[u].cfg = run[u].cfg /\ run'[u].stage # "load"
  PROVE  ClockInv'
<1> USE DEF SystemStep, callers, history
<1>1. ClockTypeOK'
  BY DEF ClockInv, ClockTypeOK, Helper
<1>2. Wellformed'
  BY DEF ClockInv, Wellformed, OthersStand, Fits
<1>3. Faithful'
  <2> SUFFICES ASSUME NEW t \in Caller, place[t] = "wait"
               PROVE  file = stored[t] /\ \A x \in HelperUnit : Started(t, x) => GoesBy(x, stored[t])'
    BY DEF Faithful, Started
  <2>1. file = stored[t]
    BY DEF ClockInv, Faithful, Started, GoesBy
  <2>2. ASSUME NEW x \in HelperUnit, Started(t, x), x # u PROVE GoesBy(x, stored[t])'
    BY <2>2 DEF ClockInv, Faithful, OthersStand, GoesBy
  <2>3. ASSUME Started(t, u)
        PROVE  run'[u].stage \notin {"idle", "load"} => run'[u].cfg = stored[t]
    <3>1. u # "due"
      BY <2>3 DEF Started, UnitOf, ClockInv, ClockTypeOK, Kind
    <3> QED
      BY <2>1, <2>3, <3>1 DEF ClockInv, Faithful, GoesBy
  <2> QED
    BY <2>1, <2>2, <2>3 DEF GoesBy
<1> QED
  BY <1>1, <1>2, <1>3 DEF ClockInv

LEMMA EndsKeeps ==
  ASSUME ClockInv, NEW u \in HelperUnit, NEW ok \in BOOLEAN, SystemStep, OthersStand(u),
         run'[u] = Idle, Outcome(u, ok),
         run[u].stage # "idle", run[u].stage = "load" => u \in {"now", "due"}
  PROVE  ClockInv'
<1> USE DEF SystemStep, callers, history
<1>0. /\ done' \in [HelperUnit -> [ok : BOOLEAN, cfg : Settings]]
      /\ \A x \in HelperUnit \ {u} : done'[x] = done[x]
      /\ \A t \in Caller : Waits(t, u) => done'[u].cfg = run[u].cfg
  BY DEF Outcome, ClockInv, ClockTypeOK
<1>1. ClockTypeOK'
  BY <1>0 DEF ClockInv, ClockTypeOK, Helper
<1>2. Wellformed'
  BY DEF ClockInv, Wellformed, OthersStand, Idle
<1>3. Faithful'
  <2> SUFFICES ASSUME NEW t \in Caller, place[t] = "wait"
               PROVE  file = stored[t] /\ \A x \in HelperUnit : Started(t, x) => GoesBy(x, stored[t])'
    BY DEF Faithful, Started
  <2>1. file = stored[t]
    BY DEF ClockInv, Faithful, Started, GoesBy
  <2>2. ASSUME NEW x \in HelperUnit, Started(t, x), x # u PROVE GoesBy(x, stored[t])'
    BY <1>0, <2>2 DEF ClockInv, Faithful, OthersStand, GoesBy
  <2>3. ASSUME Started(t, u), u # "now"
        PROVE  done'[u].cfg = stored[t]
    <3>1. u # "due"
      BY <2>3 DEF Started, UnitOf, ClockInv, ClockTypeOK, Kind
    <3>2. run[u].cfg = stored[t]
      BY <2>3, <3>1 DEF ClockInv, Faithful, GoesBy
    <3> QED
      BY <1>0, <2>3, <3>2 DEF Waits, Started
  <2>4. run'[u].stage = "idle"
    BY DEF Idle
  <2> QED
    BY <2>1, <2>2, <2>3, <2>4 DEF GoesBy
<1> QED
  BY <1>1, <1>2, <1>3 DEF ClockInv


LEMMA SetKeeps ==
  ASSUME ClockInv, NEW u \in HelperUnit, NEW lead \in Int, Set(u, lead), run[u].stage \notin {"idle", "load"}
  PROVE  ClockInv'
<1> USE DEF Set
<1>1. run' = [Jumped EXCEPT ![u] = Idle] /\ run \in [HelperUnit -> Helper]
  BY DEF ClockInv, ClockTypeOK, Helper
<1>2. Idle \in Helper
  BY InSettings DEF Idle, Helper, Stage
<1>3. Jumped \in [HelperUnit -> Helper]
  BY <1>1 DEF Jumped, Helper
<1>4. /\ run' \in [HelperUnit -> Helper] /\ run'[u] = Idle
      /\ \A x \in HelperUnit \ {u} : run'[x] = Jumped[x]
  BY <1>1, <1>2, <1>3
<1>5. OthersStand(u)
  BY <1>1, <1>4 DEF OthersStand, Jumped, Helper
<1>6. SystemStep
  BY <1>4, Modulo DEF SystemStep, ClockInv, ClockTypeOK
<1> QED
  BY <1>4, <1>5, <1>6, EndsKeeps

(* A step that moves the helper on, or ends it, and touches no other.       *)
LEMMA ToKeeps ==
  ASSUME ClockInv, NEW u \in HelperUnit, NEW stage \in Stage \ {"idle", "load"}, To(u, stage),
         run[u].stage \notin {"idle", "load"},
         stage = "set" => run[u].cfg.manual # Absent,
         minute' \in Minute, ahead' \in Minute, zone' \in Zone, auto' \in BOOLEAN,
         UNCHANGED <<file, callers, history>>, budget' \in 0..MaxEvents
  PROVE  ClockInv'
<1>1. /\ run \in [HelperUnit -> Helper] /\ run' = [run EXCEPT ![u].stage = stage] /\ UNCHANGED done
      /\ run[u].began \in Zone
  BY DEF ClockInv, ClockTypeOK, Helper, To, Wellformed
<1>2. /\ run' \in [HelperUnit -> Helper]
      /\ run'[u].stage = stage /\ run'[u].cfg = run[u].cfg /\ run'[u].began = run[u].began
      /\ \A x \in HelperUnit \ {u} : run'[x] = run[x]
  BY <1>1 DEF Helper
<1>3. OthersStand(u) /\ Fits(u, run'[u]) /\ SystemStep
  BY <1>1, <1>2 DEF OthersStand, Fits, SystemStep
<1> QED
  BY <1>1, <1>2, <1>3, ProceedsKeeps

LEMMA EndKeeps ==
  ASSUME ClockInv, NEW u \in HelperUnit, NEW ok \in BOOLEAN, End(u, ok),
         run[u].stage # "idle", run[u].stage = "load" => u \in {"now", "due"},
         minute' \in Minute, ahead' \in Minute, zone' \in Zone, auto' \in BOOLEAN,
         UNCHANGED <<file, callers, history>>, budget' \in 0..MaxEvents
  PROVE  ClockInv'
<1>1. /\ run \in [HelperUnit -> Helper] /\ run' = [run EXCEPT ![u] = Idle] /\ Outcome(u, ok)
  BY DEF ClockInv, ClockTypeOK, Helper, End
<1>2. Idle \in Helper
  BY InSettings DEF Idle, Helper, Stage
<1>3. /\ run' \in [HelperUnit -> Helper] /\ run'[u] = Idle
      /\ \A x \in HelperUnit \ {u} : run'[x] = run[x]
  BY <1>1, <1>2
<1>4. OthersStand(u) /\ SystemStep
  BY <1>1, <1>3 DEF OthersStand, SystemStep
<1> QED
  BY <1>1, <1>3, <1>4, EndsKeeps

LEMMA HelpKeeps ==
  ASSUME ClockInv, NEW u \in HelperUnit, Help(u)
  PROVE  ClockInv'
<1>t. /\ minute \in Minute /\ ahead \in Minute /\ zone \in Zone /\ auto \in BOOLEAN
      /\ file \in Settings /\ budget \in 0..MaxEvents /\ run \in [HelperUnit -> Helper]
      /\ run[u].cfg \in Settings /\ minute \in Int
  BY DEF ClockInv, ClockTypeOK, Helper, Minute
<1>1. CASE Load(u)
  <2>1. CASE Synchronises(u) /\ (file.mode # "ntp" \/ (u = "due" /\ ~Due(file)))
    BY <1>1, <1>t, <2>1, EndKeeps DEF Load, Synchronises, os
  <2>2. CASE ~(Synchronises(u) /\ (file.mode # "ntp" \/ (u = "due" /\ ~Due(file))))
    <3>1. /\ run' = [run EXCEPT ![u] = [Idle EXCEPT !.stage = "zone", !.cfg = file, !.began = zone]]
          /\ run[u].stage = "load" /\ UNCHANGED <<os, file, callers, done, history, budget>>
      BY <1>1, <2>2 DEF Load
    <3>2. /\ run'[u] = [stage |-> "zone", cfg |-> file, began |-> zone, jumped |-> FALSE]
          /\ \A x \in HelperUnit \ {u} : run'[x] = run[x]
      BY <1>t, <3>1 DEF Idle
    <3>3. run' \in [HelperUnit -> Helper]
      BY <1>t, <3>1 DEF Idle, Helper, Stage
    <3>4. OthersStand(u) /\ Fits(u, run'[u]) /\ SystemStep
      BY <1>t, <3>1, <3>2, <3>3 DEF OthersStand, Fits, SystemStep, os
    <3> QED
      BY <3>1, <3>2, <3>4, ProceedsKeeps
  <2> QED
    BY <2>1, <2>2
<1>2. CASE ApplyZone(u)
  <2>1. zone' \in Zone
    BY <1>2, <1>t, InSettings DEF ApplyZone, ZoneFor
  <2> QED
    BY <1>2, <1>t, <2>1, ToKeeps DEF ApplyZone, Stage
<1>3. CASE StopAuto(u)
  <2>1. /\ run[u].stage = "auto" /\ auto' = FALSE
        /\ UNCHANGED <<minute, ahead, zone, file, callers, history, budget>>
    BY <1>3 DEF StopAuto
  <2>2. CASE End(u, TRUE) \/ End(u, FALSE)
    BY <1>t, <2>1, <2>2, EndKeeps
  <2>3. CASE To(u, "set") /\ run[u].cfg.manual # Absent
    BY <1>t, <2>1, <2>3, ToKeeps DEF Stage
  <2>4. CASE To(u, "probe")
    BY <1>t, <2>1, <2>4, ToKeeps DEF Stage
  <2> QED
    BY <1>3, <2>2, <2>3, <2>4 DEF StopAuto, HelperUnit
<1>4. CASE SetEntered(u)
  <2>1. run[u].stage = "set" /\ run[u].cfg.manual # Absent
    BY <1>4 DEF SetEntered, ClockInv, Wellformed
  <2>2. run[u].cfg.manual \in Int /\ ZoneOffset[zone] \in Int
    BY <1>t, <2>1, InSettings DEF Minute
  <2>3. run[u].cfg.manual - ZoneOffset[zone] - minute \in Int
    BY <1>t, <2>2
  <2> QED
    BY <1>4, <2>1, <2>3, SetKeeps DEF SetEntered
<1>5. CASE SetSampled(u)
  <2>1. run[u].stage = "probe" /\ run[u].began \in Zone
    BY <1>5 DEF SetSampled, ClockInv, Wellformed
  <2>2. PICK error \in Int, z \in Zone : Set(u, error + ZoneOffset[z] - ZoneOffset[zone])
    BY <1>5, <1>t, <2>1 DEF SetSampled, Minute
  <2>3. error + ZoneOffset[z] - ZoneOffset[zone] \in Int
    BY <1>t DEF Minute
  <2> QED
    BY <2>1, <2>2, <2>3, SetKeeps
<1>6. CASE CommandFails(u)
  <2>1. budget' \in 0..MaxEvents
    BY <1>6, <1>t DEF CommandFails, Spend
  <2> QED
    BY <1>6, <1>t, <2>1, EndKeeps DEF CommandFails, os
<1> QED
  BY <1>1, <1>2, <1>3, <1>4, <1>5, <1>6 DEF Help

-----------------------------------------------------------------------------
(* Time *)

LEMMA TickKeeps == ClockInv /\ Tick => ClockInv'
<1> SUFFICES ASSUME ClockInv, Tick PROVE ClockInv'
  OBVIOUS
<1>1. /\ run \in [HelperUnit -> Helper] /\ minute \in Int /\ "due" \in HelperUnit
      /\ run' = [run EXCEPT !["due"].stage = IF @ = "idle" THEN "load" ELSE @]
      /\ UNCHANGED <<ahead, zone, auto, file, callers, done, history, budget>>
  BY DEF ClockInv, ClockTypeOK, Helper, Tick, Minute, HelperUnit
<1>2. run' \in [HelperUnit -> Helper] /\ minute' \in Minute
  BY <1>1, Modulo DEF Helper, Stage, Tick
<1>3. SystemStep
  BY <1>1, <1>2 DEF SystemStep, ClockInv, ClockTypeOK
<1>4. \A x \in HelperUnit : /\ run'[x].cfg = run[x].cfg /\ run'[x].began = run[x].began
                            /\ x # "due" => run'[x] = run[x]
                            /\ x = "due" => run'[x].stage \in {run[x].stage, "load"}
  <2>1. \A x \in HelperUnit : x # "due" => run'[x] = run[x]
    BY <1>1
  <2>2. /\ run'["due"].cfg = run["due"].cfg /\ run'["due"].began = run["due"].began
        /\ run'["due"].stage \in {run["due"].stage, "load"}
    BY <1>1 DEF Helper
  <2> QED
    BY <2>1, <2>2
<1>5. ClockTypeOK'
  BY <1>1, <1>2 DEF ClockInv, ClockTypeOK, Helper, callers, history
<1>6. Wellformed'
  BY <1>1, <1>4 DEF ClockInv, Wellformed, callers
<1>7. \A t \in Caller : UnitOf(ask[t].kind) # "due"
  BY DEF UnitOf, ClockInv, ClockTypeOK, Kind
<1>8. Faithful'
  BY <1>1, <1>4, <1>7 DEF ClockInv, Faithful, Started, GoesBy, callers, history
<1> QED
  BY <1>5, <1>6, <1>8 DEF ClockInv

LEMMA AdjustKeeps == ClockInv /\ Adjust => ClockInv'
<1> SUFFICES ASSUME ClockInv, Adjust PROVE ClockInv'
  OBVIOUS
<1>1. /\ run \in [HelperUnit -> Helper] /\ run' = Jumped /\ ahead' = 0
      /\ UNCHANGED <<minute, zone, auto, file, callers, done, history, budget>>
  BY DEF ClockInv, ClockTypeOK, Helper, Adjust
<1>2. /\ run' \in [HelperUnit -> Helper] /\ 0 \in Minute
      /\ \A x \in HelperUnit : /\ run'[x].cfg = run[x].cfg /\ run'[x].began = run[x].began
                               /\ run'[x].stage = run[x].stage
  <2>1. 0 \in Minute
    BY DEF Minute
  <2>2. ASSUME NEW x \in HelperUnit
        PROVE  /\ Jumped[x] \in Helper /\ Jumped[x].cfg = run[x].cfg
               /\ Jumped[x].began = run[x].began /\ Jumped[x].stage = run[x].stage
    <3>1. run[x] \in Helper /\ Jumped[x] = [run[x] EXCEPT !.jumped = @ \/ run[x].stage = "probe"]
      BY <1>1 DEF Jumped
    <3> QED
      BY <3>1 DEF Helper
  <2>3. Jumped = [x \in HelperUnit |-> Jumped[x]]
    BY DEF Jumped
  <2> QED
    BY <1>1, <2>1, <2>2, <2>3
<1>3. ClockTypeOK'
  BY <1>1, <1>2 DEF ClockInv, ClockTypeOK, Helper, callers, history
<1>4. Wellformed'
  BY <1>1, <1>2 DEF ClockInv, Wellformed, callers
<1>5. Faithful'
  BY <1>1, <1>2 DEF ClockInv, Faithful, Started, GoesBy, callers, history
<1> QED
  BY <1>3, <1>4, <1>5 DEF ClockInv

LEMMA ClockStep == ClockInv /\ [ClockNext]_clockVars => ClockInv'
<1> SUFFICES ASSUME ClockInv, [ClockNext]_clockVars PROVE ClockInv'
  OBVIOUS
<1>1. ASSUME NEW t \in Caller, Begin(t) PROVE ClockInv'
  BY <1>1, BeginKeeps
<1>2. ASSUME NEW t \in Caller, Serve(t) PROVE ClockInv'
  BY <1>2, ServeKeeps
<1>3. ASSUME NEW u \in HelperUnit, Help(u) PROVE ClockInv'
  BY <1>3, HelpKeeps
<1>4. CASE UNCHANGED clockVars
  <2>1. UNCHANGED <<minute, ahead, zone, auto, file, lock, place, ask, seen, run, done,
                    stored, joined, budget>>
    BY <1>4 DEF clockVars, os, callers, helpers, history
  <2> QED
    BY <2>1 DEF ClockInv, ClockTypeOK, Wellformed, Faithful, Started, GoesBy
<1> QED
  BY <1>1, <1>2, <1>3, <1>4, TickKeeps, AdjustKeeps DEF ClockNext

THEOREM ClockTyped == ClockSpec => []ClockTypeOK
<1>1. ClockInit => ClockInv
  BY StartsClock
<1>2. ClockInv /\ [ClockNext]_clockVars => ClockInv'
  BY ClockStep
<1>3. ClockInv => ClockTypeOK
  BY DEF ClockInv
<1> QED
  BY <1>1, <1>2, <1>3, PTL DEF ClockSpec

THEOREM SettingsApplied == ClockSpec => AppliedAsStored
<1>1. ClockInit => ClockInv
  BY StartsClock
<1>2. ClockInv /\ [ClockNext]_clockVars => ClockInv'
  BY ClockStep
<1>3. ClockInv =>
        [\A t \in Caller, u \in HelperUnit :
           Acknowledges(t, u) /\ u # "now" /\ ~joined[t] => done[u].cfg = stored[t]]_clockVars
  BY DEF ClockInv, Faithful, Started, GoesBy, Acknowledges, Waits, Running
<1> QED
  BY <1>1, <1>2, <1>3, PTL DEF ClockSpec, AppliedAsStored

=============================================================================
