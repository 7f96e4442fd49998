--------------------------- MODULE CommandsProofs ---------------------------
(***************************************************************************)
(* Proofs about Commands: types; with a clock that is never set back, that *)
(* nothing of an earlier run has an effect; and, when the requests of the  *)
(* UI come one at a time, that each command acts at most once.             *)
(***************************************************************************)
EXTENDS Commands, TLAPS

(* A stamp in the file, in a request or in the EMS's memory. *)
Present(t) ==
  \/ t \in {file.at, file.id, lastSoft, lastHard, grant}
  \/ \E w \in Writer : t \in {writer[w].command.at, writer[w].command.id,
                              writer[w].base.at, writer[w].base.id}

(* No stamp lies in the future, and one later than the start of the run was *)
(* issued in it.                                                            *)
StampsPast ==
  /\ runStart <= clock
  /\ \A t \in Stamp : Present(t) => t <= clock /\ (running /\ t > runStart => t \in thisRun)

(* What the EMS remembers is later than its start. *)
Guarded == \A t \in {grant, lastSoft, lastHard} : running /\ t # None => t > runStart

USE DEF reader, switch, ems, ui

(* A read returns a document. *)
LEMMA ReadingsType == TypeOK => \A doc \in Readings : doc \in Document
<1>1. Empty \in Document
  BY DEF Empty, Document
<1> QED
  BY <1>1 DEF TypeOK, Readings

(* The fields a command sets make a document. *)
LEMMA MergeType ==
  ASSUME NEW doc \in Document, NEW c \in Document PROVE Merge(doc, c) \in Document
  BY DEF Document, Merge

(* A merge takes each half from the command or from the document.           *)
LEMMA MergeFields ==
  ASSUME NEW doc \in Document, NEW c
  PROVE  /\ Merge(doc, c).at = IF c.at # None THEN c.at ELSE doc.at
         /\ Merge(doc, c).id = IF c.at # None THEN doc.id ELSE c.id
  BY DEF Document, Merge

(* The EMS honors only what carries a stamp later than its start.           *)
LEMMA GuardedStep == Guarded /\ [Next]_vars => Guarded'
<1> SUFFICES ASSUME Guarded, [Next]_vars PROVE Guarded'
  OBVIOUS
<1> USE DEF Guarded
<1>1. CASE StartEms
  BY <1>1 DEF StartEms
<1>2. CASE KillEms
  BY <1>2 DEF KillEms
<1>3. ASSUME NEW doc \in Readings, NEW due \in BOOLEAN, Scan(doc, due) PROVE Guarded'
  <2>1. grant' # None => grant' > runStart
    BY <1>3 DEF Scan, ApplySoft, Honored, NewSoft, FromThisRun
  <2>2. lastHard' # None => lastHard' > runStart
    BY <1>3 DEF Scan, ExecuteHardSwitch, Fires, Published, FromThisRun
  <2>3. lastSoft' # None => lastSoft' > runStart
    BY <1>3 DEF Scan, ApplySoft, NewSoft, FromThisRun
  <2> QED
    BY <2>1, <2>2, <2>3, <1>3 DEF Scan
<1>4. CASE UNCHANGED <<running, runStart, grant, lastSoft, lastHard>>
  BY <1>4
<1> QED
  BY <1>1, <1>2, <1>3, <1>4
  DEF Next, vars, Issue, ReadDocument, Replace, Tick, StepBack

(* Every step keeps the types. *)
LEMMA TypeStep == TypeOK /\ [Next]_vars => TypeOK'
<1> SUFFICES ASSUME TypeOK, [Next]_vars PROVE TypeOK'
  OBVIOUS
<1>0. Guarded'
  BY GuardedStep DEF TypeOK, Guarded
<1> USE <1>0, CommandsAssumption DEF TypeOK, Guarded, Stamp, NothingCounted
<1>1. ASSUME NEW w \in Writer, Issue(w) PROVE TypeOK'
  <2>1. PICK c \in {Soft(on, clock + 1) : on \in BOOLEAN} \cup {Hard(a, clock + 1) : a \in Action} :
          writer' = [writer EXCEPT ![w] = [pc |-> "stamped", command |-> c, base |-> Empty]]
    BY <1>1 DEF Issue
  <2>2. clock + 1 \in Stamp
    BY <1>1 DEF Issue
  <2>3. c \in Document
    <3>1. \A on \in BOOLEAN : Soft(on, clock + 1) \in Document
      BY <2>2 DEF Soft, Document
    <3>2. \A a \in Action : Hard(a, clock + 1) \in Document
      BY <2>2 DEF Hard, Document
    <3> QED
      BY <2>1, <3>1, <3>2
  <2>4. Empty \in Document
    BY DEF Empty, Document
  <2>5. writer' \in [Writer -> [pc : {"idle", "stamped", "read"}, command : Document, base : Document]]
    BY <2>1, <2>3, <2>4
  <2> QED
    BY <2>2, <2>5, <1>1 DEF Issue
<1>2. ASSUME NEW w \in Writer, ReadDocument(w) PROVE TypeOK'
  <2>1. PICK doc \in Readings : writer' = [writer EXCEPT ![w].pc = "read", ![w].base = doc]
    BY <1>2 DEF ReadDocument
  <2>2. writer' \in [Writer -> [pc : {"idle", "stamped", "read"}, command : Document, base : Document]]
    BY <2>1, ReadingsType
  <2> QED
    BY <2>2, <1>2 DEF ReadDocument
<1>3. ASSUME NEW w \in Writer, Replace(w) PROVE TypeOK'
  <2>1. file' \in Document
    BY <1>3, MergeType DEF Replace
  <2>2. Idle \in [pc : {"idle", "stamped", "read"}, command : Document, base : Document]
    BY DEF Idle, Empty, Document
  <2>3. writer' \in [Writer -> [pc : {"idle", "stamped", "read"}, command : Document, base : Document]]
    BY <2>2, <1>3 DEF Replace
  <2> QED
    BY <2>1, <2>3, <1>3 DEF Replace
<1>4. CASE StartEms
  BY <1>4 DEF StartEms
<1>5. CASE KillEms
  BY <1>5 DEF KillEms
<1>6. ASSUME NEW doc \in Readings, NEW due \in BOOLEAN, Scan(doc, due) PROVE TypeOK'
  <2>1. /\ doc.at \in Stamp \cup {None} /\ doc.on \in BOOLEAN
        /\ doc.id \in Stamp \cup {None} /\ doc.act \in Action \cup {None}
    BY ReadingsType DEF Document
  <2>2. /\ lastSoft' \in Stamp \cup {None} /\ allowed' \in BOOLEAN
    <3>2. lastSoft' \in Stamp \cup {None}
      BY <2>1, <1>6 DEF Scan, ApplySoft, NewSoft, FromThisRun
    <3>3. allowed' \in BOOLEAN
      BY <2>1, <1>6 DEF Scan, ApplySoft
    <3> QED
      BY <3>2, <3>3
  <2>3. /\ grant' \in Stamp \cup {None} /\ (allowed' <=> grant' # None)
    BY <2>1, <1>6 DEF Scan, ApplySoft, NewSoft, FromThisRun, Honored
  <2>4. allowed' /\ ~allowed => doc.at \in Stamp
    BY <2>1, <1>6 DEF Scan, ApplySoft, NewSoft, FromThisRun, Honored
  <2>5. enabled' \in [Stamp -> 0..2]
    BY <2>4, <1>6 DEF Scan, ApplySoft, Counted
  <2>6. /\ pinned' \in BOOLEAN /\ lastHard' \in Stamp \cup {None}
        /\ runState' \in Action \cup {None} /\ fired' \in [Stamp -> 0..2]
    <3>1. /\ pinned' \in BOOLEAN
          /\ ExecuteHardSwitch(doc) \/ UNCHANGED switch
      BY <2>2, <1>6, Zenon DEF Scan
    <3>2. CASE UNCHANGED switch
      BY <3>1, <3>2
    <3>3. CASE ExecuteHardSwitch(doc)
      BY <2>1, <3>1, <3>3 DEF ExecuteHardSwitch, Fires, Published, FromThisRun, Counted
    <3> QED
      BY <3>1, <3>2, <3>3
  <2> QED
    BY <2>2, <2>3, <2>5, <2>6, <1>6 DEF Scan
<1>7. CASE Tick
  BY <1>7 DEF Tick
<1>8. CASE StepBack
  <2>1. clock' \in Stamp /\ enabled' \in [Stamp -> 0..2] /\ fired' \in [Stamp -> 0..2]
    BY <1>8 DEF StepBack
  <2>2. stepped' \in BOOLEAN
    BY <1>8 DEF StepBack
  <2>3. UNCHANGED <<ui, thisRun, running, runStart, pinned, allowed, lastSoft, grant, lastHard, runState>>
    BY <1>8, Zenon DEF StepBack
  <2> QED
    BY <2>1, <2>2, <2>3
<1>10. CASE UNCHANGED vars
  BY <1>10 DEF vars
<1> QED
  BY <1>1, <1>2, <1>3, <1>4, <1>5, <1>6, <1>7, <1>8, <1>10 DEF Next

(* Before anything happens every variable has its type. *)
LEMMA TypeInit == Init => TypeOK
<1>1. Empty \in Document
  BY DEF Empty, Document
<1>2. Idle \in [pc : {"idle", "stamped", "read"}, command : Document, base : Document]
  BY <1>1 DEF Idle
<1> SUFFICES ASSUME Init PROVE TypeOK
  OBVIOUS
<1> USE CommandsAssumption DEF Init, Stamp, NothingCounted
<1>3. /\ enabled \in [Stamp -> 0..2] /\ fired \in [Stamp -> 0..2]
      /\ writer \in [Writer -> [pc : {"idle", "stamped", "read"}, command : Document, base : Document]]
  BY <1>2
<1>4. /\ clock \in Stamp /\ runStart \in Stamp /\ thisRun \subseteq Stamp
  OBVIOUS
<1>5. allowed <=> grant # None
  OBVIOUS
<1> QED
  BY <1>1, <1>3, <1>4, <1>5 DEF TypeOK

(* Types, whatever the clock and the file do. *)
THEOREM TypeCorrect == Spec => []TypeOK
  BY TypeInit, TypeStep, PTL DEF Spec

(* A stamp comes from a request, and then it is later than any other.       *)
LEMMA Origin ==
  TypeOK /\ [Next]_vars =>
    \A t \in Stamp : Present(t)' => \/ Present(t)
                                    \/ t = clock + 1 /\ clock' = t /\ thisRun' = thisRun \cup {t}
<1> SUFFICES ASSUME TypeOK, [Next]_vars, NEW t \in Stamp, Present(t)', ~Present(t)
             PROVE  t = clock + 1 /\ clock' = t /\ thisRun' = thisRun \cup {t}
  OBVIOUS
<1>0. t # None
  BY CommandsAssumption DEF Stamp
<1> USE DEF Present, TypeOK
<1>1. ASSUME NEW w \in Writer, Issue(w)
      PROVE  t = clock + 1 /\ clock' = t /\ thisRun' = thisRun \cup {t}
  <2>1. PICK c \in {Soft(on, clock + 1) : on \in BOOLEAN} \cup {Hard(a, clock + 1) : a \in Action} :
          writer' = [writer EXCEPT ![w] = [pc |-> "stamped", command |-> c, base |-> Empty]]
    BY <1>1 DEF Issue
  <2>2. c.at \in {None, clock + 1} /\ c.id \in {None, clock + 1}
    BY <2>1 DEF Soft, Hard
  <2>3. PICK v \in Writer : t \in {writer'[v].command.at, writer'[v].command.id,
                                   writer'[v].base.at, writer'[v].base.id}
    BY <1>1 DEF Issue
  <2>4. CASE v = w
    BY <2>1, <2>2, <2>3, <2>4, <1>0, <1>1 DEF Issue, Empty
  <2>5. CASE v # w
    BY <2>1, <2>3, <2>5
  <2> QED
    BY <2>4, <2>5
<1>2. ASSUME NEW w \in Writer, ReadDocument(w) PROVE FALSE
  <2>1. PICK doc \in {file, Empty} : writer' = [writer EXCEPT ![w].pc = "read", ![w].base = doc]
    BY <1>2 DEF ReadDocument, Readings
  <2>2. PICK v \in Writer : t \in {writer'[v].command.at, writer'[v].command.id,
                                   writer'[v].base.at, writer'[v].base.id}
    BY <1>2 DEF ReadDocument
  <2> QED
    BY <2>1, <2>2, <1>0 DEF Empty
<1>3. ASSUME NEW w \in Writer, Replace(w) PROVE FALSE
  <2>1. t \notin {file'.at, file'.id}
    <3>1. writer[w].base \in Document
      OBVIOUS
    <3> QED
      BY <3>1, <1>3, MergeFields DEF Replace
  <2>2. PICK v \in Writer : t \in {writer'[v].command.at, writer'[v].command.id,
                                   writer'[v].base.at, writer'[v].base.id}
    BY <1>3, <2>1 DEF Replace
  <2> QED
    BY <2>2, <1>0, <1>3 DEF Replace, Idle, Empty
<1>4. CASE StartEms
  BY <1>0, <1>4 DEF StartEms
<1>5. CASE KillEms
  BY <1>0, <1>5 DEF KillEms
<1>6. ASSUME NEW doc \in Readings, NEW due \in BOOLEAN, Scan(doc, due) PROVE FALSE
  <2>1. doc.at \in {file.at, None} /\ doc.id \in {file.id, None}
    BY DEF Readings, Empty
  <2>2. lastSoft' \in {lastSoft, doc.at} /\ grant' \in {None, grant, doc.at}
    BY <1>6 DEF Scan, ApplySoft
  <2>3. lastHard' \in {lastHard, doc.id}
    BY <1>6 DEF Scan, ExecuteHardSwitch
  <2> QED
    BY <2>1, <2>2, <2>3, <1>0, <1>6 DEF Scan
<1>7. CASE Tick
  BY <1>7 DEF Tick
<1>8. CASE StepBack
  BY <1>8 DEF StepBack
<1>10. CASE UNCHANGED vars
  BY <1>10 DEF vars
<1> QED
  BY <1>1, <1>2, <1>3, <1>4, <1>5, <1>6, <1>7, <1>8, <1>10 DEF Next

(* What only a clock that was never set back gives.                         *)
LEMMA PastStep == ~stepped' /\ TypeOK /\ StampsPast /\ [Next]_vars => StampsPast'
<1> SUFFICES ASSUME ~stepped', TypeOK, StampsPast, [Next]_vars PROVE StampsPast'
  OBVIOUS
<1>1. /\ clock \in Nat /\ clock' \in Nat /\ runStart \in Nat /\ clock <= clock'
      /\ \/ UNCHANGED <<running, runStart>> /\ thisRun \subseteq thisRun'
         \/ runStart' = clock /\ clock' = clock
         \/ ~running' /\ UNCHANGED runStart
  <2>1. TypeOK'
    BY TypeStep
  <2>2. clock \in Nat /\ clock' \in Nat /\ runStart \in Nat
    <3>1. clock \in Stamp /\ runStart \in Stamp
      BY DEF TypeOK
    <3>2. clock' \in Stamp
      BY <2>1 DEF TypeOK
    <3> QED
      BY <3>1, <3>2, CommandsAssumption DEF Stamp
  <2>3. CASE \E w \in Writer : Issue(w) \/ ReadDocument(w) \/ Replace(w)
    <3>1. \/ clock' = clock + 1 /\ thisRun' = thisRun \cup {clock + 1}
          \/ clock' = clock /\ thisRun' = thisRun
      BY <2>3 DEF Issue, ReadDocument, Replace
    <3>2. UNCHANGED <<running, runStart>>
      BY <2>3 DEF Issue, ReadDocument, Replace
    <3> QED
      BY <2>2, <3>1, <3>2
  <2>4. CASE StartEms
    BY <2>2, <2>4 DEF StartEms
  <2>5. CASE KillEms
    <3>1. ~running'
      BY <2>5, Zenon DEF KillEms
    <3>2. UNCHANGED <<clock, runStart>>
      BY <2>5, Zenon DEF KillEms
    <3> QED
      BY <2>2, <3>1, <3>2
  <2>6. CASE \E doc \in Readings, due \in BOOLEAN : Scan(doc, due)
    BY <2>2, <2>6 DEF Scan
  <2>7. CASE Tick \/ UNCHANGED vars
    BY <2>2, <2>7 DEF Tick, vars
  <2>8. \/ \E w \in Writer : Issue(w) \/ ReadDocument(w) \/ Replace(w)
        \/ StartEms \/ KillEms
        \/ \E doc \in Readings, due \in BOOLEAN : Scan(doc, due)
        \/ Tick \/ UNCHANGED vars
    BY Zenon DEF Next, StepBack
  <2> QED
    BY <2>3, <2>4, <2>5, <2>6, <2>7, <2>8
<1>2. runStart' <= clock'
  BY <1>1 DEF StampsPast
<1>3. ASSUME NEW t \in Stamp, Present(t)'
      PROVE  t <= clock' /\ (running' /\ t > runStart' => t \in thisRun')
  <2>1. CASE t = clock + 1 /\ clock' = t /\ thisRun' = thisRun \cup {t}
    BY <2>1, <1>1 DEF Stamp
  <2>2. CASE Present(t)
    BY <2>2, <1>1 DEF StampsPast, Stamp
  <2> QED
    BY <1>3, <2>1, <2>2, Origin
<1> QED
  BY <1>2, <1>3 DEF StampsPast

(* The histories of the clock and of the requests only ever rise. *)
LEMMA HistoriesRise ==
  [Next]_vars => (~stepped' => ~stepped) /\ (~overlapped' => ~overlapped)
<1> SUFFICES ASSUME [Next]_vars PROVE (~stepped' => ~stepped) /\ (~overlapped' => ~overlapped)
  OBVIOUS
<1>1. ASSUME NEW w \in Writer, Issue(w) PROVE stepped' = stepped /\ (~overlapped' => ~overlapped)
  BY <1>1, Zenon DEF Issue
<1>2. CASE UNCHANGED <<stepped, overlapped>>
  BY <1>2
<1>3. CASE StepBack
  BY <1>3 DEF StepBack
<1> QED
  BY <1>1, <1>2, <1>3
  DEF Next, vars, ReadDocument, Replace, StartEms, KillEms, Scan, Tick

(* The initial stamps and memories are those of an empty history. *)
LEMMA PastInit == Init => StampsPast
  BY CommandsAssumption DEF Init, StampsPast, Present, Idle, Empty, Stamp

(* With a clock that was never set back, nothing of an earlier run allows   *)
(* generation or drives the hard switch, with any number of overlapping     *)
(* requests and whatever happens to the file.                               *)
THEOREM LeftoversIgnored == Spec => []RestartGuard
<1> DEFINE I == TypeOK /\ (~stepped => StampsPast)
<1>1. Init => I
  BY PastInit, TypeInit
<1>2. I /\ [Next]_vars => I'
  BY TypeStep, PastStep, HistoriesRise
<1>3. I => RestartGuard
  BY DEF TypeOK, StampsPast, RestartGuard, Present
<1> QED
  BY <1>1, <1>2, <1>3, PTL DEF Spec

(* A request thread between two requests carries nothing, and as long as no *)
(* two requests overlap at most one thread is in a request.                 *)
Alone ==
  /\ \A w \in Writer : writer[w].pc = "idle" =>
       /\ writer[w].command.at = None /\ writer[w].command.id = None
       /\ writer[w].base.at = None /\ writer[w].base.id = None
  /\ ~overlapped => \A v, w \in Writer : writer[v].pc # "idle" /\ writer[w].pc # "idle" => v = w

(* Requests are counted as overlapping when a second one is issued.         *)
LEMMA AloneStep == TypeOK /\ Alone /\ [Next]_vars => Alone'
<1> SUFFICES ASSUME TypeOK, Alone, [Next]_vars PROVE Alone'
  OBVIOUS
<1> USE DEF TypeOK, Alone
<1>1. ASSUME NEW w \in Writer, Issue(w) PROVE Alone'
  <2>1. PICK c \in {Soft(on, clock + 1) : on \in BOOLEAN} \cup {Hard(a, clock + 1) : a \in Action} :
          writer' = [writer EXCEPT ![w] = [pc |-> "stamped", command |-> c, base |-> Empty]]
    BY <1>1 DEF Issue
  <2>2. ~overlapped' => ~overlapped /\ \A v \in Writer : writer[v].pc = "idle"
    BY <1>1, Zenon DEF Issue
  <2> QED
    BY <2>1, <2>2
<1>2. ASSUME NEW w \in Writer, ReadDocument(w) PROVE Alone'
  BY <1>2 DEF ReadDocument
<1>3. ASSUME NEW w \in Writer, Replace(w) PROVE Alone'
  BY <1>3 DEF Replace, Idle, Empty
<1>4. CASE UNCHANGED <<writer, overlapped>>
  BY <1>4
<1> QED
  BY <1>1, <1>2, <1>3, <1>4 DEF Next, vars, StartEms, KillEms, Scan, Tick, StepBack

(* Nobody is in a request at the start. *)
LEMMA AloneInit == Init => Alone
  BY DEF Init, Alone, Idle, Empty

(* The thread that is in a request is the only one that carries a stamp.    *)
LEMMA OthersEmpty ==
  ASSUME Alone, ~overlapped', NEW w \in Writer, Issue(w) \/ ReadDocument(w) \/ Replace(w)
  PROVE  \A v \in Writer : v # w =>
           /\ writer[v].command.at = None /\ writer[v].command.id = None
           /\ writer[v].base.at = None /\ writer[v].base.id = None
<1>1. CASE Issue(w)
  <2>1. \A v \in Writer : writer[v].pc = "idle"
    BY <1>1, Zenon DEF Issue
  <2> QED
    BY <2>1 DEF Alone
<1>2. CASE ReadDocument(w) \/ Replace(w)
  <2>1. writer[w].pc # "idle" /\ ~overlapped
    BY <1>2 DEF ReadDocument, Replace
  <2> QED
    BY <2>1 DEF Alone
<1> QED
  BY <1>1, <1>2

AtMost(t, u) == t # None /\ u # None => t <= u
Before(t, u) == t # None /\ u # None => t < u

(* Requests in order: a command waiting to be written is newer than         *)
(* whatever the file, the document it starts from and the EMS have seen,    *)
(* and neither the file nor that document lags behind the EMS.              *)
SoftOrder ==
  /\ AtMost(lastSoft, file.at)
  /\ \A w \in Writer :
       /\ writer[w].base.at # None => file.at \in {None, writer[w].base.at}
       /\ AtMost(lastSoft, writer[w].base.at)
       /\ Before(file.at, writer[w].command.at)
       /\ Before(lastSoft, writer[w].command.at)
       /\ Before(writer[w].base.at, writer[w].command.at)

(* What turned generation on is remembered or belongs to an earlier run.    *)
SoftMemory ==
  \A t \in Stamp :
    /\ enabled[t] <= 1
    /\ enabled[t] = 1 => /\ t <= clock
                         /\ running /\ t > runStart => lastSoft # None /\ t <= lastSoft

(* What a cycle does to the soft half: it takes over the stamp of the file  *)
(* or nothing, and turns generation on for a stamp it had not seen.         *)
LEMMA ScanSoft ==
  ASSUME NEW doc \in Readings, NEW due \in BOOLEAN, Scan(doc, due)
  PROVE  /\ running /\ UNCHANGED <<clock, file, writer, running, runStart, thisRun>>
         /\ lastSoft' = lastSoft \/ (lastSoft' = file.at /\ file.at # None)
         /\ \/ enabled' = enabled
            \/ /\ file.at # None /\ file.at > runStart /\ file.at # lastSoft
               /\ lastSoft' = file.at /\ enabled' = Counted(enabled, file.at)
<1>1. running /\ UNCHANGED <<clock, file, writer, running, runStart, thisRun>> /\ ApplySoft(doc)
  BY DEF Scan
<1>2. lastSoft' = IF NewSoft(doc) THEN doc.at ELSE lastSoft
  BY <1>1 DEF ApplySoft
<1>3. doc.at = file.at \/ doc.at = None
  BY DEF Readings, Empty
<1>4. NewSoft(doc) => doc.at = file.at /\ file.at # None /\ file.at > runStart /\ file.at # lastSoft
  BY <1>3 DEF NewSoft, FromThisRun
<1>5. enabled' = enabled \/ (NewSoft(doc) /\ enabled' = Counted(enabled, doc.at))
  BY <1>1 DEF ApplySoft, Honored
<1> QED
  BY <1>1, <1>2, <1>4, <1>5

(* With requests in order and a clock that is never set back, the order is  *)
(* kept.                                                                    *)
LEMMA SoftOrderStep ==
  Alone /\ ~overlapped' /\ TypeOK /\ StampsPast /\ SoftOrder /\ [Next]_vars => SoftOrder'
<1> SUFFICES ASSUME Alone, ~overlapped', TypeOK, StampsPast, SoftOrder, [Next]_vars PROVE SoftOrder'
  OBVIOUS
<1>0. /\ file.at # None => file.at \in Nat /\ file.at \in Stamp
      /\ lastSoft # None => lastSoft \in Nat /\ lastSoft \in Stamp
      /\ clock \in Nat
      /\ \A t \in Stamp : t \in Nat
      /\ \A w \in Writer : /\ writer[w].command.at # None => writer[w].command.at \in Nat
                           /\ writer[w].base.at # None => writer[w].base.at \in Nat
                           /\ writer[w].base \in Document
  BY CommandsAssumption DEF TypeOK, Stamp, Document
<1> USE <1>0 DEF SoftOrder, AtMost, Before
<1>1. ASSUME NEW w \in Writer, Issue(w) PROVE SoftOrder'
  <2>0. \A v \in Writer : v # w => /\ writer[v].command.at = None /\ writer[v].base.at = None
                                  /\ writer'[v] = writer[v]
    BY <1>1, OthersEmpty DEF Issue, TypeOK
  <2>1. PICK c \in {Soft(on, clock + 1) : on \in BOOLEAN} \cup {Hard(a, clock + 1) : a \in Action} :
          writer' = [writer EXCEPT ![w] = [pc |-> "stamped", command |-> c, base |-> Empty]]
    BY <1>1 DEF Issue
  <2>2. c.at \in {None, clock + 1}
    BY <2>1 DEF Soft, Hard
  <2>3. /\ file.at # None => file.at < clock + 1
        /\ lastSoft # None => lastSoft < clock + 1
    <3>1. ASSUME NEW t \in Stamp, Present(t) PROVE t < clock + 1
      BY <3>1 DEF StampsPast
    <3>2. Present(file.at) /\ Present(lastSoft)
      BY DEF Present
    <3> QED
      BY <3>1, <3>2
  <2>5. writer'[w].command = c /\ writer'[w].base.at = None
    BY <2>1 DEF TypeOK, Empty
  <2> QED
    BY <2>0, <2>2, <2>3, <2>5, <1>1 DEF Issue
<1>2. ASSUME NEW w \in Writer, ReadDocument(w) PROVE SoftOrder'
  <2>0. \A v \in Writer : v # w => /\ writer[v].command.at = None /\ writer[v].base.at = None
                                  /\ writer'[v] = writer[v]
    BY <1>2, OthersEmpty DEF ReadDocument, TypeOK
  <2>1. PICK doc \in {file, Empty} : writer' = [writer EXCEPT ![w].pc = "read", ![w].base = doc]
    BY <1>2 DEF ReadDocument, Readings
  <2>3. writer'[w].command = writer[w].command /\ writer'[w].base = doc
    BY <2>1 DEF TypeOK
  <2>4. doc.at = file.at \/ doc.at = None
    BY <2>1 DEF Empty
  <2> QED
    BY <2>0, <2>3, <2>4, <1>2 DEF ReadDocument
<1>3. ASSUME NEW w \in Writer, Replace(w) PROVE SoftOrder'
  <2>0. \A v \in Writer : v # w => /\ writer[v].command.at = None /\ writer[v].base.at = None
                                  /\ writer'[v] = writer[v]
    BY <1>3, OthersEmpty DEF Replace, TypeOK
  <2>1. writer'[w].command.at = None /\ writer'[w].base.at = None
    BY <1>3 DEF Replace, Idle, Empty, TypeOK
  <2>2. \/ file'.at = file.at
        \/ writer[w].command.at # None /\ file'.at = writer[w].command.at
        \/ file'.at = writer[w].base.at
    BY <1>3, MergeFields DEF Replace
  <2>3. lastSoft' = lastSoft
    BY <1>3 DEF Replace
  <2>4. AtMost(lastSoft', file'.at)
    <3>1. CASE file'.at = file.at
      BY <3>1, <2>3
    <3>2. CASE writer[w].command.at # None /\ file'.at = writer[w].command.at
      BY <3>2, <2>3
    <3>3. CASE file'.at = writer[w].base.at
      BY <3>3, <2>3
    <3> QED
      BY <3>1, <3>2, <3>3, <2>2
  <2> QED
    BY <2>0, <2>1, <2>4
<1>4. CASE StartEms
  BY <1>4 DEF StartEms
<1>5. ASSUME NEW doc \in Readings, NEW due \in BOOLEAN, Scan(doc, due) PROVE SoftOrder'
  BY <1>5, ScanSoft
<1>7. CASE UNCHANGED <<file, writer, lastSoft>>
  BY <1>7
<1> QED
  BY <1>1, <1>2, <1>3, <1>4, <1>5, <1>7 DEF Next, vars, KillEms, Tick, StepBack

(* A start that turned generation on is not taken for a new one.            *)
LEMMA SoftMemoryStep ==
  ~stepped' /\ TypeOK /\ StampsPast /\ SoftOrder /\ SoftMemory /\ [Next]_vars => SoftMemory'
<1> SUFFICES ASSUME ~stepped', TypeOK, StampsPast, SoftOrder, SoftMemory, [Next]_vars
             PROVE  SoftMemory'
  OBVIOUS
<1>0. /\ file.at # None => file.at \in Nat /\ file.at \in Stamp
      /\ lastSoft # None => lastSoft \in Nat
      /\ clock \in Nat /\ runStart \in Nat
      /\ \A t \in Stamp : t \in Nat
      /\ enabled \in [Stamp -> 0..2]
  BY CommandsAssumption DEF TypeOK, Stamp, Document
<1> USE <1>0 DEF SoftMemory
<1>1. ASSUME NEW doc \in Readings, NEW due \in BOOLEAN, Scan(doc, due) PROVE SoftMemory'
  <2>1. CASE enabled' = enabled
    BY <2>1, <1>1, ScanSoft DEF SoftOrder, AtMost
  <2>2. CASE /\ file.at # None /\ file.at > runStart /\ file.at # lastSoft
             /\ lastSoft' = file.at /\ enabled' = Counted(enabled, file.at)
    <3>1. file.at \in Stamp /\ file.at <= clock
      BY <2>2 DEF StampsPast, Present
    <3>2. running /\ UNCHANGED <<clock, running, runStart>>
      BY <1>1, ScanSoft
    <3>3. enabled[file.at] = 0
      <4>1. enabled[file.at] \in 0..2 /\ enabled[file.at] <= 1
        BY <3>1
      <4>2. enabled[file.at] # 1
        BY <2>2, <3>1, <3>2 DEF SoftOrder, AtMost
      <4> QED
        BY <4>1, <4>2
    <3>4. \A t \in Stamp : enabled'[t] = IF t = file.at THEN 1 ELSE enabled[t]
      <4>1. enabled' = [enabled EXCEPT ![file.at] = 1]
        BY <2>2, <3>1, <3>3 DEF Counted
      <4> QED
        BY <4>1, <3>1
    <3>5. \A t \in Stamp : t # file.at /\ t > runStart /\ enabled[t] = 1 => t <= file.at
      BY <2>2, <3>1, <3>2 DEF SoftOrder, AtMost
    <3> QED
      BY <2>2, <3>1, <3>2, <3>4, <3>5
  <2> QED
    BY <2>1, <2>2, <1>1, ScanSoft
<1>2. CASE StartEms
  BY <1>2 DEF StartEms
<1>3. CASE KillEms
  BY <1>3 DEF KillEms
<1>4. CASE clock' \in Nat /\ clock <= clock' /\ UNCHANGED <<enabled, running, runStart, lastSoft>>
  BY <1>4
<1> HIDE DEF SoftMemory
<1>5. \/ \E doc \in Readings, due \in BOOLEAN : Scan(doc, due)
      \/ StartEms \/ KillEms
      \/ (clock' = clock \/ clock' = clock + 1) /\ UNCHANGED <<enabled, running, runStart, lastSoft>>
  BY DEF Next, vars, Issue, ReadDocument, Replace, Tick, StepBack
<1> QED
  BY <1>1, <1>2, <1>3, <1>4, <1>5

(* A start turns generation on at most once ...                             *)
LEMMA StartsActOnce ==
  Spec => [](~stepped /\ ~overlapped => \A t \in Stamp : enabled[t] <= 1)
<1> DEFINE I == /\ TypeOK /\ Alone
                /\ ~stepped => StampsPast
                /\ ~overlapped /\ ~stepped => SoftOrder
                /\ ~overlapped /\ ~stepped => SoftMemory
<1>1. Init => I
  <2>1. Init => SoftOrder
    BY DEF Init, SoftOrder, AtMost, Before, Idle, Empty
  <2>2. Init => SoftMemory
    BY DEF Init, SoftMemory, NothingCounted
  <2> QED
    BY <2>1, <2>2, PastInit, AloneInit, TypeInit
<1>2. I /\ [Next]_vars => I'
  BY TypeStep, AloneStep, PastStep, HistoriesRise, SoftOrderStep, SoftMemoryStep
<1>3. I => (~stepped /\ ~overlapped => \A t \in Stamp : enabled[t] <= 1)
  BY DEF SoftMemory
<1> QED
  BY <1>1, <1>2, <1>3, PTL DEF Spec

(* The same order for hard commands. *)
HardOrder ==
  /\ AtMost(lastHard, file.id)
  /\ \A w \in Writer :
       /\ writer[w].base.id # None => file.id \in {None, writer[w].base.id}
       /\ AtMost(lastHard, writer[w].base.id)
       /\ Before(file.id, writer[w].command.id)
       /\ Before(lastHard, writer[w].command.id)
       /\ Before(writer[w].base.id, writer[w].command.id)

(* What was sent is remembered or belongs to an earlier run. *)
HardMemory ==
  \A t \in Stamp :
    /\ fired[t] <= 1
    /\ fired[t] = 1 => /\ t <= clock
                       /\ running /\ t > runStart => lastHard # None /\ t <= lastHard

(* What a cycle does to the hard half: it sends the command of the file, not *)
(* seen before, or nothing.                                                 *)
LEMMA ScanHard ==
  ASSUME NEW doc \in Readings, NEW due \in BOOLEAN, Scan(doc, due)
  PROVE  /\ running /\ UNCHANGED <<clock, file, writer, running, runStart, thisRun>>
         /\ lastHard' = lastHard \/ (lastHard' = file.id /\ file.id # None)
         /\ \/ fired' = fired
            \/ /\ file.id # None /\ file.id > runStart /\ file.id # lastHard
               /\ lastHard' = file.id /\ fired' = Counted(fired, file.id)
<1>1. /\ running /\ UNCHANGED <<clock, file, writer, running, runStart, thisRun>>
      /\ ExecuteHardSwitch(doc) \/ UNCHANGED switch
  BY DEF Scan
<1>2. \/ UNCHANGED <<lastHard, fired>>
      \/ Fires(doc) /\ lastHard' = doc.id /\ (fired' = fired \/ fired' = Counted(fired, doc.id))
  BY <1>1 DEF ExecuteHardSwitch
<1>3. doc.id = file.id \/ doc.id = None
  BY DEF Readings, Empty
<1>4. Fires(doc) => doc.id = file.id /\ file.id # None /\ file.id > runStart /\ file.id # lastHard
  BY <1>3 DEF Fires, Published, FromThisRun
<1> QED
  BY <1>1, <1>2, <1>4

(* The order is kept. *)
LEMMA HardOrderStep ==
  Alone /\ ~overlapped' /\ TypeOK /\ StampsPast /\ HardOrder /\ [Next]_vars => HardOrder'
<1> SUFFICES ASSUME Alone, ~overlapped', TypeOK, StampsPast, HardOrder, [Next]_vars PROVE HardOrder'
  OBVIOUS
<1>0. /\ file.id # None => file.id \in Nat /\ file.id \in Stamp
      /\ lastHard # None => lastHard \in Nat /\ lastHard \in Stamp
      /\ clock \in Nat
      /\ \A t \in Stamp : t \in Nat
      /\ \A w \in Writer : /\ writer[w].command.id # None => writer[w].command.id \in Nat
                           /\ writer[w].base.id # None => writer[w].base.id \in Nat
                           /\ writer[w].base \in Document
  BY CommandsAssumption DEF TypeOK, Stamp, Document
<1> USE <1>0 DEF HardOrder, AtMost, Before
<1>1. ASSUME NEW w \in Writer, Issue(w) PROVE HardOrder'
  <2>0. \A v \in Writer : v # w => /\ writer[v].command.id = None /\ writer[v].base.id = None
                                  /\ writer'[v] = writer[v]
    BY <1>1, OthersEmpty DEF Issue, TypeOK
  <2>1. PICK c \in {Soft(on, clock + 1) : on \in BOOLEAN} \cup {Hard(a, clock + 1) : a \in Action} :
          writer' = [writer EXCEPT ![w] = [pc |-> "stamped", command |-> c, base |-> Empty]]
    BY <1>1 DEF Issue
  <2>2. c.id \in {None, clock + 1}
    BY <2>1 DEF Soft, Hard
  <2>3. /\ file.id # None => file.id < clock + 1
        /\ lastHard # None => lastHard < clock + 1
    <3>1. ASSUME NEW t \in Stamp, Present(t) PROVE t < clock + 1
      BY <3>1 DEF StampsPast
    <3>2. Present(file.id) /\ Present(lastHard)
      BY DEF Present
    <3> QED
      BY <3>1, <3>2
  <2>5. writer'[w].command = c /\ writer'[w].base.id = None
    BY <2>1 DEF TypeOK, Empty
  <2> QED
    BY <2>0, <2>2, <2>3, <2>5, <1>1 DEF Issue
<1>2. ASSUME NEW w \in Writer, ReadDocument(w) PROVE HardOrder'
  <2>0. \A v \in Writer : v # w => /\ writer[v].command.id = None /\ writer[v].base.id = None
                                  /\ writer'[v] = writer[v]
    BY <1>2, OthersEmpty DEF ReadDocument, TypeOK
  <2>1. PICK doc \in {file, Empty} : writer' = [writer EXCEPT ![w].pc = "read", ![w].base = doc]
    BY <1>2 DEF ReadDocument, Readings
  <2>3. writer'[w].command = writer[w].command /\ writer'[w].base = doc
    BY <2>1 DEF TypeOK
  <2>4. doc.id = file.id \/ doc.id = None
    BY <2>1 DEF Empty
  <2> QED
    BY <2>0, <2>3, <2>4, <1>2 DEF ReadDocument
<1>3. ASSUME NEW w \in Writer, Replace(w) PROVE HardOrder'
  <2>0. \A v \in Writer : v # w => /\ writer[v].command.id = None /\ writer[v].base.id = None
                                  /\ writer'[v] = writer[v]
    BY <1>3, OthersEmpty DEF Replace, TypeOK
  <2>1. writer'[w].command.id = None /\ writer'[w].base.id = None
    BY <1>3 DEF Replace, Idle, Empty, TypeOK
  <2>2. \/ file'.id = file.id
        \/ file'.id = writer[w].command.id
        \/ file'.id = writer[w].base.id
    BY <1>3, MergeFields DEF Replace
  <2>3. lastHard' = lastHard
    BY <1>3 DEF Replace
  <2>4. AtMost(lastHard', file'.id)
    <3>1. CASE file'.id = file.id
      BY <3>1, <2>3
    <3>2. CASE file'.id = writer[w].command.id
      BY <3>2, <2>3
    <3>3. CASE file'.id = writer[w].base.id
      BY <3>3, <2>3
    <3> QED
      BY <3>1, <3>2, <3>3, <2>2
  <2> QED
    BY <2>0, <2>1, <2>4
<1>4. CASE StartEms
  BY <1>4 DEF StartEms
<1>5. ASSUME NEW doc \in Readings, NEW due \in BOOLEAN, Scan(doc, due) PROVE HardOrder'
  BY <1>5, ScanHard
<1>7. CASE UNCHANGED <<file, writer, lastHard>>
  BY <1>7
<1> QED
  BY <1>1, <1>2, <1>3, <1>4, <1>5, <1>7 DEF Next, vars, KillEms, Tick, StepBack

(* A hard command that was sent is not taken for a new one.                 *)
LEMMA HardMemoryStep ==
  ~stepped' /\ TypeOK /\ StampsPast /\ HardOrder /\ HardMemory /\ [Next]_vars => HardMemory'
<1> SUFFICES ASSUME ~stepped', TypeOK, StampsPast, HardOrder, HardMemory, [Next]_vars
             PROVE  HardMemory'
  OBVIOUS
<1>0. /\ file.id # None => file.id \in Nat /\ file.id \in Stamp
      /\ lastHard # None => lastHard \in Nat
      /\ clock \in Nat /\ runStart \in Nat
      /\ \A t \in Stamp : t \in Nat
      /\ fired \in [Stamp -> 0..2]
  BY CommandsAssumption DEF TypeOK, Stamp, Document
<1> USE <1>0 DEF HardMemory
<1>1. ASSUME NEW doc \in Readings, NEW due \in BOOLEAN, Scan(doc, due) PROVE HardMemory'
  <2>1. CASE fired' = fired
    BY <2>1, <1>1, ScanHard DEF HardOrder, AtMost
  <2>2. CASE /\ file.id # None /\ file.id > runStart /\ file.id # lastHard
             /\ lastHard' = file.id /\ fired' = Counted(fired, file.id)
    <3>1. file.id \in Stamp /\ file.id <= clock
      BY <2>2 DEF StampsPast, Present
    <3>2. running /\ UNCHANGED <<clock, running, runStart>>
      BY <1>1, ScanHard
    <3>3. fired[file.id] = 0
      <4>1. fired[file.id] \in 0..2 /\ fired[file.id] <= 1
        BY <3>1
      <4>2. fired[file.id] # 1
        BY <2>2, <3>1, <3>2 DEF HardOrder, AtMost
      <4> QED
        BY <4>1, <4>2
    <3>4. \A t \in Stamp : fired'[t] = IF t = file.id THEN 1 ELSE fired[t]
      <4>1. fired' = [fired EXCEPT ![file.id] = 1]
        BY <2>2, <3>1, <3>3 DEF Counted
      <4> QED
        BY <4>1, <3>1
    <3>5. \A t \in Stamp : t # file.id /\ t > runStart /\ fired[t] = 1 => t <= file.id
      BY <2>2, <3>1, <3>2 DEF HardOrder, AtMost
    <3> QED
      BY <2>2, <3>1, <3>2, <3>4, <3>5
  <2> QED
    BY <2>1, <2>2, <1>1, ScanHard
<1>2. CASE StartEms
  BY <1>2 DEF StartEms
<1>3. CASE KillEms
  <2>1. ~running'
    BY <1>3, Zenon DEF KillEms
  <2>2. UNCHANGED <<clock, fired>>
    BY <1>3, Zenon DEF KillEms
  <2> QED
    BY <2>1, <2>2
<1>4. CASE clock' \in Nat /\ clock <= clock' /\ UNCHANGED <<fired, running, runStart, lastHard>>
  BY <1>4
<1> HIDE DEF HardMemory
<1>5. \/ \E doc \in Readings, due \in BOOLEAN : Scan(doc, due)
      \/ StartEms \/ KillEms
      \/ (clock' = clock \/ clock' = clock + 1) /\ UNCHANGED <<fired, running, runStart, lastHard>>
  BY DEF Next, vars, Issue, ReadDocument, Replace, Tick, StepBack
<1> QED
  BY <1>1, <1>2, <1>3, <1>4, <1>5

(* ... and a hard command is sent at most once.                             *)
LEMMA HardActsOnce ==
  Spec => [](~stepped /\ ~overlapped => \A t \in Stamp : fired[t] <= 1)
<1> DEFINE I == /\ TypeOK /\ Alone
                /\ ~stepped => StampsPast
                /\ ~overlapped /\ ~stepped => HardOrder
                /\ ~overlapped /\ ~stepped => HardMemory
<1>1. Init => I
  <2>1. Init => HardOrder
    BY DEF Init, HardOrder, AtMost, Before, Idle, Empty
  <2>2. Init => HardMemory
    BY DEF Init, HardMemory, NothingCounted
  <2> QED
    BY <2>1, <2>2, PastInit, AloneInit, TypeInit
<1>2. I /\ [Next]_vars => I'
  BY TypeStep, AloneStep, PastStep, HistoriesRise, HardOrderStep, HardMemoryStep
<1>3. I => (~stepped /\ ~overlapped => \A t \in Stamp : fired[t] <= 1)
  BY DEF HardMemory
<1> QED
  BY <1>1, <1>2, <1>3, PTL DEF Spec

(* Every command acts at most once, through any number of restarts and file *)
(* faults, when requests come one at a time and the clock was never set     *)
(* back (command_file.py:91, commands.py:185, gate.py:65).                  *)
THEOREM EachActsOnce == Spec => []ActsOnce
<1>1. /\ ~stepped /\ ~overlapped => \A t \in Stamp : enabled[t] <= 1
      /\ ~stepped /\ ~overlapped => \A t \in Stamp : fired[t] <= 1
      => ActsOnce
  BY DEF ActsOnce
<1> QED
  BY <1>1, StartsActOnce, HardActsOnce, PTL

=============================================================================
