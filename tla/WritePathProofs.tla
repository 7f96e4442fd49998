--------------------------- MODULE WritePathProofs --------------------------
(***************************************************************************)
(* Proofs about WritePath, for any registers, values and timing:           *)
(* types, that a setpoint counted as flushed is in the device, and that    *)
(* the driver keeps the promise Delivery states.                           *)
(***************************************************************************)
EXTENDS WritePath, SequenceTheorems, TLAPS

(* What makes it inductive: after a good write the registers hold the       *)
(* snapshot, and the snapshot is the cache wherever nothing was republished. *)
SnapshotHolds ==
  \A s \in InFlight :
    /\ pc = "sp_ok" /\ s \notin drifted => register[s] = due[s]
    /\ s \notin dirty => due[s] = spCache[s]

(* While no write of a batch has failed, each register that was written     *)
(* holds the last command for it.                                           *)
BatchHolds ==
  /\ left \subseteq Effective(taken)
  /\ pc = "cmd_ok" => ~lost
  /\ pc \in {"cmd_write", "cmd_ok"} /\ ~lost
       => \A i \in Effective(taken) \ left : register[taken[i].tag] = taken[i].value

(* Numbers grow along the line up to the last command sent, and what has    *)
(* reached a register is no later than what is still to reach it.           *)
Behind(q) == \A i \in Effective(q) : reached[q[i].tag] <= q[i].no

Numbered ==
  /\ \A i, j \in 1..Len(Line) : i < j => Line[i].no < Line[j].no
  /\ \A i \in 1..Len(Line) : Line[i].no <= sent
  /\ \A t \in Command : reached[t] <= sent
  /\ Behind(Line) /\ Behind(taken)

(* The inductive invariant. *)
Inv == TypeOK /\ CleanIsWritten /\ SnapshotHolds /\ BatchHolds /\ Numbered

USE DEF control, batch, device

(* What stands in a batch or a queue is a command.                          *)
LEMMA OrderAt ==
  ASSUME NEW q \in Seq(Order), NEW i \in DOMAIN q
  PROVE  /\ q[i] \in Order
         /\ q[i].tag \in Command /\ q[i].value \in CmdValue /\ q[i].no \in 1..MaxSent
<1>1. q[i] \in Order
  BY ElementOfSeq, LenProperties
<1> QED
  BY <1>1 DEF Order

(* Every step keeps the types and the worker's private state in its place.  *)
LEMMA TypeStep == TypeOK /\ [Next]_vars => TypeOK'
<1> SUFFICES ASSUME TypeOK, [Next]_vars PROVE TypeOK'
  OBVIOUS
<1> USE WritePathAssumption DEF TypeOK, MaxWriteAge
<1>1. CASE Publish
  BY <1>1 DEF Publish
<1>2. ASSUME NEW t \in Command, NEW v \in CmdValue, SendCommand(t, v) PROVE TypeOK'
  <2>0. sent + 1 \in 1..MaxSent
    BY <1>2 DEF SendCommand
  <2>1. [tag |-> t, value |-> v, no |-> sent + 1] \in Order
    BY <2>0 DEF Order
  <2>2. queue' \in Seq(Order)
    BY <2>1, <1>2, AppendProperties DEF SendCommand
  <2>3. latest' \in [Command -> Order \cup {None}]
    BY <2>1, <1>2 DEF SendCommand
  <2> QED
    BY <2>2, <2>3, <1>2 DEF SendCommand
<1>3. CASE TakeCommands
  <2>1. DOMAIN queue = {} <=> queue = <<>>
    BY EmptySeq
  <2>2. left' \subseteq DOMAIN taken' /\ (pc' # "cmd_write" => left' = {})
    BY <1>3, <2>1 DEF TakeCommands, Effective
  <2> QED
    BY <1>3, <2>2, EmptySeq DEF TakeCommands
<1>4. ASSUME NEW i \in DOMAIN taken, Perform(i)
      PROVE  /\ register' \in [Setpoint \cup Command -> SpValue \cup CmdValue \cup {None}]
             /\ reached' \in [Command -> 0..MaxSent]
  <2>1. taken[i].tag \in Command /\ taken[i].value \in CmdValue /\ taken[i].no \in 0..MaxSent
    BY OrderAt
  <2> QED
    BY <2>1, <1>4 DEF Perform
<1>5. CASE WriteCommand
  <2>1. PICK i \in left :
          /\ left' = left \ {i} /\ lost' = (lost \/ bus = "down")
          /\ Perform(i) \/ UNCHANGED <<register, reached>>
          /\ pc' = IF left' # {} THEN "cmd_write" ELSE IF lost' THEN "cmd_failed" ELSE "cmd_ok"
    BY <1>5 DEF WriteCommand
  <2>2. /\ pc = "cmd_write"
        /\ UNCHANGED <<control, sinceFlush, queue, taken, due, spent, writeAge, bus, drifted, unflushed>>
    BY <1>5 DEF WriteCommand
  <2>3. /\ register' \in [Setpoint \cup Command -> SpValue \cup CmdValue \cup {None}]
        /\ reached' \in [Command -> 0..MaxSent]
    BY <1>4, <2>1
  <2>4. pc' \in {"cmd_write", "cmd_failed", "cmd_ok"} /\ (pc' # "cmd_write" => left' = {})
    BY <2>1
  <2>5. lost' \in BOOLEAN
    BY <2>1, Zenon
  <2> QED
    BY <2>1, <2>2, <2>3, <2>4, <2>5
<1>6. CASE CommandsDelivered
  BY <1>6, EmptySeq DEF CommandsDelivered
<1>7. CASE RequeueCommands
  BY <1>7, ConcatProperties, EmptySeq DEF RequeueCommands
<1>8. CASE Snapshot
  BY <1>8 DEF Snapshot, Due
<1>9. CASE WriteSetpoints
  <2>1. ASSUME NEW S \in SUBSET InFlight, WriteRegisters(S)
        PROVE  /\ register' \in [Setpoint \cup Command -> SpValue \cup CmdValue \cup {None}]
               /\ drifted' \subseteq Setpoint
    BY <2>1 DEF WriteRegisters, InFlight
  <2>2. PICK S \in SUBSET InFlight : WriteRegisters(S)
    BY <1>9 DEF WriteSetpoints
  <2>3. unflushed' \in BOOLEAN
    BY <1>9 DEF WriteSetpoints
  <2>4. /\ pc' \in {"sp_ok", "wait"}
        /\ due' \in [Setpoint -> SpValue \cup {None}]
        /\ pc' = "wait" => due' = [s \in Setpoint |-> None]
        /\ UNCHANGED <<control, sinceFlush, queue, batch, reached, spent, writeAge, bus>>
        /\ pc = "sp_write"
    BY <1>9 DEF WriteSetpoints, WriteRegisters
  <2> QED
    BY <2>1, <2>2, <2>3, <2>4
<1>10. CASE SetpointsFlushed
  <2>1. /\ pc = "sp_ok" /\ pc' = "wait"
        /\ sinceFlush' \in [Setpoint -> 0..Rewrite] /\ writeAge' \in 0..MaxWriteAge
        /\ due' \in [Setpoint -> SpValue \cup {None}] /\ due' = [s \in Setpoint |-> None]
        /\ dirty' \subseteq Setpoint
    BY <1>10 DEF SetpointsFlushed
  <2>2. unflushed' \in BOOLEAN
    BY <1>10, Zenon DEF SetpointsFlushed
  <2>3. UNCHANGED <<spCache, sent, latest, queue, batch, spent, bus, register, reached, drifted>>
    BY <1>10, Zenon DEF SetpointsFlushed
  <2> QED
    BY <2>1, <2>2, <2>3
<1>11. CASE NextPass
  BY <1>11 DEF NextPass
<1>12. CASE Tick
  BY <1>12 DEF Tick
<1>13. CASE BusChange
  BY <1>13 DEF BusChange
<1>14. ASSUME NEW s \in Setpoint, NEW v \in SpValue, Drift(s, v) PROVE TypeOK'
  BY <1>14 DEF Drift
<1>15. CASE UNCHANGED vars
  BY <1>15 DEF vars
<1> QED
  BY <1>1, <1>2, <1>3, <1>5, <1>6, <1>7, <1>8, <1>9, <1>10, <1>11, <1>12, <1>13, <1>14, <1>15
  DEF Next, Worker

(* A fresh driver has the types.                                           *)
LEMMA TypeInit == Init => TypeOK
<1> SUFFICES ASSUME Init PROVE TypeOK
  OBVIOUS
<1>1. queue \in Seq(Order) /\ taken \in Seq(Order) /\ taken = <<>>
  BY EmptySeq DEF Init
<1>2. left \subseteq DOMAIN taken /\ left = {} /\ lost \in BOOLEAN
  BY DEF Init
<1>3. reached \in [Command -> 0..MaxSent] /\ sent \in 0..MaxSent
  BY WritePathAssumption DEF Init
<1> QED
  BY <1>1, <1>2, <1>3, WritePathAssumption DEF Init, TypeOK, MaxWriteAge

(* A published setpoint that is not dirty is in the device; see             *)
(* CachedDriver._flush_setpoints and its test against mid-flush updates.    *)
LEMMA CleanStep == TypeOK /\ CleanIsWritten /\ SnapshotHolds /\ [Next]_vars
                     => CleanIsWritten' /\ SnapshotHolds'
<1> SUFFICES ASSUME TypeOK, CleanIsWritten, SnapshotHolds, [Next]_vars
             PROVE  CleanIsWritten' /\ SnapshotHolds'
  OBVIOUS
<1> USE WritePathAssumption DEF TypeOK, CleanIsWritten, SnapshotHolds, InFlight
<1>1. CASE Publish
  BY <1>1 DEF Publish
<1>2. ASSUME NEW t \in Command, NEW v \in CmdValue, SendCommand(t, v)
      PROVE  CleanIsWritten' /\ SnapshotHolds'
  BY <1>2 DEF SendCommand
<1>3. CASE TakeCommands
  BY <1>3 DEF TakeCommands
<1>4. CASE WriteCommand
  <2>1. PICK i \in left : Perform(i) \/ UNCHANGED register
    BY <1>4 DEF WriteCommand
  <2>2. taken[i].tag \in Command
    BY OrderAt
  <2>3. \A s \in Setpoint : register'[s] = register[s]
    BY <2>1, <2>2 DEF Perform
  <2> QED
    BY <2>3, <1>4 DEF WriteCommand
<1>5. CASE CommandsDelivered
  BY <1>5 DEF CommandsDelivered
<1>6. CASE RequeueCommands
  BY <1>6 DEF RequeueCommands
<1>7. CASE Snapshot
  BY <1>7 DEF Snapshot
<1>8. CASE WriteSetpoints
  <2>1. PICK S \in SUBSET InFlight :
          /\ WriteRegisters(S)
          /\ \/ S = InFlight /\ UNCHANGED due
             \/ pc' = "wait" /\ due' = [s \in Setpoint |-> None]
    BY <1>8 DEF WriteSetpoints
  <2>2. \A s \in Setpoint : register'[s] = IF s \in S THEN due[s] ELSE register[s]
    BY <2>1 DEF WriteRegisters
  <2>3. drifted' = drifted \ S
    BY <2>1 DEF WriteRegisters
  <2>4. CleanIsWritten'
    BY <2>1, <2>2, <2>3, <1>8 DEF WriteSetpoints
  <2>5. SnapshotHolds'
    BY <2>1, <2>2, <2>3, <1>8 DEF WriteSetpoints
  <2> QED
    BY <2>4, <2>5
<1>9. CASE SetpointsFlushed
  BY <1>9 DEF SetpointsFlushed, Flushed
<1>10. CASE NextPass
  BY <1>10 DEF NextPass
<1>11. CASE Tick
  BY <1>11 DEF Tick
<1>12. CASE BusChange
  BY <1>12 DEF BusChange
<1>13. ASSUME NEW s \in Setpoint, NEW v \in SpValue, Drift(s, v)
       PROVE  CleanIsWritten' /\ SnapshotHolds'
  BY <1>13 DEF Drift
<1>14. CASE UNCHANGED vars
  BY <1>14 DEF vars
<1> QED
  BY <1>1, <1>2, <1>3, <1>4, <1>5, <1>6, <1>7, <1>8, <1>9, <1>10, <1>11, <1>12, <1>13, <1>14
  DEF Next, Worker

(* A batch names each register once.                                        *)
LEMMA OncePerRegister ==
  ASSUME NEW q \in Seq(Order), NEW i \in Effective(q), NEW j \in Effective(q),
         q[i].tag = q[j].tag
  PROVE  i = j
<1>1. i \in 1..Len(q) /\ j \in 1..Len(q) /\ DOMAIN q = 1..Len(q)
  BY LenProperties DEF Effective
<1> QED
  BY <1>1 DEF Effective

(* One register of a batch is written, or its write fails and may have      *)
(* arrived all the same.                                                    *)
LEMMA CommandWritten ==
  ASSUME TypeOK, BatchHolds, WriteCommand
  PROVE  \E i \in Effective(taken) :
           /\ i \in left /\ left' = left \ {i}
           /\ taken[i] \in Order /\ taken[i].tag \in Command
           /\ lost => lost'
           /\ Perform(i) \/ (lost' /\ UNCHANGED <<register, reached>>)
<1>1. PICK i \in left :
        /\ left' = left \ {i} /\ lost' = (lost \/ bus = "down")
        /\ Perform(i) \/ (lost' /\ UNCHANGED <<register, reached>>)
  BY DEF WriteCommand
<1>2. i \in Effective(taken)
  BY DEF BatchHolds
<1>3. taken[i] \in Order /\ taken[i].tag \in Command
  BY <1>2, OrderAt DEF TypeOK, Effective
<1>4. lost => lost'
  BY <1>1
<1> QED
  BY <1>1, <1>2, <1>3, <1>4

(* Nothing but the writes of a batch touches a command register.            *)
LEMMA BatchStep == TypeOK /\ BatchHolds /\ [Next]_vars => BatchHolds'
<1> SUFFICES ASSUME TypeOK, BatchHolds, [Next]_vars PROVE BatchHolds'
  OBVIOUS
<1> USE DEF TypeOK
<1>1. CASE WriteCommand
  <2>1. PICK i \in Effective(taken) :
          /\ i \in left /\ left' = left \ {i}
          /\ taken[i] \in Order /\ taken[i].tag \in Command
          /\ lost => lost'
          /\ Perform(i) \/ (lost' /\ UNCHANGED <<register, reached>>)
    BY <1>1, CommandWritten
  <2>2. /\ pc = "cmd_write" /\ taken' = taken
        /\ pc' = "cmd_ok" => ~lost'
    BY <1>1 DEF WriteCommand
  <2>3. ASSUME ~lost', NEW j \in Effective(taken) \ left'
        PROVE  register'[taken[j].tag] = taken[j].value
    <3>1. register' = [register EXCEPT ![taken[i].tag] = taken[i].value]
      BY <2>1, <2>3 DEF Perform
    <3>2. CASE j = i
      BY <3>1, <3>2, <2>1
    <3>3. CASE j # i
      <4>1. taken[j].tag # taken[i].tag
        BY <3>3, OncePerRegister
      <4>2. register[taken[j].tag] = taken[j].value
        BY <2>1, <2>2, <2>3, <3>3 DEF BatchHolds
      <4>3. taken[j].tag \in Command
        BY <2>3, OrderAt DEF Effective
      <4> QED
        BY <3>1, <4>1, <4>2, <4>3
    <3> QED
      BY <3>2, <3>3
  <2>4. left' \subseteq Effective(taken)
    BY <2>1 DEF BatchHolds
  <2> QED
    BY <2>2, <2>3, <2>4 DEF BatchHolds, Effective
<1>2. CASE TakeCommands
  BY <1>2 DEF TakeCommands, BatchHolds, Effective
<1>3. ASSUME UNCHANGED <<pc, taken, left, lost>>,
             \A t \in Command : register'[t] = register[t]
      PROVE  BatchHolds'
  <2>1. \A i \in Effective(taken) : taken[i].tag \in Command
    BY OrderAt DEF Effective
  <2> QED
    BY <1>3, <2>1 DEF BatchHolds, Effective
<1>4. CASE left' = {} /\ pc' \notin {"cmd_write", "cmd_ok"}
  BY <1>4 DEF BatchHolds
<1>5. ASSUME NEW s \in Setpoint, NEW v \in SpValue, Drift(s, v)
      PROVE  \A t \in Command : register'[t] = register[t]
  BY <1>5, WritePathAssumption DEF Drift
<1>6. \/ WriteCommand \/ TakeCommands
      \/ /\ UNCHANGED <<pc, taken, left, lost>>
         /\ UNCHANGED register \/ \E s \in Setpoint, v \in SpValue : Drift(s, v)
      \/ left' = {} /\ pc' \notin {"cmd_write", "cmd_ok"}
  BY DEF Next, vars, Worker, Publish, SendCommand, CommandsDelivered, RequeueCommands,
         Snapshot, WriteSetpoints, SetpointsFlushed, NextPass, Tick, BusChange, Drift
<1> QED
  BY <1>1, <1>2, <1>3, <1>4, <1>5, <1>6

-----------------------------------------------------------------------------
(* The line of commands and the numbers along it.                           *)
USE DEF Line

(* The batch stands in front of the queue.                                  *)
LEMMA FrontOfLine ==
  ASSUME TypeOK
  PROVE  /\ Line \in Seq(Order) /\ Len(Line) = Len(taken) + Len(queue)
         /\ DOMAIN taken = 1..Len(taken) /\ DOMAIN Line = 1..Len(Line)
         /\ Len(taken) \in 0..Len(Line) /\ Len(Line) \in Nat
         /\ \A i \in 1..Len(taken) : Line[i] = taken[i]
         /\ SubSeq(Line, Len(taken) + 1, Len(Line)) = queue
<1> USE DEF TypeOK
<1>1. /\ Len(taken) \in Nat /\ Len(queue) \in Nat
      /\ Line \in Seq(Order) /\ Len(Line) = Len(taken) + Len(queue)
  BY ConcatProperties, LenProperties
<1>2. \A i \in 1..Len(taken) : Line[i] = taken[i]
  BY <1>1, ConcatProperties
<1>3. CASE queue = <<>>
  BY <1>1, <1>2, <1>3, SubSeqEmpty
<1>4. CASE queue # <<>>
  <2>1. Len(queue) \in Nat \ {0}
    BY <1>1, <1>4, EmptySeq
  <2>2. SubSeq(Line, Len(taken) + 1, Len(Line)) = SubSeq(queue, 1, Len(queue))
    BY <1>1, <2>1, SubSeqOfConcat2
  <2> QED
    BY <1>1, <1>2, <2>2, SubSeqFull
<1> QED
  BY <1>3, <1>4

(* A batch is taken from the line and given back to it in its place.        *)
LEMMA LineKept ==
  ASSUME TypeOK, TakeCommands \/ RequeueCommands
  PROVE  Line' = Line
<1> USE DEF TypeOK
<1>1. CASE TakeCommands
  BY <1>1, ConcatEmptySeq DEF TakeCommands
<1>2. CASE RequeueCommands
  BY <1>2, ConcatEmptySeq, ConcatProperties DEF RequeueCommands
<1> QED
  BY <1>1, <1>2

(* A command goes to its end, with a number of its own.                     *)
LEMMA LineGrows ==
  ASSUME TypeOK, NEW t \in Command, NEW v \in CmdValue, SendCommand(t, v)
  PROVE  \E o \in Order : o.no = sent + 1 /\ Line' = Append(Line, o)
<1> DEFINE o == [tag |-> t, value |-> v, no |-> sent + 1]
<1>1. sent + 1 \in 1..MaxSent /\ queue' = Append(queue, o) /\ taken' = taken
  BY WritePathAssumption DEF SendCommand, TypeOK
<1>2. o \in Order /\ o.no = sent + 1
  BY <1>1 DEF Order
<1> HIDE DEF o
<1>3. taken \in Seq(Order) /\ queue \in Seq(Order) /\ <<o>> \in Seq(Order)
  BY <1>2 DEF TypeOK
<1>4. Append(taken \o queue, o) = (taken \o queue) \o <<o>>
  BY <1>2, <1>3, AppendIsConcat, ConcatProperties
<1>5. Append(queue, o) = queue \o <<o>>
  BY <1>2, <1>3, AppendIsConcat
<1>6. Append(taken \o queue, o) = taken \o Append(queue, o)
  BY <1>3, <1>4, <1>5, ConcatAssociative
<1> QED
  BY <1>1, <1>2, <1>6

(* A batch that was written leaves it.                                      *)
LEMMA LineShrinks ==
  ASSUME TypeOK, CommandsDelivered
  PROVE  Line' = SubSeq(Line, Len(taken) + 1, Len(Line))
  BY FrontOfLine, ConcatEmptySeq DEF CommandsDelivered, TypeOK

(* Whatever reaches a register is the last for it in the batch, and what is *)
(* behind the batch has larger numbers.                                     *)
LEMMA NumberedStep ==
  TypeOK /\ BatchHolds /\ Numbered /\ [Next]_vars => Numbered'
<1> SUFFICES ASSUME TypeOK, BatchHolds, Numbered, [Next]_vars PROVE Numbered'
  OBVIOUS
<1>0. /\ sent \in Nat /\ reached \in [Command -> Nat]
      /\ \A i \in 1..Len(Line) : Line[i].tag \in Command /\ Line[i].no \in Nat
  <2>1. \A i \in 1..Len(Line) : Line[i].tag \in Command /\ Line[i].no \in 1..MaxSent
    BY FrontOfLine, OrderAt
  <2>2. sent \in 0..MaxSent /\ reached \in [Command -> 0..MaxSent] /\ MaxSent \in Nat
    BY WritePathAssumption DEF TypeOK
  <2> QED
    BY <2>1, <2>2
<1> HIDE DEF Line
<1>1. CASE WriteCommand
  <2>1. PICK i \in Effective(taken) :
          /\ taken[i].tag \in Command
          /\ Perform(i) \/ UNCHANGED reached
    BY <1>1, CommandWritten
  <2>2. /\ i \in 1..Len(taken) /\ i \in 1..Len(Line) /\ Line[i] = taken[i]
        /\ DOMAIN taken = 1..Len(taken) /\ DOMAIN Line = 1..Len(Line)
    BY FrontOfLine DEF Effective
  <2>3. Line' = Line /\ taken' = taken /\ sent' = sent
    BY <1>1 DEF WriteCommand, Line
  <2>4. CASE UNCHANGED reached
    BY <2>3, <2>4 DEF Numbered, Behind, Effective
  <2>5. CASE Perform(i)
    <3>1. reached' = [reached EXCEPT ![Line[i].tag] = Line[i].no]
      BY <2>2, <2>5 DEF Perform
    <3>2. \A t \in Command : reached'[t] <= sent'
      BY <1>0, <2>2, <2>3, <3>1 DEF Numbered
    <3>3. ASSUME NEW j \in Effective(Line) PROVE reached'[Line[j].tag] <= Line[j].no
      <4>1. j \in 1..Len(Line) /\ (Line[j].tag = Line[i].tag => ~(i > j))
        BY <2>2 DEF Effective
      <4>2. CASE Line[j].tag = Line[i].tag
        BY <1>0, <2>2, <3>1, <4>1, <4>2 DEF Numbered
      <4>3. CASE Line[j].tag # Line[i].tag
        BY <1>0, <2>2, <3>1, <4>1, <4>3 DEF Numbered, Behind
      <4> QED
        BY <4>2, <4>3
    <3>4. ASSUME NEW j \in Effective(taken) PROVE reached'[taken[j].tag] <= taken[j].no
      <4>1. j \in 1..Len(Line) /\ Line[j] = taken[j]
        BY <2>2, FrontOfLine DEF Effective
      <4>2. CASE j = i
        BY <1>0, <2>2, <3>1, <4>2
      <4>3. CASE j # i
        <5>1. taken[j].tag # taken[i].tag
          BY <4>3, OncePerRegister DEF TypeOK
        <5> QED
          BY <1>0, <2>2, <3>1, <4>1, <5>1 DEF Numbered, Behind
      <4> QED
        BY <4>2, <4>3
    <3> QED
      BY <2>3, <3>2, <3>3, <3>4 DEF Numbered, Behind, Effective
  <2> QED
    BY <2>1, <2>4, <2>5
<1>2. CASE TakeCommands
  <2>1. Line' = Line /\ UNCHANGED <<sent, reached>>
    BY <1>2, LineKept DEF TakeCommands
  <2>2. taken' = Line
    BY <1>2, ConcatEmptySeq DEF TakeCommands, TypeOK, Line
  <2> QED
    BY <2>1, <2>2 DEF Numbered, Behind, Effective
<1>3. CASE RequeueCommands
  <2>1. Line' = Line /\ UNCHANGED <<sent, reached>> /\ taken' = <<>>
    BY <1>3, LineKept DEF RequeueCommands
  <2> QED
    BY <2>1, EmptySeq DEF Numbered, Behind, Effective
<1>4. CASE CommandsDelivered
  <2>1. UNCHANGED <<sent, reached>> /\ taken' = <<>> /\ Line' = queue
    BY <1>4, LineShrinks, FrontOfLine DEF CommandsDelivered
  <2>2. /\ Len(taken) \in Nat /\ Len(queue) \in Nat /\ Len(Line) = Len(taken) + Len(queue)
        /\ DOMAIN Line = 1..Len(Line) /\ DOMAIN queue = 1..Len(queue)
        /\ \A i \in 1..Len(queue) : queue[i] = Line[i + Len(taken)]
    <3>1. taken \in Seq(Order) /\ queue \in Seq(Order)
      BY DEF TypeOK
    <3>2. \A i \in 1..Len(Line) : Line[i] = IF i <= Len(taken) THEN taken[i] ELSE queue[i - Len(taken)]
      BY <3>1, ConcatProperties, FrontOfLine DEF Line
    <3>3. Len(taken) \in Nat /\ Len(queue) \in Nat /\ DOMAIN queue = 1..Len(queue)
      BY <3>1, LenProperties
    <3> QED
      BY <3>2, <3>3, FrontOfLine
  <2>3. Behind(queue)
    <3> SUFFICES ASSUME NEW i \in Effective(queue) PROVE reached[queue[i].tag] <= queue[i].no
      BY DEF Behind
    <3> DEFINE k == i + Len(taken)
    <3>1. i \in 1..Len(queue) /\ k \in 1..Len(Line)
      BY <2>2 DEF Effective
    <3>2. ASSUME NEW j \in 1..Len(Line), j > k PROVE Line[j].tag # Line[k].tag
      <4>1. j - Len(taken) \in 1..Len(queue) /\ j - Len(taken) > i
            /\ queue[j - Len(taken)] = Line[j] /\ queue[i] = Line[k]
        BY <2>2, <3>1, <3>2
      <4> QED
        BY <2>2, <4>1 DEF Effective
    <3>3. k \in Effective(Line)
      BY <2>2, <3>1, <3>2 DEF Effective
    <3> QED
      BY <2>2, <3>1, <3>3 DEF Numbered, Behind
  <2>4. \A i, j \in 1..Len(queue) : i < j => queue[i].no < queue[j].no
    <3> SUFFICES ASSUME NEW i \in 1..Len(queue), NEW j \in 1..Len(queue), i < j
                 PROVE  queue[i].no < queue[j].no
      OBVIOUS
    <3>1. /\ i + Len(taken) \in 1..Len(Line) /\ j + Len(taken) \in 1..Len(Line)
          /\ i + Len(taken) < j + Len(taken)
      BY <2>2
    <3> QED
      BY <2>2, <3>1 DEF Numbered
  <2>5. \A i \in 1..Len(queue) : queue[i].no <= sent
    <3> SUFFICES ASSUME NEW i \in 1..Len(queue) PROVE queue[i].no <= sent
      OBVIOUS
    <3>1. i + Len(taken) \in 1..Len(Line)
      BY <2>2
    <3> QED
      BY <2>2, <3>1 DEF Numbered
  <2>6. Behind(taken)'
    BY <2>1, EmptySeq DEF Behind, Effective
  <2> QED
    BY <2>1, <2>3, <2>4, <2>5, <2>6 DEF Numbered, Behind
<1>5. ASSUME NEW t \in Command, NEW v \in CmdValue, SendCommand(t, v) PROVE Numbered'
  <2>1. PICK o \in Order : o.no = sent + 1 /\ Line' = Append(Line, o)
    BY <1>5, LineGrows
  <2>2. UNCHANGED <<taken, reached>> /\ sent' = sent + 1
    BY <1>5 DEF SendCommand
  <2>3. /\ Line \in Seq(Order) /\ Len(Line) \in Nat /\ DOMAIN Line = 1..Len(Line)
        /\ Len(Line') = Len(Line) + 1 /\ DOMAIN (Line') = 1..Len(Line) + 1
        /\ \A i \in 1..Len(Line) : Line'[i] = Line[i]
        /\ Line'[Len(Line) + 1] = o
    BY <2>1, FrontOfLine, AppendProperties
  <2>4. \A i \in 1..Len(Line') : Line'[i].no <= sent'
    BY <1>0, <2>1, <2>2, <2>3 DEF Numbered
  <2>5. \A i, j \in 1..Len(Line') : i < j => Line'[i].no < Line'[j].no
    <3> SUFFICES ASSUME NEW i \in 1..Len(Line) + 1, NEW j \in 1..Len(Line) + 1, i < j
                 PROVE  Line'[i].no < Line'[j].no
      BY <2>3
    <3>1. i \in 1..Len(Line) /\ Line'[i] = Line[i] /\ Line[i].no <= sent
      BY <2>3 DEF Numbered
    <3>2. CASE j = Len(Line) + 1
      BY <1>0, <2>1, <2>3, <3>1, <3>2
    <3>3. CASE j \in 1..Len(Line)
      BY <2>3, <3>1, <3>3 DEF Numbered
    <3> QED
      BY <2>3, <3>2, <3>3
  <2>6. \A u \in Command : reached'[u] <= sent'
    BY <1>0, <2>2 DEF Numbered
  <2>7. ASSUME NEW i \in Effective(Line') PROVE reached[Line'[i].tag] <= Line'[i].no
    <3>1. CASE i = Len(Line) + 1
      <4>1. o.tag \in Command
        BY DEF Order
      <4> QED
        BY <1>0, <2>1, <2>3, <3>1, <4>1 DEF Numbered
    <3>2. CASE i # Len(Line) + 1
      <4>1. i \in Effective(Line) /\ Line'[i] = Line[i]
        BY <2>3, <3>2 DEF Effective
      <4> QED
        BY <4>1 DEF Numbered, Behind
    <3> QED
      BY <3>1, <3>2
  <2> QED
    BY <2>2, <2>4, <2>5, <2>6, <2>7 DEF Numbered, Behind, Effective
<1>6. CASE UNCHANGED <<taken, queue, sent, reached>>
  BY <1>6 DEF Numbered, Behind, Effective, Line
<1>7. \/ WriteCommand \/ TakeCommands \/ RequeueCommands \/ CommandsDelivered
      \/ \E t \in Command, v \in CmdValue : SendCommand(t, v)
      \/ UNCHANGED <<taken, queue, sent, reached>>
  BY DEF Next, vars, Worker, Publish, Snapshot, WriteSetpoints, WriteRegisters,
         SetpointsFlushed, NextPass, Tick, BusChange, Drift
<1> QED
  BY <1>1, <1>2, <1>3, <1>4, <1>5, <1>6, <1>7

(* The inductive invariant holds of every execution.                        *)
THEOREM Invariance == Spec => []Inv
<1>1. Init => Inv
  <2>1. Init => CleanIsWritten /\ SnapshotHolds /\ BatchHolds
    BY DEF Init, CleanIsWritten, SnapshotHolds, BatchHolds, InFlight
  <2>2. Init => Numbered
    BY ConcatEmptySeq, EmptySeq DEF Init, Numbered, Behind, Effective
  <2> QED
    BY <2>1, <2>2, TypeInit DEF Inv
<1>2. Inv /\ [Next]_vars => Inv'
  BY TypeStep, CleanStep, BatchStep, NumberedStep DEF Inv
<1> QED
  BY <1>1, <1>2, PTL DEF Spec

(* The types, and where the worker may hold a batch or a snapshot.          *)
THEOREM TypeCorrect == Spec => []TypeOK
  BY Invariance, PTL DEF Inv

(* The driver never counts as flushed a setpoint the device does not hold.  *)
THEOREM CleanHolds == Spec => []CleanIsWritten
  BY Invariance, PTL DEF Inv

-----------------------------------------------------------------------------
(* The write age.  Some setpoint keeps it down: either it is not due yet,   *)
(* and the age is no older than its flush, or it has been due for the rest  *)
(* of one pass, or for that and the next pass up to its flush.              *)
Late(s) == IF sinceFlush[s] < Rewrite THEN 0 ELSE IF pc = "wait" THEN spent ELSE MaxLoop + spent
KeepsFresh(s) == spCache[s] # None /\ writeAge <= sinceFlush[s] + Late(s)

AgeHeld ==
  /\ \A s \in InFlight : spCache[s] # None
  /\ pc \in {"sp_write", "sp_ok"} => InFlight # {}
  /\ ~unflushed => \E s \in Setpoint : KeepsFresh(s)

LEMMA AgeStep == TypeOK /\ AgeHeld /\ [Next]_vars => AgeHeld'
<1> SUFFICES ASSUME TypeOK, AgeHeld, [Next]_vars PROVE AgeHeld'
  OBVIOUS
<1> USE WritePathAssumption DEF TypeOK
<1>0. /\ spent \in Nat /\ MaxLoop \in Nat /\ Rewrite \in Nat /\ writeAge \in Nat
      /\ \A s \in Setpoint : sinceFlush[s] \in Nat /\ sinceFlush[s] <= Rewrite
      /\ spent <= MaxLoop
  BY DEF MaxWriteAge
<1>1. CASE Publish
  <2>1. \A s \in Setpoint : spCache'[s] # None
    BY <1>1 DEF Publish
  <2>2. UNCHANGED <<sinceFlush, pc, due, spent, writeAge, unflushed>>
    BY <1>1 DEF Publish
  <2> QED
    BY <2>1, <2>2 DEF AgeHeld, KeepsFresh, Late, InFlight
<1>2. CASE TakeCommands \/ WriteCommand \/ RequeueCommands
  <2>1. /\ pc # "wait" /\ pc' \notin {"wait", "sp_write", "sp_ok"}
        /\ UNCHANGED <<spCache, sinceFlush, due, spent, writeAge, unflushed>>
    BY <1>2 DEF TakeCommands, WriteCommand, RequeueCommands, Perform
  <2> QED
    BY <2>1 DEF AgeHeld, KeepsFresh, Late, InFlight
<1>3. CASE CommandsDelivered
  <2>1. /\ pc' = "setpoints" /\ writeAge' = 0
        /\ UNCHANGED <<spCache, sinceFlush, due, spent, unflushed>>
    BY <1>3 DEF CommandsDelivered
  <2> QED
    BY <1>0, <2>1 DEF AgeHeld, KeepsFresh, Late, InFlight
<1>4. CASE Snapshot
  <2>1. /\ pc = "setpoints" /\ due' = [s \in Setpoint |-> IF Due(s) THEN spCache[s] ELSE None]
        /\ pc' = IF \E s \in Setpoint : Due(s) THEN "sp_write" ELSE "wait"
        /\ UNCHANGED <<spCache, sinceFlush, spent, writeAge, unflushed>>
    BY <1>4 DEF Snapshot
  <2>2. /\ \A s \in InFlight' : spCache'[s] # None
        /\ pc' \in {"sp_write", "sp_ok"} => InFlight' # {}
    BY <2>1 DEF InFlight, Due
  <2>3. ASSUME NEW s \in Setpoint, KeepsFresh(s) PROVE KeepsFresh(s)'
    BY <1>0, <2>1, <2>3 DEF KeepsFresh, Late, Due
  <2> QED
    BY <2>1, <2>2, <2>3 DEF AgeHeld
<1>5. CASE WriteSetpoints
  <2>1. CASE unflushed'
    <3>1. \/ pc' = "wait" /\ due' = [s \in Setpoint |-> None] /\ spCache' = spCache
          \/ pc' = "sp_ok" /\ UNCHANGED <<due, spCache>> /\ pc = "sp_write"
      BY <1>5 DEF WriteSetpoints
    <3> QED
      BY <2>1, <3>1 DEF AgeHeld, InFlight
  <2>2. CASE ~unflushed'
    <3>1. /\ pc = "sp_write" /\ pc' = "sp_ok"
          /\ UNCHANGED <<spCache, sinceFlush, due, spent, writeAge, unflushed>>
      BY <1>5, <2>2 DEF WriteSetpoints
    <3> QED
      BY <3>1 DEF AgeHeld, KeepsFresh, Late, InFlight
  <2> QED
    BY <2>1, <2>2
<1>6. CASE SetpointsFlushed
  <2>1. /\ pc = "sp_ok" /\ pc' = "wait" /\ writeAge' = 0 /\ spent' = spent
        /\ sinceFlush' = [s \in Setpoint |-> IF s \in InFlight THEN 0 ELSE sinceFlush[s]]
        /\ due' = [s \in Setpoint |-> None] /\ spCache' = spCache
    BY <1>6 DEF SetpointsFlushed
  <2>2. PICK s \in Setpoint : s \in InFlight /\ spCache[s] # None
    BY <2>1 DEF AgeHeld, InFlight
  <2>3. KeepsFresh(s)'
    BY <1>0, <2>1, <2>2 DEF KeepsFresh, Late
  <2> QED
    BY <2>1, <2>3 DEF AgeHeld, InFlight
<1>7. CASE NextPass
  <2>1. /\ pc = "wait" /\ pc' = "commands" /\ spent' = 0
        /\ UNCHANGED <<spCache, sinceFlush, due, writeAge, unflushed>>
    BY <1>7 DEF NextPass
  <2>2. ASSUME NEW s \in Setpoint, KeepsFresh(s) PROVE KeepsFresh(s)'
    BY <1>0, <2>1, <2>2 DEF KeepsFresh, Late
  <2> QED
    BY <2>1, <2>2 DEF AgeHeld, InFlight
<1>8. CASE Tick
  <2>1. /\ spent' = spent + 1 /\ writeAge' <= writeAge + 1 /\ writeAge' \in Nat
        /\ UNCHANGED <<spCache, pc, due, unflushed>>
        /\ \A s \in Setpoint : sinceFlush'[s] = IF sinceFlush[s] < Rewrite THEN sinceFlush[s] + 1 ELSE Rewrite
    BY <1>0, <1>8 DEF Tick, MaxWriteAge
  <2>2. ASSUME NEW s \in Setpoint, KeepsFresh(s) PROVE KeepsFresh(s)'
    BY <1>0, <2>1, <2>2 DEF KeepsFresh, Late
  <2> QED
    BY <2>1, <2>2 DEF AgeHeld, InFlight
<1>9. CASE UNCHANGED <<spCache, sinceFlush, pc, due, spent, writeAge, unflushed>>
  BY <1>9 DEF AgeHeld, KeepsFresh, Late, InFlight
<1>10. \/ Publish \/ TakeCommands \/ WriteCommand \/ RequeueCommands \/ CommandsDelivered
       \/ Snapshot \/ WriteSetpoints \/ SetpointsFlushed \/ NextPass \/ Tick
       \/ UNCHANGED <<spCache, sinceFlush, pc, due, spent, writeAge, unflushed>>
  BY DEF Next, Worker, vars, SendCommand, BusChange, Drift
<1> QED
  BY <1>1, <1>2, <1>3, <1>4, <1>5, <1>6, <1>7, <1>8, <1>9, <1>10

(* As long as flushes succeed the write age stays within the bound start-up *)
(* validation assumes, for any keep-alive, poll and length of a pass.       *)
THEOREM WriteAgeHolds == Spec => []WriteAgeBounded
<1>1. Init => AgeHeld
  BY DEF Init, AgeHeld, InFlight
<1>2. TypeOK /\ AgeHeld => WriteAgeBounded
  <2> SUFFICES ASSUME TypeOK, AgeHeld, ~unflushed
               PROVE  writeAge <= Rewrite + 2 * MaxLoop
    BY DEF WriteAgeBounded
  <2>1. PICK s \in Setpoint : KeepsFresh(s)
    BY DEF AgeHeld
  <2>2. sinceFlush[s] \in 0..Rewrite /\ spent \in 0..MaxLoop /\ writeAge \in Nat
    BY WritePathAssumption DEF TypeOK, MaxWriteAge
  <2> QED
    BY <2>1, <2>2, WritePathAssumption DEF KeepsFresh, Late
<1> QED
  BY <1>1, <1>2, TypeInit, TypeStep, AgeStep, PTL DEF Spec

-----------------------------------------------------------------------------
(* The refinement: initial states of WritePath are initial states of        *)
(* Delivery, and each of its steps is one of Delivery or changes nothing    *)
(* Delivery speaks of.                                                      *)

(* What Delivery counts among the first of the line is the batch.           *)
LEMMA BatchCounts ==
  ASSUME TypeOK
  PROVE  Service!Counting(Len(taken)) = Effective(taken)
<1>1. DOMAIN taken = 1..Len(taken) /\ Len(taken) \in Nat
  BY LenProperties DEF TypeOK
<1>2. \A i \in 1..Len(taken) : Line[i] = taken[i]
  BY FrontOfLine
<1> QED
  BY <1>1, <1>2 DEF Service!Counting, Effective

(* A command on its way to its register.                                    *)
LEMMA PerformRefines ==
  ASSUME TypeOK, BatchHolds, Numbered, WriteCommand, ~UNCHANGED <<register, reached>>
  PROVE  Service!Perform
<1>1. PICK i \in Effective(taken) : Perform(i)
  BY CommandWritten
<1>2. i \in 1..Len(Line) /\ Line[i] = taken[i]
  BY FrontOfLine DEF Effective
<1>3. reached[Line[i].tag] <= Line[i].no
  BY <1>1, <1>2 DEF Numbered, Behind
<1>4. UNCHANGED <<spCache, dirty, due, queue, taken, drifted>>
  BY DEF WriteCommand
<1> QED
  BY <1>1, <1>2, <1>3, <1>4 DEF Perform, Service!Perform, Service!setpoints

(* Part of a transfer on its way to the registers.                          *)
LEMMA ArriveRefines ==
  ASSUME TypeOK, WriteSetpoints
  PROVE  Service!Arrive
<1>1. PICK S \in SUBSET InFlight :
        /\ WriteRegisters(S)
        /\ due' \in {due, [s \in Setpoint |-> None]}
  BY DEF WriteSetpoints
<1>2. DOMAIN register = Setpoint \cup Command
  BY DEF TypeOK
<1>3. UNCHANGED <<spCache, dirty, queue, taken, reached>>
  BY DEF WriteSetpoints, WriteRegisters
<1> QED
  BY <1>1, <1>2, <1>3 DEF WriteRegisters, InFlight, Service!Arrive, Service!commands, Service!Moving, Service!Nothing

(* The driver keeps the promise of Delivery: what it shows of its setpoints *)
(* and of its command line is a behaviour of Delivery, however the control  *)
(* thread, the worker and the bus interleave.                               *)
THEOREM PromiseKept == Spec => KeepsPromise
<1>1. Init => Service!Init
  BY ConcatEmptySeq, EmptySeq DEF Init, Service!Init, Service!Nothing
<1>2. ASSUME Inv, [Next]_vars PROVE [Service!Next]_(Service!vars)
  <2> USE <1>2 DEF Inv, Service!vars, Service!setpoints, Service!commands
  <2>0. /\ Len(taken) \in 0..Len(Line) /\ Line \in Seq(Order)
        /\ DOMAIN register = Setpoint \cup Command
    BY FrontOfLine DEF TypeOK
  <2>1. CASE Publish
    BY <2>1, Zenon DEF Publish, Service!Next, Service!Want
  <2>2. ASSUME NEW t \in Command, NEW v \in CmdValue, SendCommand(t, v)
        PROVE  Service!Send
    <3>1. PICK o \in Order : o.no = sent + 1 /\ Line' = Append(Line, o)
      BY <2>2, LineGrows
    <3>2. /\ sent \in Nat /\ DOMAIN reached = Command
          /\ \A r \in Command : reached[r] \in Nat
          /\ \A i \in 1..Len(Line) : Line[i].no \in Nat
      <4>1. \A i \in 1..Len(Line) : Line[i].no \in 1..MaxSent
        BY FrontOfLine, OrderAt
      <4>2. sent \in 0..MaxSent /\ reached \in [Command -> 0..MaxSent] /\ MaxSent \in Nat
        BY WritePathAssumption DEF TypeOK
      <4> QED
        BY <4>1, <4>2
    <3>3. /\ \A i \in 1..Len(Line) : Line[i].no < o.no
          /\ \A r \in DOMAIN reached : reached[r] < o.no
      BY <3>1, <3>2 DEF Numbered
    <3>4. UNCHANGED <<spCache, dirty, due, reached, register, drifted>>
      BY <2>2 DEF SendCommand
    <3> HIDE DEF Line
    <3> QED
      BY <3>1, <3>3, <3>4 DEF Service!Send
  <2>3. CASE TakeCommands \/ RequeueCommands
    <3>1. Line' = Line
      BY <2>3, LineKept
    <3> QED
      BY <3>1, <2>3 DEF TakeCommands, RequeueCommands
  <2>4. CASE WriteCommand
    <3>1. CASE UNCHANGED <<register, reached>>
      BY <2>4, <3>1 DEF WriteCommand
    <3>2. CASE ~UNCHANGED <<register, reached>>
      BY <2>4, <3>2, PerformRefines DEF Service!Next
    <3> QED
      BY <3>1, <3>2
  <2>5. CASE CommandsDelivered
    <3>1. \A i \in Service!Counting(Len(taken)) : register[Line[i].tag] = Line[i].value
      BY <2>5, BatchCounts, FrontOfLine, LenProperties
      DEF CommandsDelivered, BatchHolds, Effective, TypeOK
    <3>2. Line' = SubSeq(Line, Len(taken) + 1, Len(Line))
      BY <2>5, LineShrinks
    <3>3. Service!Settle(Len(taken))
      BY <3>1, <3>2, <2>5 DEF CommandsDelivered, Service!Settle
    <3> QED
      BY <3>3, <2>0 DEF Service!Next
  <2>6. CASE Snapshot
    <3>1. Service!Begin
      BY <2>6 DEF Snapshot, TypeOK, Service!Begin, Service!Nothing
    <3> QED
      BY <3>1 DEF Service!Next
  <2>7. CASE WriteSetpoints
    BY <2>7, ArriveRefines DEF Service!Next
  <2>8. CASE SetpointsFlushed
    <3>1. dirty' = dirty \ {s \in Setpoint : Flushed(s)}
      BY <2>8 DEF SetpointsFlushed, TypeOK
    <3>2. \A s \in Setpoint : Flushed(s) => Service!Arrived(s)
      BY <2>8 DEF SetpointsFlushed, Flushed, InFlight, SnapshotHolds,
                  Service!Arrived, Service!Moving
    <3>3. due' = Service!Nothing /\ UNCHANGED <<spCache, queue, taken, register, reached, drifted>>
      BY <2>8 DEF SetpointsFlushed, Service!Nothing
    <3>4. Service!Confirm
      BY <3>1, <3>2, <3>3 DEF Service!Confirm
    <3> QED
      BY <3>4 DEF Service!Next
  <2>9. CASE UNCHANGED <<spCache, dirty, due, queue, taken, register, reached, drifted>>
    BY <2>9
  <2>10. ASSUME NEW s \in Setpoint, NEW v \in SpValue, Drift(s, v)
         PROVE  Service!Overwrite
    BY <2>10 DEF Drift, Service!Overwrite
  <2>11. NextPass \/ Tick \/ BusChange \/ UNCHANGED vars
           => UNCHANGED <<spCache, dirty, due, queue, taken, register, reached, drifted>>
    BY DEF NextPass, Tick, BusChange, vars
  <2> QED
    BY <2>1, <2>2, <2>3, <2>4, <2>5, <2>6, <2>7, <2>8, <2>9, <2>10, <2>11
    DEF Next, Worker, Service!Next
<1> QED
  BY <1>1, <1>2, Invariance, PTL DEF Spec, KeepsPromise, Service!Spec

=============================================================================
