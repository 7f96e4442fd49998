-------------------------- MODULE ReadPathProofs ----------------------------
(***************************************************************************)
(* Proofs about ReadPath, for any site and any assignment of devices to    *)
(* endpoints: types, coherence of what is published, honesty of its age,   *)
(* that no endpoint is reconnected behind a sibling's read, that an        *)
(* undisturbed device is published again, and that all of it is a register *)
(* with an age.                                                            *)
(***************************************************************************)
EXTENDS ReadPath, TLAPS

USE DEF found, poll, config, cached

Place == 1..Len(Order)

(* A device that was read in this poll without failing is not torn.         *)
ReadWhole == \A i \in Place : i < pc /\ Order[i] \notin failedIds => ~io[Order[i]]

(* What the control thread copied and the cache have aged alike since.      *)
CopyHonest ==
  copied # None => \A d \in Device :
    copied[d].since <= stamp[d] + Len(Order) \/ cache[d].since < copied[d].since

(* An endpoint that is due is one of a device still to be read.             *)
DueAhead ==
  perDevice => \A i \in Place : i < pc => endpointOf[Order[i]] \notin toReconnect \ reconnected

-----------------------------------------------------------------------------
LEMMA PlaceFacts ==
  /\ Len(Order) \in Nat /\ Len(Order) > 0
  /\ \A i \in Place : Order[i] \in Device
  /\ \A d \in Device : \E i \in Place : Order[i] = d
  /\ \A d \in Device : PlaceOf(d) \in Place /\ Order[PlaceOf(d)] = d
<1>1. Len(Order) \in Nat /\ Len(Order) > 0 /\ \A i \in Place : Order[i] \in Device
  BY ReadPathAssumption DEF Place
<1>2. \A d \in Device : \E i \in Place : Order[i] = d
  BY ReadPathAssumption DEF Place
<1> QED
  BY <1>1, <1>2 DEF PlaceOf, Place

LEMMA OlderFacts ==
  ASSUME NEW n \in 0..Settle
  PROVE  Older(n) \in 0..Settle /\ Older(n) >= n /\ Older(n) <= n + 1
         /\ (Older(n) = n + 1 \/ Older(n) = Settle)
BY ReadPathAssumption DEF Older

LEMMA OlderAge ==
  ASSUME NEW old \in 0..Settle, NEW age \in 0..Settle, old <= age + Len(Order)
  PROVE  Older(old) <= Older(age) + Len(Order)
BY ReadPathAssumption, PlaceFacts DEF Older

LEMMA OlderAges ==
  ASSUME NEW new \in 0..Settle, NEW old \in 0..Settle, NEW age \in 0..Settle,
         new <= age + Len(Order), old <= age + Len(Order) \/ new < old
  PROVE  Older(old) <= Older(age) + Len(Order) \/ Older(new) < Older(old)
<1> USE ReadPathAssumption, PlaceFacts
<1>1. CASE old <= age + Len(Order)
  BY <1>1, OlderAge
<1>2. CASE new < old
  BY <1>2 DEF Older
<1> QED
  BY <1>1, <1>2

LEMMA OlderValueFacts ==
  ASSUME NEW v \in Value
  PROVE  OlderValue(v) \in Value /\ OlderValue(v).since = Older(v.since) /\ OlderValue(v).torn = v.torn
BY OlderFacts DEF Value, OlderValue

LEMMA ReadingType ==
  ASSUME TypeOK, NEW d \in Device
  PROVE  /\ ReadingOf(d) \in Value
         /\ ReadingOf(d).since < Len(Order)
         /\ ReadingOf(d).torn = io[d]
<1>1. PlaceOf(d) \in Nat /\ PlaceOf(d) > 0 /\ PlaceOf(d) <= Len(Order)
  BY PlaceFacts DEF Place
<1>2. Len(Order) - PlaceOf(d) \in 0..Settle /\ Len(Order) - PlaceOf(d) < Len(Order)
  BY <1>1, PlaceFacts, ReadPathAssumption
<1>3. io[d] \in BOOLEAN
  BY DEF TypeOK
<1> QED
  BY <1>2, <1>3 DEF ReadingOf, Value

LEMMA ConnectedType == \A e \in Endpoint : Connected(e) \in {"live", "none"}
BY DEF Connected

LEMMA TypeInit == Init => TypeOK
<1> SUFFICES ASSUME Init PROVE TypeOK
  OBVIOUS
<1>1. Settle \in 0..Settle /\ 0 \in 0..Settle /\ 0 \in 0..(Len(Order) + 1)
  BY ReadPathAssumption
<1>2. Unread \in Value
  BY <1>1 DEF Unread, Value
<1>3. socket \in [Endpoint -> {"live", "zombie", "none"}]
  BY ConnectedType DEF Init
<1>4. cache \in [Device -> Value] /\ stamp \in [Device -> 0..Settle] /\ io \in [Device -> BOOLEAN]
  BY <1>1, <1>2 DEF Init
<1> QED
  BY <1>1, <1>3, <1>4, Zenon DEF Init, TypeOK

LEMMA TypeStep == TypeOK /\ [Next]_vars => TypeOK'
<1> SUFFICES ASSUME TypeOK, [Next]_vars PROVE TypeOK'
  OBVIOUS
<1> USE PlaceFacts, ReadPathAssumption DEF TypeOK
<1>1. CASE BeginPoll
  <2>1. socket' \in [Endpoint -> {"live", "zombie", "none"}]
    BY <1>1, ConnectedType DEF BeginPoll
  <2>2. pc' \in 0..(Len(Order) + 1)
    BY <1>1 DEF BeginPoll
  <2>3. toReconnect' \subseteq Endpoint /\ (~perDevice => down = {})
    BY <1>1, Zenon DEF BeginPoll
  <2> QED
    BY <1>1, <2>1, <2>2, <2>3, Zenon DEF BeginPoll
<1>2. CASE ReadDevice
  <2>1. pc \in Place /\ pc' = pc + 1 /\ Order[pc] \in Device /\ endpointOf[Order[pc]] \in Endpoint
    BY <1>2 DEF ReadDevice, Place
  <2>2. pc' \in 0..(Len(Order) + 1)
    BY <2>1 DEF Place
  <2>3. socket' \in [Endpoint -> {"live", "zombie", "none"}]
    BY <1>2, <2>1, ConnectedType DEF ReadDevice
  <2>4. reconnected' \subseteq Endpoint /\ newDown' \subseteq Endpoint /\ healthyIdents' \subseteq Endpoint
        /\ failedIds' \subseteq Device
    BY <1>2, <2>1 DEF ReadDevice
  <2>5. io' \in [Device -> BOOLEAN]
    <3>1. \E torn \in BOOLEAN : io' = [io EXCEPT ![Order[pc]] = torn]
      BY <1>2, <2>1 DEF ReadDevice
    <3> QED
      BY <3>1
  <2>6. cache' \in [Device -> Value]
    BY <1>2, OlderValueFacts DEF ReadDevice
  <2>7. stamp' \in [Device -> 0..Settle]
    BY <1>2, OlderFacts DEF ReadDevice
  <2>8. copied' = None \/ copied' \in [Device -> Value]
    BY <1>2, OlderValueFacts DEF ReadDevice
  <2>9. calm' \in 0..Settle
    BY <1>2, OlderFacts DEF ReadDevice
  <2>10. UNCHANGED <<perDevice, endpointOf, watched, toReconnect, down, busDown, answers>>
    BY <1>2 DEF ReadDevice
  <2> QED
    BY <2>2, <2>3, <2>4, <2>5, <2>6, <2>7, <2>8, <2>9, <2>10
<1>3. CASE EndPoll
  <2>1. down' \subseteq Endpoint /\ (~perDevice => down' = {})
    BY <1>3 DEF EndPoll, EndpointsDown
  <2>2. cache' \in [Device -> Value]
    BY <1>3, ReadingType DEF EndPoll
  <2>3. stamp' \in [Device -> 0..Settle]
    BY <1>3 DEF EndPoll
  <2>4. busDown' \in BOOLEAN /\ pc' \in 0..(Len(Order) + 1)
    BY <1>3 DEF EndPoll
  <2>5. toReconnect' = {} /\ reconnected' = {} /\ newDown' = {} /\ healthyIdents' = {} /\ failedIds' = {}
        /\ UNCHANGED <<perDevice, endpointOf, watched, io, copied, socket, answers, calm>>
    BY <1>3, Zenon DEF EndPoll
  <2> QED
    BY <2>1, <2>2, <2>3, <2>4, <2>5
<1>4. CASE CopyCache \/ ReadAges
  BY <1>4 DEF CopyCache, ReadAges
<1>5. ASSUME NEW e \in Endpoint, Abort(e) PROVE TypeOK'
  <2>1. calm' \in 0..Settle /\ socket' \in [Endpoint -> {"live", "zombie", "none"}]
    BY <1>5 DEF Abort
  <2> QED
    BY <1>5, <2>1 DEF Abort
<1>6. ASSUME NEW d \in Device, DeviceChanges(d) PROVE TypeOK'
  <2>1. calm' \in 0..Settle /\ answers' \in [Device -> {"data", "errors", "silence"}]
    BY <1>6 DEF DeviceChanges
  <2> QED
    BY <1>6, <2>1 DEF DeviceChanges
<1>7. CASE UNCHANGED vars
  BY <1>7 DEF vars
<1> QED
  BY <1>1, <1>2, <1>3, <1>4, <1>5, <1>6, <1>7 DEF Next

(* CompositeDriver's sets hold endpoints, CachedDriver's ages and values    *)
(* are of their types.                                                      *)
THEOREM TypeCorrect == Spec => []TypeOK
<1> QED
  BY TypeInit, TypeStep, PTL DEF Spec

-----------------------------------------------------------------------------
(* Steps of the field and of the control thread leave the worker alone.     *)
Elsewhere == \/ CopyCache \/ ReadAges
             \/ \E e \in Endpoint : Abort(e)
             \/ \E d \in Device : DeviceChanges(d)

LEMMA NextCases == [Next]_vars <=> BeginPoll \/ ReadDevice \/ EndPoll \/ Elsewhere \/ UNCHANGED vars
BY Zenon DEF Next, Elsewhere

LEMMA ElsewhereFrame ==
  Elsewhere \/ UNCHANGED vars => UNCHANGED <<config, poll, down, cached, io>>
BY Zenon DEF Elsewhere, CopyCache, ReadAges, Abort, DeviceChanges, vars

(* What was read in this poll stays whole until the poll is over.           *)
LEMMA ReadWholeStep == TypeOK /\ ReadWhole /\ [Next]_vars => ReadWhole'
<1> SUFFICES ASSUME TypeOK, ReadWhole, [Next]_vars PROVE ReadWhole'
  OBVIOUS
<1> USE PlaceFacts DEF TypeOK, ReadWhole, Place
<1>1. CASE BeginPoll
  BY <1>1 DEF BeginPoll
<1>2. CASE ReadDevice
  <2>1. pc \in Place /\ pc' = pc + 1
    BY <1>2 DEF ReadDevice
  <2>2. \A x \in Device : x # Order[pc] => io'[x] = io[x]
    BY <1>2 DEF ReadDevice
  <2>3. failedIds \subseteq failedIds'
    BY <1>2 DEF ReadDevice
  <2>4. Order[pc] \notin failedIds' => ~io'[Order[pc]]
    BY <1>2, <2>1 DEF ReadDevice
  <2> SUFFICES ASSUME NEW i \in Place, i < pc', Order[i] \notin failedIds' PROVE ~io'[Order[i]]
    OBVIOUS
  <2>5. CASE Order[i] = Order[pc]
    BY <2>4, <2>5
  <2>6. CASE Order[i] # Order[pc]
    <3>1. i < pc
      BY <2>1, <2>6
    <3> QED
      BY <2>2, <2>3, <2>6, <3>1
  <2> QED
    BY <2>5, <2>6
<1>3. CASE EndPoll
  BY <1>3 DEF EndPoll
<1>4. CASE Elsewhere \/ UNCHANGED vars
  BY <1>4, ElsewhereFrame
<1> QED
  BY <1>1, <1>2, <1>3, <1>4, NextCases

LEMMA CoherentStep == TypeOK /\ ReadWhole /\ Coherent /\ [Next]_vars => Coherent'
<1> SUFFICES ASSUME TypeOK, ReadWhole, Coherent, [Next]_vars PROVE Coherent'
  OBVIOUS
<1> USE DEF TypeOK, Coherent
<1>1. CASE BeginPoll
  BY <1>1 DEF BeginPoll
<1>2. CASE ReadDevice
  <2>1. \A d \in Device : cache'[d] = OlderValue(cache[d])
    BY <1>2 DEF ReadDevice
  <2>2. copied' # None => copied # None /\ \A d \in Device : copied'[d] = OlderValue(copied[d])
    BY <1>2 DEF ReadDevice
  <2> QED
    BY <2>1, <2>2, OlderValueFacts
<1>3. CASE EndPoll
  <2>1. \A d \in Published : ~io[d]
    <3> SUFFICES ASSUME NEW d \in Published PROVE ~io[d]
      OBVIOUS
    <3>1. d \in Device /\ d \notin failedIds
      BY DEF Published
    <3>2. PlaceOf(d) \in Place /\ Order[PlaceOf(d)] = d /\ PlaceOf(d) < pc
      BY <1>3, <3>1, PlaceFacts DEF EndPoll, Place
    <3> QED
      BY <3>1, <3>2 DEF ReadWhole
  <2>2. \A d \in Device : cache'[d] = IF d \in Published THEN ReadingOf(d) ELSE cache[d]
    BY <1>3 DEF EndPoll
  <2>3. copied' = copied
    BY <1>3 DEF EndPoll
  <2> QED
    BY <2>1, <2>2, <2>3, ReadingType
<1>4. CASE CopyCache \/ ReadAges
  BY <1>4 DEF CopyCache, ReadAges
<1>5. CASE (\E e \in Endpoint : Abort(e)) \/ (\E d \in Device : DeviceChanges(d)) \/ UNCHANGED vars
  BY <1>5 DEF Abort, DeviceChanges, vars
<1> QED
  BY <1>1, <1>2, <1>3, <1>4, <1>5 DEF Next

(* CachedDriver publishes a device's registers only together, from one poll *)
(* in which all of them were read.                                          *)
THEOREM PublishedWhole == Spec => []Coherent
<1>1. Init => ReadWhole /\ Coherent
  BY DEF Init, ReadWhole, Coherent, Unread, Place
<1> QED
  BY <1>1, TypeInit, TypeStep, ReadWholeStep, CoherentStep, PTL DEF Spec

-----------------------------------------------------------------------------
LEMMA AgeInit == Init => AgeHonest
<1> SUFFICES ASSUME Init, NEW d \in Device PROVE cache[d].since <= stamp[d] + Len(Order)
  BY DEF AgeHonest
<1>1. cache[d].since = Settle /\ stamp[d] = Settle
  BY DEF Init, Unread
<1> QED
  BY <1>1, PlaceFacts, ReadPathAssumption

LEMMA AgeStep == TypeOK /\ AgeHonest /\ [Next]_vars => AgeHonest'
<1> SUFFICES ASSUME TypeOK, AgeHonest, [Next]_vars PROVE AgeHonest'
  OBVIOUS
<1> USE PlaceFacts DEF TypeOK, AgeHonest
<1>1. CASE ReadDevice
  <2> SUFFICES ASSUME NEW d \in Device PROVE cache'[d].since <= stamp'[d] + Len(Order)
    OBVIOUS
  <2>1. cache[d] \in Value /\ stamp[d] \in 0..Settle /\ cache[d].since \in 0..Settle
    BY DEF Value
  <2>2. cache'[d].since = Older(cache[d].since) /\ stamp'[d] = Older(stamp[d])
    BY <1>1, <2>1, OlderValueFacts DEF ReadDevice
  <2>3. cache[d].since <= stamp[d] + Len(Order)
    OBVIOUS
  <2>4. Older(cache[d].since) <= Older(stamp[d]) + Len(Order)
    BY <2>1, <2>3, OlderAge
  <2> QED
    BY <2>2, <2>4
<1>2. CASE EndPoll
  <2> SUFFICES ASSUME NEW d \in Device PROVE cache'[d].since <= stamp'[d] + Len(Order)
    OBVIOUS
  <2>1. CASE d \in Published
    <3>1. stamp'[d] = 0 /\ cache'[d] = ReadingOf(d)
      BY <1>2, <2>1 DEF EndPoll, Stamped
    <3>2. ReadingOf(d).since < Len(Order) /\ ReadingOf(d).since \in Nat
      BY ReadingType DEF Value
    <3> QED
      BY <3>1, <3>2
  <2>2. CASE d \notin Published
    BY <1>2, <2>2 DEF EndPoll, Stamped
  <2> QED
    BY <2>1, <2>2
<1>3. CASE BeginPoll \/ Elsewhere \/ UNCHANGED vars
  <2>1. cache' = cache /\ stamp' = stamp
    BY <1>3, ElsewhereFrame DEF BeginPoll
  <2> QED
    BY <2>1
<1> QED
  BY <1>1, <1>2, <1>3, NextCases

(* sys.<id>.comms_age_s lags behind the age of the values by one poll at    *)
(* most, in both modes of the driver.                                       *)
THEOREM AgesHonest == Spec => []AgeHonest
<1>1. Init => AgeHonest
  BY AgeInit
<1> QED
  BY <1>1, TypeInit, TypeStep, AgeStep, PTL DEF Spec

LEMMA CopyStep == TypeOK /\ AgeHonest /\ CopyHonest /\ [Next]_vars => CopyHonest'
<1> SUFFICES ASSUME TypeOK, AgeHonest, CopyHonest, [Next]_vars PROVE CopyHonest'
  OBVIOUS
<1> USE PlaceFacts DEF TypeOK, AgeHonest, CopyHonest
<1>1. CASE ReadDevice
  <2> SUFFICES ASSUME copied' # None, NEW d \in Device
               PROVE  copied'[d].since <= stamp'[d] + Len(Order) \/ cache'[d].since < copied'[d].since
    OBVIOUS
  <2>1. copied # None /\ copied'[d] = OlderValue(copied[d]) /\ cache'[d] = OlderValue(cache[d])
        /\ stamp'[d] = Older(stamp[d])
    BY <1>1 DEF ReadDevice
  <2>2. cache[d].since \in 0..Settle /\ copied[d].since \in 0..Settle /\ stamp[d] \in 0..Settle
    BY <2>1 DEF Value
  <2>3. cache'[d].since = Older(cache[d].since) /\ copied'[d].since = Older(copied[d].since)
    BY <2>1, OlderValueFacts
  <2>4. cache[d].since <= stamp[d] + Len(Order)
    OBVIOUS
  <2>5. copied[d].since <= stamp[d] + Len(Order) \/ cache[d].since < copied[d].since
    BY <2>1
  <2>6. Older(copied[d].since) <= Older(stamp[d]) + Len(Order) \/ Older(cache[d].since) < Older(copied[d].since)
    BY <2>2, <2>4, <2>5, OlderAges
  <2> QED
    BY <2>1, <2>3, <2>6
<1>2. CASE EndPoll
  <2> SUFFICES ASSUME copied' # None, NEW d \in Device
               PROVE  copied'[d].since <= stamp'[d] + Len(Order) \/ cache'[d].since < copied'[d].since
    OBVIOUS
  <2>1. copied' = copied /\ copied[d].since \in 0..Settle
    BY <1>2 DEF EndPoll, Value
  <2>2. CASE d \in Published
    <3>1. stamp'[d] = 0 /\ cache'[d] = ReadingOf(d)
      BY <1>2, <2>2 DEF EndPoll, Stamped
    <3>2. cache'[d].since < Len(Order) /\ cache'[d].since \in Nat
      BY <3>1, ReadingType DEF Value
    <3> QED
      BY <2>1, <3>1, <3>2
  <2>3. CASE d \notin Published
    BY <1>2, <2>1, <2>3 DEF EndPoll, Stamped
  <2> QED
    BY <2>2, <2>3
<1>3. CASE CopyCache
  BY <1>3 DEF CopyCache
<1>4. CASE ReadAges
  BY <1>4 DEF ReadAges
<1>5. CASE BeginPoll \/ (\E e \in Endpoint : Abort(e)) \/ (\E d \in Device : DeviceChanges(d)) \/ UNCHANGED vars
  <2>1. UNCHANGED <<copied, cache, stamp>>
    BY <1>5, Zenon DEF BeginPoll, Abort, DeviceChanges, vars
  <2> QED
    BY <2>1
<1> QED
  BY <1>1, <1>2, <1>3, <1>4, <1>5 DEF Next

(* What read_state hands to a cycle with an age that is too young is no     *)
(* longer in the cache: the next cycle does not get it again.               *)
THEOREM StaleOnce == Spec => StaleForOneCycle
<1>1. Init => CopyHonest /\ AgeHonest
  BY AgeInit DEF Init, CopyHonest
<1>2. TypeOK /\ CopyHonest /\ [Next]_vars
        => [ReadAges => \A d \in Device :
              copied[d].since > stamp[d] + Len(Order) => cache[d].since < copied[d].since]_vars
  <2> SUFFICES ASSUME TypeOK, CopyHonest, ReadAges, NEW d \in Device,
                      copied[d].since > stamp[d] + Len(Order)
               PROVE  cache[d].since < copied[d].since
    OBVIOUS
  <2>1. copied # None /\ copied[d].since \in Nat /\ stamp[d] \in Nat
    BY DEF ReadAges, TypeOK, Value
  <2> QED
    BY <2>1, PlaceFacts DEF CopyHonest
<1> QED
  BY <1>1, <1>2, TypeInit, TypeStep, AgeStep, CopyStep, PTL DEF Spec, StaleForOneCycle

-----------------------------------------------------------------------------
LEMMA DueStep == TypeOK /\ DueAhead /\ [Next]_vars => DueAhead'
<1> SUFFICES ASSUME TypeOK, DueAhead, [Next]_vars PROVE DueAhead'
  OBVIOUS
<1> USE PlaceFacts DEF TypeOK, DueAhead, Place
<1>1. CASE BeginPoll
  BY <1>1 DEF BeginPoll
<1>2. CASE ReadDevice
  <2>1. pc \in Place /\ pc' = pc + 1 /\ UNCHANGED <<perDevice, toReconnect, endpointOf>>
    BY <1>2 DEF ReadDevice
  <2>2. reconnected \subseteq reconnected'
    BY <1>2 DEF ReadDevice
  <2>3. perDevice => endpointOf[Order[pc]] \notin toReconnect \ reconnected'
    BY <1>2 DEF ReadDevice, Due
  <2> SUFFICES ASSUME perDevice, NEW i \in Place, i < pc'
               PROVE  endpointOf[Order[i]] \notin toReconnect \ reconnected'
    BY <2>1
  <2>4. CASE i = pc
    BY <2>3, <2>4
  <2>5. CASE i < pc
    BY <2>2, <2>5
  <2> QED
    BY <2>1, <2>4, <2>5
<1>3. CASE EndPoll
  BY <1>3 DEF EndPoll
<1>4. CASE Elsewhere \/ UNCHANGED vars
  BY <1>4, ElsewhereFrame
<1> QED
  BY <1>1, <1>2, <1>3, <1>4, NextCases

(* CompositeDriver reconnects an endpoint only before the first read over   *)
(* it in a poll, however many devices share it.                             *)
THEOREM NeverBounced == Spec => NoMidPollBounce
<1>1. Init => DueAhead
  BY DEF Init, DueAhead, Place
<1>2. TypeOK /\ DueAhead /\ [Next]_vars
        => [\A e \in reconnected' \ reconnected :
              \A i \in 1..(pc - 1) : endpointOf[Order[i]] # e]_vars
  <2> SUFFICES ASSUME TypeOK, DueAhead, [Next]_vars,
                      NEW e \in reconnected' \ reconnected, NEW i \in 1..(pc - 1)
               PROVE  endpointOf[Order[i]] # e
    OBVIOUS
  <2>1. CASE ReadDevice
    <3>1. pc \in Place /\ e = endpointOf[Order[pc]] /\ Due(e)
      BY <2>1 DEF ReadDevice, Place
    <3>2. i \in Place /\ i < pc
      BY <3>1, PlaceFacts DEF Place
    <3> QED
      BY <3>1, <3>2 DEF DueAhead, Due
  <2>2. CASE BeginPoll \/ EndPoll \/ Elsewhere \/ UNCHANGED vars
    <3>1. reconnected' = reconnected \/ reconnected' = {}
      BY <2>2, ElsewhereFrame DEF BeginPoll, EndPoll
    <3> QED
      BY <3>1
  <2> QED
    BY <2>1, <2>2, NextCases
<1> QED
  BY <1>1, <1>2, TypeInit, TypeStep, DueStep, PTL DEF Spec, NoMidPollBounce

-----------------------------------------------------------------------------
(* A device's age heals.  The argument counts reads: a disturbance spoils   *)
(* the poll it falls into, or at worst the next one as well, in which its   *)
(* endpoint is marked as down; the one after reconnects it.                 *)

(* The reads of this poll so far.                                           *)
Reads == IF pc = 0 THEN 0 ELSE pc - 1

Link == endpointOf[watched]

(* The watched device was published by the last poll.                       *)
Fresh == stamp[watched] <= Reads

SoundCalm == calm > 0 => Sound

FoundLater == pc <= 1 => healthyIdents = {} /\ newDown = {} /\ failedIds = {} /\ reconnected = {}

(* The next read of the watched device, if nothing disturbs it, succeeds.   *)
OnTrack ==
  \/ socket[Link] = "live"
  \/ pc = 0 /\ (Link \in down \/ busDown)
  \/ pc > 0 /\ Link \in toReconnect \ reconnected

Healing ==
  perDevice =>
    /\ OnTrack => /\ Fresh \/ calm < 2 * Len(Order) + Reads
                  /\ watched \in failedIds => calm < Reads
    /\ ~OnTrack => /\ calm < Len(Order) + Reads
                   /\ Link \in healthyIdents \/ (PlaceOf(watched) < pc /\ Link \notin newDown)
                        => calm < Reads

(* The same where one age serves the whole site: all reads succeed.         *)
AllOnTrack ==
  \/ pc = 0 /\ busDown
  \/ \A d \in Device : socket[endpointOf[d]] = "live"

AllHealing ==
  ~perDevice =>
    /\ AllOnTrack => /\ Fresh \/ calm < 2 * Len(Order) + Reads
                     /\ failedIds # {} => calm < Reads
    /\ ~AllOnTrack => /\ calm < Len(Order) + Reads
                      /\ \A d \in Device :
                           socket[endpointOf[d]] # "live" /\ PlaceOf(d) < pc /\ d \notin failedIds
                             => calm < Reads

LEMMA SoundStep == TypeOK /\ SoundCalm /\ [Next]_vars => SoundCalm'
<1> SUFFICES ASSUME TypeOK, SoundCalm, [Next]_vars, calm' > 0 PROVE Sound'
  BY DEF SoundCalm
<1> USE DEF TypeOK, SoundCalm, Sound
<1>1. CASE ReadDevice
  BY <1>1 DEF ReadDevice
<1>2. CASE BeginPoll \/ EndPoll \/ CopyCache \/ ReadAges \/ UNCHANGED vars
  BY <1>2 DEF BeginPoll, EndPoll, CopyCache, ReadAges, vars
<1>3. ASSUME NEW e \in Endpoint, Abort(e) PROVE Sound'
  BY <1>3 DEF Abort
<1>4. ASSUME NEW d \in Device, DeviceChanges(d) PROVE Sound'
  <2>1. perDevice /\ d # watched /\ calm > 0
    BY <1>4 DEF DeviceChanges
  <2> QED
    BY <1>4, <2>1 DEF DeviceChanges
<1> QED
  BY <1>1, <1>2, <1>3, <1>4 DEF Next

LEMMA FoundStep == TypeOK /\ FoundLater /\ [Next]_vars => FoundLater'
<1> SUFFICES ASSUME TypeOK, FoundLater, [Next]_vars PROVE FoundLater'
  OBVIOUS
<1> USE PlaceFacts DEF TypeOK, FoundLater
<1>1. CASE BeginPoll
  BY <1>1 DEF BeginPoll
<1>2. CASE ReadDevice
  BY <1>2 DEF ReadDevice
<1>3. CASE EndPoll
  BY <1>3 DEF EndPoll
<1>4. CASE Elsewhere \/ UNCHANGED vars
  BY <1>4, ElsewhereFrame
<1> QED
  BY <1>1, <1>2, <1>3, <1>4, NextCases

(* A sound device can be reached.                                           *)
LEMMA SoundReached ==
  ASSUME TypeOK, Sound
  PROVE  /\ perDevice => Connected(Link) = "live" /\ answers[watched] = "data"
         /\ ~perDevice => \A d \in Device : Connected(endpointOf[d]) = "live" /\ answers[d] = "data"
BY DEF TypeOK, Sound, Connected, Link

(* What a read does to the counts.                                          *)
LEMMA ReadCounts ==
  ASSUME TypeOK, ReadDevice
  PROVE  /\ pc \in Place /\ pc \in Nat /\ pc > 0 /\ pc' = pc + 1
         /\ Reads = pc - 1 /\ Reads' = pc
         /\ calm \in Nat /\ calm' \in Nat /\ calm' <= calm + 1
         /\ ~Sound => calm' = 0
         /\ Fresh => Fresh'
         /\ Order[pc] \in Device /\ Link \in Endpoint
         /\ UNCHANGED <<config, toReconnect, down, busDown, answers>>
<1>1. pc \in Place /\ pc' = pc + 1 /\ UNCHANGED <<config, toReconnect, down, busDown, answers>>
  BY DEF ReadDevice, Place
<1>2. pc \in Nat /\ pc > 0 /\ Reads = pc - 1 /\ Reads' = pc /\ Order[pc] \in Device
  BY <1>1, PlaceFacts DEF Place, Reads
<1>3. calm \in 0..Settle /\ calm' = IF Sound THEN Older(calm) ELSE 0
  BY DEF TypeOK, ReadDevice
<1>4. calm \in Nat /\ calm' \in Nat /\ calm' <= calm + 1 /\ (~Sound => calm' = 0)
  BY <1>3, ReadPathAssumption DEF Older
<1>5. stamp'[watched] = Older(stamp[watched]) /\ stamp[watched] \in 0..Settle /\ Link \in Endpoint
  BY DEF TypeOK, ReadDevice, Link
<1>6. stamp'[watched] <= stamp[watched] + 1 /\ stamp[watched] \in Nat /\ stamp'[watched] \in Nat
  BY <1>5, ReadPathAssumption DEF Older
<1> QED
  BY <1>1, <1>2, <1>4, <1>5, <1>6 DEF Fresh

LEMMA HealingRead ==
  ASSUME TypeOK, Healing, FoundLater, ReadDevice, perDevice PROVE Healing'
<1> DEFINE d == Order[pc]
           e == endpointOf[d]
           s == IF Due(e) THEN Connected(e) ELSE socket[e]
           outcome == Outcome(d, s)
<1>1. /\ pc \in Place /\ pc \in Nat /\ pc > 0 /\ pc' = pc + 1
      /\ Reads = pc - 1 /\ Reads' = pc
      /\ calm \in Nat /\ calm' \in Nat /\ calm' <= calm + 1
      /\ ~Sound => calm' = 0
      /\ Fresh => Fresh'
      /\ d \in Device /\ Link \in Endpoint /\ e \in Endpoint
      /\ UNCHANGED <<config, toReconnect, down, busDown, answers>>
  BY ReadCounts DEF TypeOK
<1>2. /\ socket' = [socket EXCEPT ![e] = s]
      /\ reconnected' = IF Due(e) THEN reconnected \cup {e} ELSE reconnected
      /\ newDown' = IF outcome = "transport" THEN newDown \cup {e} ELSE newDown
      /\ healthyIdents' = IF outcome = "good" THEN healthyIdents \cup {e} ELSE healthyIdents
      /\ failedIds' = IF outcome = "good" THEN failedIds ELSE failedIds \cup {d}
  BY DEF ReadDevice
<1>3. /\ socket'[Link] = IF e = Link THEN s ELSE socket[Link]
      /\ Link' = Link /\ Len(Order) \in Nat /\ Len(Order) > 0
  BY <1>1, <1>2, PlaceFacts DEF TypeOK, Link
<1>4. Due(e) <=> e \in toReconnect \ reconnected
  BY DEF Due
<1>5. outcome = IF s # "live" \/ answers[d] = "silence" THEN "transport"
                ELSE IF answers[d] = "errors" THEN "rejected" ELSE "good"
  BY DEF Outcome
<1>6. s = IF Due(e) THEN Connected(e) ELSE socket[e]
  OBVIOUS
<1>7. PlaceOf(watched) \in Nat /\ (PlaceOf(watched) < pc' => PlaceOf(watched) < pc \/ d = watched)
  <2>1. PlaceOf(watched) \in Place /\ Order[PlaceOf(watched)] = watched /\ Len(Order) \in Nat
    BY PlaceFacts DEF TypeOK
  <2> QED
    BY <1>1, <2>1 DEF Place
<1> HIDE DEF s, outcome
<1>8. CASE ~Sound
  BY <1>1, <1>3, <1>8 DEF Healing
<1>9. CASE Sound /\ OnTrack
  <2>1. Connected(Link) = "live" /\ answers[watched] = "data"
    BY <1>9, SoundReached
  <2>2. OnTrack' /\ (e = Link => s = "live")
    BY <1>1, <1>2, <1>3, <1>4, <1>6, <1>9, <2>1 DEF OnTrack
  <2>3. Fresh' \/ calm' < 2 * Len(Order) + Reads'
    BY <1>1, <1>3, <1>9 DEF Healing
  <2>4. watched \in failedIds' => watched \in failedIds
    BY <1>2, <1>5, <2>1, <2>2 DEF Link
  <2> QED
    BY <1>1, <1>9, <2>2, <2>3, <2>4 DEF Healing
<1>10. CASE Sound /\ ~OnTrack
  <2>1. socket[Link] # "live" /\ Link \notin toReconnect \ reconnected
    BY <1>1, <1>10 DEF OnTrack
  <2>2. socket'[Link] # "live" /\ (e = Link => s # "live")
    BY <1>3, <1>4, <1>6, <2>1
  <2>3. ~OnTrack'
    BY <1>1, <1>2, <1>3, <2>1, <2>2 DEF OnTrack
  <2>4. Link \in healthyIdents' => Link \in healthyIdents
    BY <1>2, <1>5, <2>2
  <2>5. PlaceOf(watched) < pc' /\ Link \notin newDown' => PlaceOf(watched) < pc /\ Link \notin newDown
    BY <1>2, <1>5, <1>7, <2>2 DEF Link
  <2>6. calm < Len(Order) + Reads
    BY <1>10 DEF Healing
  <2> QED
    BY <1>1, <1>3, <1>10, <2>3, <2>4, <2>5, <2>6 DEF Healing
<1> QED
  BY <1>8, <1>9, <1>10

LEMMA HealingStep ==
  TypeOK /\ SoundCalm /\ FoundLater /\ DueAhead /\ Healing /\ [Next]_vars => Healing'
<1> SUFFICES ASSUME TypeOK, SoundCalm, FoundLater, DueAhead, Healing, [Next]_vars, perDevice'
             PROVE  Healing'
  BY DEF Healing
<1>0. /\ perDevice /\ UNCHANGED config
      /\ Len(Order) \in Nat /\ Len(Order) > 0 /\ calm \in Nat /\ pc \in Nat /\ Link \in Endpoint
      /\ PlaceOf(watched) \in Place /\ PlaceOf(watched) \in Nat /\ PlaceOf(watched) > 0
      /\ PlaceOf(watched) <= Len(Order) /\ Order[PlaceOf(watched)] = watched /\ watched \in Device
  <2>1. UNCHANGED config
    BY DEF Next, BeginPoll, ReadDevice, EndPoll, CopyCache, ReadAges, Abort, DeviceChanges, vars
  <2>2. watched \in Device /\ Link \in Endpoint /\ pc \in Nat /\ calm \in Nat
    BY PlaceFacts, ReadPathAssumption DEF TypeOK, Link
  <2>3. /\ Len(Order) \in Nat /\ Len(Order) > 0
        /\ PlaceOf(watched) \in Place /\ Order[PlaceOf(watched)] = watched
    BY <2>2, PlaceFacts
  <2>4. PlaceOf(watched) \in Nat /\ PlaceOf(watched) > 0 /\ PlaceOf(watched) <= Len(Order)
    BY <2>3 DEF Place
  <2> QED
    BY <2>1, <2>2, <2>3, <2>4
<1>1. CASE BeginPoll
  <2>1. /\ pc = 0 /\ pc' = 1 /\ Reads = 0 /\ Reads' = 0 /\ toReconnect' = down
        /\ socket' = IF busDown THEN [e \in Endpoint |-> Connected(e)] ELSE socket
        /\ UNCHANGED <<found, down, busDown, stamp, calm>>
    BY <1>1 DEF BeginPoll, Reads
  <2>2. healthyIdents' = {} /\ failedIds' = {} /\ reconnected' = {} /\ Link' = Link
    BY <1>0, <2>1 DEF FoundLater, Link
  <2>3. socket'[Link] = IF busDown THEN Connected(Link) ELSE socket[Link]
    BY <1>0, <2>1
  <2>4. Fresh' = Fresh
    BY <1>0, <2>1 DEF Fresh
  <2>5. CASE OnTrack'
    BY <1>0, <2>1, <2>2, <2>4, <2>5 DEF Healing
  <2>6. CASE ~OnTrack'
    <3>1. Link \notin down /\ socket'[Link] # "live"
      BY <2>1, <2>2, <2>6 DEF OnTrack
    <3>2. calm < Len(Order)
      <4>1. CASE busDown
        BY <1>0, <2>3, <3>1, <4>1, SoundReached DEF SoundCalm
      <4>2. CASE ~busDown
        BY <1>0, <2>1, <2>3, <3>1, <4>2 DEF OnTrack, Healing
      <4> QED
        BY <4>1, <4>2
    <3> QED
      BY <1>0, <2>1, <2>2, <2>6, <3>2 DEF Healing
  <2> QED
    BY <2>5, <2>6
<1>2. CASE ReadDevice
  BY <1>0, <1>2, HealingRead
<1>3. CASE EndPoll
  <2>1. /\ pc = Len(Order) + 1 /\ pc' = 0 /\ Reads = Len(Order) /\ Reads' = 0
        /\ down' = (down \cup newDown) \ healthyIdents
        /\ healthyIdents' = {} /\ failedIds' = {}
        /\ UNCHANGED <<socket, calm>> /\ Link' = Link
    BY <1>0, <1>3 DEF EndPoll, EndpointsDown, Reads, Link
  <2>2. watched \notin failedIds => Fresh'
    <3>1. stamp' = [d \in Device |-> IF d \in Device \ failedIds THEN 0 ELSE stamp[d]]
      BY <1>0, <1>3 DEF EndPoll, Stamped, Published
    <3> QED
      BY <1>0, <2>1, <3>1 DEF Fresh
  <2>3. CASE OnTrack
    <3>1. Link \notin toReconnect \ reconnected
      BY <1>0, <2>1 DEF DueAhead, Link
    <3>2. OnTrack'
      BY <1>0, <2>1, <2>3, <3>1 DEF OnTrack
    <3>3. Fresh' \/ calm < 2 * Len(Order)
      BY <1>0, <2>1, <2>2, <2>3 DEF Healing
    <3> QED
      BY <1>0, <2>1, <3>2, <3>3 DEF Healing
  <2>4. CASE ~OnTrack
    <3>1. calm < 2 * Len(Order)
      BY <1>0, <2>1, <2>4 DEF Healing
    <3>2. ~OnTrack' => calm < Len(Order)
      BY <1>0, <2>1, <2>4 DEF Healing, OnTrack
    <3> QED
      BY <1>0, <2>1, <3>1, <3>2 DEF Healing
  <2> QED
    BY <2>3, <2>4
<1>4. CASE Elsewhere \/ UNCHANGED vars
  <2>1. UNCHANGED <<config, poll, down, cached>> /\ Link' = Link /\ Reads' = Reads /\ Fresh' = Fresh
    BY <1>4, ElsewhereFrame, Zenon DEF Link, Reads, Fresh
  <2>2. calm' = 0 \/ (calm' = calm /\ socket'[Link] = socket[Link])
    <3>1. ASSUME NEW e \in Endpoint, Abort(e) PROVE calm' = 0 \/ (calm' = calm /\ socket'[Link] = socket[Link])
      BY <1>0, <3>1 DEF Abort, Disturbs, Link, TypeOK
    <3>2. ASSUME NEW d \in Device, DeviceChanges(d) PROVE calm' = 0 \/ (calm' = calm /\ socket'[Link] = socket[Link])
      BY <3>2 DEF DeviceChanges
    <3> QED
      BY <1>4, <3>1, <3>2 DEF Elsewhere, CopyCache, ReadAges, vars
  <2>3. CASE calm' = 0
    <3>1. failedIds # {} \/ healthyIdents # {} \/ PlaceOf(watched) < pc => 0 < Reads
      BY <1>0 DEF FoundLater, Reads
    <3>2. Reads \in Nat
      BY <1>0 DEF Reads
    <3> QED
      BY <1>0, <2>1, <2>3, <3>1, <3>2 DEF Healing
  <2>4. CASE calm' = calm /\ socket'[Link] = socket[Link]
    <3>1. OnTrack' = OnTrack
      BY <2>1, <2>4 DEF OnTrack
    <3> QED
      BY <2>1, <2>4, <3>1 DEF Healing
  <2> QED
    BY <2>2, <2>3, <2>4
<1> QED
  BY <1>1, <1>2, <1>3, <1>4, NextCases
LEMMA AllHealingRead ==
  ASSUME TypeOK, AllHealing, FoundLater, ReadDevice, ~perDevice PROVE AllHealing'
<1> DEFINE d == Order[pc]
           e == endpointOf[d]
           s == socket[e]
           outcome == Outcome(d, s)
<1>1. /\ pc \in Place /\ pc \in Nat /\ pc > 0 /\ pc' = pc + 1
      /\ Reads = pc - 1 /\ Reads' = pc
      /\ calm \in Nat /\ calm' \in Nat /\ calm' <= calm + 1
      /\ ~Sound => calm' = 0
      /\ Fresh => Fresh'
      /\ d \in Device /\ e \in Endpoint
      /\ UNCHANGED <<config, toReconnect, down, busDown, answers>>
  BY ReadCounts DEF TypeOK
<1>2. /\ socket' = socket
      /\ failedIds' = IF outcome = "good" THEN failedIds ELSE failedIds \cup {d}
  BY <1>1 DEF ReadDevice, Due, TypeOK
<1>3. Len(Order) \in Nat /\ Len(Order) > 0
  BY PlaceFacts
<1>4. outcome = IF s # "live" \/ answers[d] = "silence" THEN "transport"
                ELSE IF answers[d] = "errors" THEN "rejected" ELSE "good"
  BY DEF Outcome
<1>5. ASSUME NEW x \in Device
      PROVE  PlaceOf(x) \in Nat /\ (PlaceOf(x) < pc' => PlaceOf(x) < pc \/ d = x)
  <2>1. PlaceOf(x) \in Place /\ Order[PlaceOf(x)] = x /\ Len(Order) \in Nat
    BY PlaceFacts
  <2> QED
    BY <1>1, <2>1 DEF Place
<1>6. AllOnTrack' = AllOnTrack /\ (AllOnTrack <=> \A x \in Device : socket[endpointOf[x]] = "live")
  BY <1>1, <1>2 DEF AllOnTrack
<1> HIDE DEF outcome
<1>7. CASE ~Sound
  BY <1>1, <1>3, <1>7 DEF AllHealing
<1>8. CASE Sound /\ AllOnTrack
  <2>1. failedIds' = failedIds
    BY <1>1, <1>2, <1>4, <1>6, <1>8, SoundReached
  <2> QED
    BY <1>1, <1>3, <1>6, <1>8, <2>1 DEF AllHealing
<1>9. CASE Sound /\ ~AllOnTrack
  <2>1. ASSUME NEW x \in Device, socket[endpointOf[x]] # "live", PlaceOf(x) < pc', x \notin failedIds'
        PROVE  calm' < Reads'
    <3>1. PlaceOf(x) < pc /\ x \notin failedIds
      BY <1>2, <1>4, <1>5, <2>1
    <3> QED
      BY <1>1, <1>9, <2>1, <3>1 DEF AllHealing
  <2>2. calm' < Len(Order) + Reads'
    BY <1>1, <1>3, <1>9 DEF AllHealing
  <2> QED
    BY <1>1, <1>2, <1>6, <1>9, <2>1, <2>2 DEF AllHealing
<1> QED
  BY <1>7, <1>8, <1>9

LEMMA AllHealingStep ==
  TypeOK /\ SoundCalm /\ FoundLater /\ AllHealing /\ [Next]_vars => AllHealing'
<1> SUFFICES ASSUME TypeOK, SoundCalm, FoundLater, AllHealing, [Next]_vars, ~perDevice'
             PROVE  AllHealing'
  BY DEF AllHealing
<1>0. /\ ~perDevice /\ UNCHANGED config
      /\ Len(Order) \in Nat /\ Len(Order) > 0 /\ calm \in Nat /\ pc \in Nat /\ watched \in Device
      /\ \A d \in Device : /\ endpointOf[d] \in Endpoint /\ PlaceOf(d) \in Nat
                           /\ PlaceOf(d) > 0 /\ PlaceOf(d) <= Len(Order)
  <2>1. UNCHANGED config
    BY DEF Next, BeginPoll, ReadDevice, EndPoll, CopyCache, ReadAges, Abort, DeviceChanges, vars
  <2>2. watched \in Device /\ pc \in Nat /\ calm \in Nat /\ \A d \in Device : endpointOf[d] \in Endpoint
    BY PlaceFacts, ReadPathAssumption DEF TypeOK
  <2>3. /\ Len(Order) \in Nat /\ Len(Order) > 0
        /\ \A d \in Device : PlaceOf(d) \in Nat /\ PlaceOf(d) > 0 /\ PlaceOf(d) <= Len(Order)
    BY PlaceFacts DEF Place
  <2> QED
    BY <2>1, <2>2, <2>3
<1>1. CASE BeginPoll
  <2>1. /\ pc = 0 /\ pc' = 1 /\ Reads = 0 /\ Reads' = 0
        /\ socket' = IF busDown THEN [e \in Endpoint |-> Connected(e)] ELSE socket
        /\ UNCHANGED <<found, busDown, stamp, calm>>
    BY <1>1 DEF BeginPoll, Reads
  <2>2. failedIds' = {} /\ Fresh' = Fresh
    BY <1>0, <2>1 DEF FoundLater, Fresh
  <2>3. \A d \in Device : socket'[endpointOf[d]] = IF busDown THEN Connected(endpointOf[d])
                                                   ELSE socket[endpointOf[d]]
    BY <1>0, <2>1
  <2>4. CASE AllOnTrack'
    BY <1>0, <2>1, <2>2, <2>4 DEF AllHealing
  <2>5. CASE ~AllOnTrack'
    <3>1. calm < Len(Order)
      <4>1. CASE busDown
        <5>1. ~Sound
          BY <1>0, <2>1, <2>3, <2>5, <4>1, SoundReached DEF AllOnTrack
        <5> QED
          BY <1>0, <5>1 DEF SoundCalm
      <4>2. CASE ~busDown
        BY <1>0, <2>1, <2>5, <4>2 DEF AllOnTrack, AllHealing
      <4> QED
        BY <4>1, <4>2
    <3> QED
      BY <1>0, <2>1, <2>2, <2>5, <3>1 DEF AllHealing
  <2> QED
    BY <2>4, <2>5
<1>2. CASE ReadDevice
  BY <1>0, <1>2, AllHealingRead
<1>3. CASE EndPoll
  <2>1. /\ pc = Len(Order) + 1 /\ pc' = 0 /\ Reads = Len(Order) /\ Reads' = 0
        /\ failedIds' = {} /\ UNCHANGED <<socket, calm>>
        /\ busDown' = (Published = {})
    BY <1>0, <1>3 DEF EndPoll, Reads
  <2>2. CASE failedIds = {}
    <3>1. stamp' = [d \in Device |-> IF d \in Device THEN 0 ELSE stamp[d]]
      BY <1>0, <1>3, <2>2 DEF EndPoll, Stamped, Published
    <3>2. Fresh'
      BY <1>0, <2>1, <3>1 DEF Fresh
    <3>3. ~AllOnTrack' => calm < Len(Order)
      BY <1>0, <2>1, <2>2 DEF AllHealing, AllOnTrack
    <3> QED
      BY <1>0, <2>1, <3>2, <3>3 DEF AllHealing
  <2>3. CASE failedIds # {}
    <3>1. AllOnTrack'
      BY <1>0, <2>1, <2>3 DEF AllOnTrack, Published
    <3>2. calm < 2 * Len(Order)
      BY <1>0, <2>1, <2>3 DEF AllHealing
    <3> QED
      BY <1>0, <2>1, <3>1, <3>2 DEF AllHealing
  <2> QED
    BY <2>2, <2>3
<1>4. CASE Elsewhere \/ UNCHANGED vars
  <2>1. UNCHANGED <<config, poll, down, cached>> /\ Reads' = Reads /\ Fresh' = Fresh
    BY <1>4, ElsewhereFrame, Zenon DEF Reads, Fresh
  <2>2. calm' = 0 \/ (calm' = calm /\ UNCHANGED socket)
    BY <1>0, <1>4 DEF Elsewhere, CopyCache, ReadAges, Abort, Disturbs, DeviceChanges, vars
  <2>3. CASE calm' = 0
    <3>1. failedIds # {} \/ (\E d \in Device : PlaceOf(d) < pc) => 0 < Reads
      BY <1>0 DEF FoundLater, Reads
    <3>2. Reads \in Nat
      BY <1>0 DEF Reads
    <3> QED
      BY <1>0, <2>1, <2>3, <3>1, <3>2 DEF AllHealing
  <2>4. CASE calm' = calm /\ UNCHANGED socket
    <3>1. AllOnTrack' = AllOnTrack
      BY <2>1, <2>4 DEF AllOnTrack
    <3> QED
      BY <2>1, <2>4, <3>1 DEF AllHealing
  <2> QED
    BY <2>2, <2>3, <2>4
<1> QED
  BY <1>1, <1>2, <1>3, <1>4, NextCases

(* After three polls' worth of undisturbed reads a device has a fresh age,  *)
(* for any number of devices and any sharing of endpoints: no sibling,      *)
(* zombie socket or reconnect of everything holds it up (composite.py:116). *)
THEOREM DevicesHeal == ASSUME 3 * Len(Order) <= Settle PROVE Spec => []Isolated
<1>1. Init => TypeOK /\ SoundCalm /\ FoundLater /\ DueAhead /\ Healing /\ AllHealing
  <2>1. Init => SoundCalm /\ FoundLater /\ DueAhead
    BY DEF Init, SoundCalm, FoundLater, DueAhead, Place
  <2>2. Init => Healing /\ AllHealing
    <3> SUFFICES ASSUME Init PROVE Healing /\ AllHealing
      OBVIOUS
    <3>1. pc = 0 /\ calm = 0 /\ failedIds = {} /\ healthyIdents = {} /\ Reads = 0 /\ TypeOK
      BY TypeInit DEF Init, Reads
    <3>2. ASSUME NEW d \in Device PROVE ~(PlaceOf(d) < 0)
      <4>1. PlaceOf(d) \in Place /\ Len(Order) \in Nat
        BY PlaceFacts
      <4> QED
        BY <4>1 DEF Place
    <3>3. Len(Order) \in Nat /\ Len(Order) > 0 /\ watched \in Device
      BY <3>1, PlaceFacts DEF TypeOK
    <3> QED
      BY <3>1, <3>2, <3>3 DEF Healing, AllHealing
  <2> QED
    BY <2>1, <2>2, TypeInit
<1>2. TypeOK /\ SoundCalm /\ FoundLater /\ DueAhead /\ Healing /\ AllHealing /\ [Next]_vars
        => (TypeOK /\ SoundCalm /\ FoundLater /\ DueAhead /\ Healing /\ AllHealing)'
  BY TypeStep, SoundStep, FoundStep, DueStep, HealingStep, AllHealingStep
<1>3. TypeOK /\ Healing /\ AllHealing => Isolated
  <2> SUFFICES ASSUME TypeOK, Healing, AllHealing, calm = Settle PROVE stamp[watched] <= Len(Order)
    BY DEF Isolated
  <2>1. /\ Len(Order) \in Nat /\ Len(Order) > 0 /\ Settle \in Nat /\ 3 * Len(Order) <= Settle
        /\ Reads \in Nat /\ Reads <= Len(Order) /\ stamp[watched] \in Nat
    BY PlaceFacts, ReadPathAssumption DEF TypeOK, Reads
  <2>2. Fresh
    BY <2>1 DEF Healing, AllHealing, TypeOK
  <2> QED
    BY <2>1, <2>2 DEF Fresh
<1> QED
  BY <1>1, <1>2, <1>3, PTL DEF Spec

-----------------------------------------------------------------------------
(* ReadPath implements Reading.                                             *)

(* What is in the cache was read before the poll in progress.               *)
FromBefore == \A d \in Device : pc <= cache[d].since + 1

LEMMA FromBeforeStep == TypeOK /\ FromBefore /\ [Next]_vars => FromBefore'
<1> SUFFICES ASSUME TypeOK, FromBefore, [Next]_vars, NEW d \in Device
             PROVE  pc' <= cache'[d].since + 1
  BY DEF FromBefore
<1> USE PlaceFacts, ReadPathAssumption
<1>0. cache[d] \in Value /\ cache[d].since \in 0..Settle /\ pc <= cache[d].since + 1
  BY DEF TypeOK, FromBefore, Value
<1>1. CASE BeginPoll
  BY <1>0, <1>1 DEF BeginPoll
<1>2. CASE ReadDevice
  <2>1. pc' = pc + 1 /\ pc \in 1..Len(Order) /\ cache'[d].since = Older(cache[d].since)
    BY <1>0, <1>2, OlderValueFacts DEF ReadDevice
  <2>2. cache[d].since \in Nat /\ Older(cache[d].since) \in {cache[d].since + 1, Settle}
    <3>1. cache[d].since \in 0..Settle
      BY <1>0
    <3> QED
      BY ONLY <3>1, OlderFacts
  <2>3. pc + 1 <= Older(cache[d].since) + 1
    <3>1. Len(Order) \in Nat /\ Settle \in Nat /\ Settle > Len(Order)
      BY PlaceFacts, ReadPathAssumption
    <3>2. pc \in 1..Len(Order) /\ pc <= cache[d].since + 1
      BY <1>0, <2>1
    <3> QED
      BY ONLY <2>2, <3>1, <3>2
  <2> QED
    BY ONLY <2>1, <2>3
<1>3. CASE EndPoll
  <2>1. cache'[d] \in Value
    BY <1>0, <1>3, ReadingType DEF EndPoll
  <2> QED
    BY <1>3, <2>1 DEF EndPoll, Value
<1>4. CASE Elsewhere \/ UNCHANGED vars
  BY <1>0, <1>4, ElsewhereFrame
<1> QED
  BY <1>1, <1>2, <1>3, <1>4, NextCases

(* Whole values show as the times they were read.                           *)
Times(values) == [d \in Device |-> values[d].since]

LEMMA WholeTimes ==
  ASSUME NEW values \in [Device -> Value], \A d \in Device : ~values[d].torn
  PROVE  /\ [d \in Device |-> AllOfOne(values[d])] = Times(values)
         /\ Times(values) # None /\ values # None
<1>1. [d \in Device |-> AllOfOne(values[d])] = Times(values)
  BY Zenon DEF AllOfOne, Times
<1>2. Times(values) \in [Device -> 0..Settle]
  BY DEF Value, Times
<1> QED
  BY <1>1, <1>2, NoCopyAssumption

(* A device read is the passing of time.                                    *)
LEMMA TimesLater ==
  ASSUME NEW values \in [Device -> Value]
  PROVE  Times([d \in Device |-> OlderValue(values[d])]) = Register!Later(Times(values))
<1>1. \A d \in Device : OlderValue(values[d]).since = Older(values[d].since)
  BY OlderValueFacts
<1> QED
  BY <1>1, Zenon DEF Times, Register!Later, Older

(* What the control loop sees: the times of the cache, and of the copy.     *)
Seen == /\ [d \in Device |-> AllOfOne(cache[d])] = Times(cache)
        /\ IF copied = None THEN TRUE
           ELSE [d \in Device |-> AllOfOne(copied[d])] = Times(copied) /\ Times(copied) # None

LEMMA SeenWhole == TypeOK /\ Coherent => Seen
BY WholeTimes DEF Seen, TypeOK, Coherent

LEMMA SeenWholeNext == TypeOK' /\ Coherent' => Seen'
BY WholeTimes DEF Seen, TypeOK, Coherent

LEMMA ReadRefines ==
  ASSUME TypeOK, Coherent, TypeOK', Coherent', ReadDevice
  PROVE  Register!Pass
<1>1. /\ cache' = [d \in Device |-> OlderValue(cache[d])]
      /\ stamp' = [d \in Device |-> Older(stamp[d])]
      /\ copied' = IF copied = None THEN None ELSE [d \in Device |-> OlderValue(copied[d])]
  BY Zenon DEF ReadDevice
<1>2. Times(cache') = Register!Later(Times(cache))
  BY <1>1, TimesLater DEF TypeOK
<1>3. stamp' = Register!Later(stamp)
  BY <1>1, Zenon DEF Register!Later, Older
<1>4. ASSUME copied # None
      PROVE  copied' # None /\ Times(copied') = Register!Later(Times(copied))
  <2>1. copied' = [d \in Device |-> OlderValue(copied[d])] /\ copied \in [Device -> Value]
    BY <1>1, <1>4 DEF TypeOK
  <2>2. copied' \in [Device -> Value]
    BY <2>1, OlderValueFacts
  <2> QED
    BY <2>1, <2>2, TimesLater, NoCopyAssumption
<1>5. Seen /\ Seen'
  BY SeenWhole, SeenWholeNext
<1> QED
  BY <1>1, <1>2, <1>3, <1>4, <1>5, Zenon DEF Register!Pass, Seen

(* A poll that is over renews what it publishes.                            *)
LEMMA PollRefines ==
  ASSUME TypeOK, Coherent, FromBefore, TypeOK', Coherent', EndPoll
  PROVE  Register!Renew
<1> DEFINE read == [d \in Published |-> ReadingOf(d).since]
<1>1. Published \subseteq Device
  BY DEF Published
<1>2. ASSUME NEW d \in Published
      PROVE  read[d] \in 0..(Len(Order) - 1) /\ read[d] < cache[d].since
  <2>1. d \in Device
    BY <1>1
  <2>2. ReadingOf(d).since \in 0..Settle /\ ReadingOf(d).since < Len(Order)
    BY <2>1, ReadingType DEF Value
  <2>3. pc = Len(Order) + 1 /\ pc <= cache[d].since + 1 /\ cache[d].since \in 0..Settle
    BY <2>1 DEF EndPoll, FromBefore, TypeOK, Value
  <2> QED
    BY <2>2, <2>3, PlaceFacts, ReadPathAssumption
<1>3. read \in [Published -> 0..(Len(Order) - 1)]
  BY <1>2
<1>4. /\ Times(cache') = [d \in Device |-> IF d \in Published THEN read[d] ELSE Times(cache)[d]]
      /\ stamp' = [d \in Device |-> IF d \in Published THEN 0 ELSE stamp[d]]
      /\ copied' = copied
  BY DEF EndPoll, Times, Stamped
<1>5. \A d \in Published : read[d] < Times(cache)[d]
  BY <1>1, <1>2 DEF Times
<1>6. Seen /\ Seen'
  BY SeenWhole, SeenWholeNext
<1> HIDE DEF read
<1> QED
  BY <1>1, <1>3, <1>4, <1>5, <1>6, Zenon DEF Register!Renew, Seen

(* What CachedDriver and CompositeDriver show the control loop is a         *)
(* register with an age: every step of a poll, of the control thread and of *)
(* the field maps to a step of Reading or to none.                          *)
THEOREM ReadingKept == Spec => KeepsReading
<1> DEFINE Inv == TypeOK /\ ReadWhole /\ Coherent /\ FromBefore
<1>1. Init => Inv /\ Register!Init
  <2> SUFFICES ASSUME Init PROVE Inv /\ Register!Init
    OBVIOUS
  <2>1. TypeOK /\ ReadWhole /\ Coherent
    BY TypeInit DEF Init, ReadWhole, Coherent, Unread, Place
  <2>2. pc = 0 /\ \A d \in Device : cache[d].since = Settle
    BY DEF Init, Unread
  <2>3. FromBefore
    <3>1. 0 <= Settle + 1
      BY ReadPathAssumption
    <3> QED
      BY <2>2, <3>1, Zenon DEF FromBefore
  <2>4. Seen /\ copied = None /\ stamp = [d \in Device |-> Settle]
    BY <2>1, SeenWhole DEF Init
  <2>5. Times(cache) = [d \in Device |-> Settle]
    BY <2>2, Zenon DEF Times
  <2> QED
    BY <2>1, <2>3, <2>4, <2>5, Zenon DEF Register!Init, Seen
<1>2. Inv /\ [Next]_vars => Inv'
  BY TypeStep, ReadWholeStep, CoherentStep, FromBeforeStep
<1>3. ASSUME Inv, Inv', [Next]_vars PROVE [Register!Next]_(Register!vars)
  <2>1. CASE ReadDevice
    BY <1>3, <2>1, ReadRefines, Zenon DEF Register!Next
  <2>2. CASE EndPoll
    BY <1>3, <2>2, PollRefines, Zenon DEF Register!Next
  <2>3. CASE CopyCache
    <3>1. copied = None /\ copied' = cache /\ cache' = cache /\ stamp' = stamp /\ copied' # None
      BY <1>3, <2>3, NoCopyAssumption DEF CopyCache, TypeOK
    <3> QED
      BY <3>1, Zenon DEF Register!Next, Register!Take
  <2>4. CASE ReadAges
    <3>1. copied # None /\ copied' = None /\ cache' = cache /\ stamp' = stamp
      BY <2>4 DEF ReadAges
    <3>2. Seen
      BY <1>3, SeenWhole
    <3> QED
      BY <3>1, <3>2, Zenon DEF Register!Next, Register!Use, Seen
  <2>5. CASE UNCHANGED <<cache, stamp, copied>>
    BY <2>5, Zenon DEF Register!vars
  <2>6. ReadDevice \/ EndPoll \/ CopyCache \/ ReadAges \/ UNCHANGED <<cache, stamp, copied>>
    BY <1>3, Zenon DEF Next, BeginPoll, Abort, DeviceChanges, vars
  <2> QED
    BY <2>1, <2>2, <2>3, <2>4, <2>5, <2>6
<1> QED
  BY <1>1, <1>2, <1>3, PTL DEF Spec, KeepsReading, Register!Spec

=============================================================================
