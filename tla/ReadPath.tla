------------------------------ MODULE ReadPath ------------------------------
(***************************************************************************)
(* The reading half of the I/O worker: CachedDriver._read_once over        *)
(* CompositeDriver._read_per_device, or over the single-age path of a site *)
(* whose devices have no ids, and what the control thread copies out of    *)
(* the cache in CachedDriver.read_state.                                   *)
(*                                                                         *)
(* Devices are read one after the other; the clock of the model counts     *)
(* these reads, each of which may take a timeout.  Of a device's registers *)
(* only their age matters and whether all of them were read in one poll.   *)
(* A socket is the pymodbus client of an endpoint, which devices may       *)
(* share: an aborted session leaves a zombie, which connect() alone does   *)
(* not replace.                                                            *)
(***************************************************************************)
EXTENDS Naturals, Sequences

CONSTANTS
  Device,    \* the devices of the site
  Order,     \* their order in site.yaml
  Endpoint,  \* host and port, or serial line
  Settle,    \* reads after which a disturbance must have no effect any more
  None

ASSUME ReadPathAssumption ==
  /\ Order \in Seq(Device) /\ Len(Order) > 0
  /\ Device = {Order[i] : i \in 1..Len(Order)}
  /\ \A i, j \in 1..Len(Order) : Order[i] = Order[j] => i = j
  /\ Settle \in Nat /\ Settle > Len(Order)

VARIABLES
  perDevice,     \* whether every device has an id (device_ids, _dev_measured)
  endpointOf,    \* the endpoint of each device
  pc,            \* 0 between polls, else the place of the next device to read
  toReconnect,   \* the local to_reconnect of _read_per_device
  reconnected,   \* endpoints reconnected in this poll
  newDown,       \* endpoints with a transport error in this poll
  healthyIdents, \* endpoints with a good read in this poll
  failedIds,     \* devices that failed in this poll
  down,          \* CompositeDriver._down
  busDown,       \* CachedDriver._bus_down
  io,            \* per device: whether its part of _io_state is torn, of several polls
  cache,         \* _meas_cache, per device
  stamp,         \* reads since the stamp in _last_ok_dev, or in _last_ok
  copied,        \* what read_state has copied, before it asks for the ages
  socket,        \* per endpoint: the client's socket
  answers,       \* per device: with data, with errors, or not at all
  watched,       \* history: one of the devices
  calm           \* history: reads since it was last disturbed

config == <<perDevice, endpointOf, watched>>
found  == <<reconnected, newDown, healthyIdents, failedIds>>
poll   == <<pc, toReconnect, found>>
cached == <<cache, stamp, busDown>>
vars   == <<config, poll, down, cached, io, copied, socket, answers, calm>>

(* Ages stop at Settle, which also stands for never.                        *)
Older(n) == IF n < Settle THEN n + 1 ELSE n
Value == [since : 0..Settle, torn : BOOLEAN]
OlderValue(v) == [v EXCEPT !.since = Older(@)]
Unread == [since |-> Settle, torn |-> FALSE]

(* Nothing copied is not a copy. *)
ASSUME NoCopyAssumption == None \notin [Device -> Value] \cup [Device -> 0..Settle]

PlaceOf(d) == CHOOSE i \in 1..Len(Order) : Order[i] = d

(* disconnect() and connect(): a new socket where a connection can be made; *)
(* an endpoint that cannot be reached is one all of whose devices are       *)
(* silent.                                                                  *)
Connected(e) ==
  IF \E d \in Device : endpointOf[d] = e /\ answers[d] # "silence" THEN "live" ELSE "none"

(* Nothing that a device's age depends on is broken: the device itself, or  *)
(* every device where one age serves all.                                   *)
Sound == \A d \in IF perDevice THEN {watched} ELSE Device : answers[d] = "data"
Disturbs(e) == IF perDevice THEN e = endpointOf[watched] ELSE TRUE

Init ==
  /\ perDevice \in BOOLEAN
  /\ endpointOf \in [Device -> Endpoint]
  /\ watched \in Device
  /\ pc = 0 /\ toReconnect = {} /\ reconnected = {}
  /\ newDown = {} /\ healthyIdents = {} /\ failedIds = {}
  /\ down = {} /\ busDown = FALSE
  /\ io = [d \in Device |-> FALSE] /\ cache = [d \in Device |-> Unread]
  /\ stamp = [d \in Device |-> Settle]
  /\ copied = None
  /\ answers \in [Device -> {"data", "errors", "silence"}]
  /\ socket = [e \in Endpoint |-> Connected(e)]
  /\ calm = 0

-----------------------------------------------------------------------------
(* The worker *)

(* Mutant: after an outage of everything connect() is called on the old     *)
(* sockets, which leaves a zombie as it is.                                 *)
BeginPollNoDisconnect ==
  /\ pc = 0
  /\ pc' = 1
  /\ socket' = IF busDown
               THEN [e \in Endpoint |-> IF socket[e] = "none" THEN Connected(e) ELSE socket[e]]
               ELSE socket
  /\ toReconnect' = down
  /\ UNCHANGED <<config, found, down, cached, io, copied, answers, calm>>

(* A poll begins; one that follows an outage of everything reconnects       *)
(* everything.                                                              *)
BeginPoll ==
  /\ pc = 0
  /\ pc' = 1
  /\ socket' = IF busDown THEN [e \in Endpoint |-> Connected(e)] ELSE socket
  /\ toReconnect' = down
  /\ UNCHANGED <<config, found, down, cached, io, copied, answers, calm>>

(* The endpoint went down in an earlier poll and was not reconnected yet.   *)
Due(e) == perDevice /\ e \in toReconnect \ reconnected

(* What a read over socket s comes to.                                      *)
Outcome(d, s) ==
  IF s # "live" \/ answers[d] = "silence" THEN "transport"
  ELSE IF answers[d] = "errors" THEN "rejected"
  ELSE "good"

(* One device is read.  A device that fails may have put some of its        *)
(* registers into _io_state.                                                *)
ReadDevice ==
  /\ pc \in 1..Len(Order)
  /\ pc' = pc + 1
  /\ LET d == Order[pc]
         e == endpointOf[d]
         s == IF Due(e) THEN Connected(e) ELSE socket[e]
         outcome == Outcome(d, s)
     IN /\ socket' = [socket EXCEPT ![e] = s]
        /\ reconnected' = IF Due(e) THEN reconnected \cup {e} ELSE reconnected
        /\ newDown' = IF outcome = "transport" THEN newDown \cup {e} ELSE newDown
        /\ healthyIdents' = IF outcome = "good" THEN healthyIdents \cup {e} ELSE healthyIdents
        /\ failedIds' = IF outcome = "good" THEN failedIds ELSE failedIds \cup {d}
        /\ \E torn \in IF outcome = "good" THEN {FALSE} ELSE {io[d], TRUE} :
             io' = [io EXCEPT ![d] = torn]
  /\ cache' = [d \in Device |-> OlderValue(cache[d])]
  /\ stamp' = [d \in Device |-> Older(stamp[d])]
  /\ copied' = IF copied = None THEN None ELSE [d \in Device |-> OlderValue(copied[d])]
  /\ calm' = IF Sound THEN Older(calm) ELSE 0
  /\ UNCHANGED <<config, toReconnect, down, busDown, answers>>

(* A good read clears what a sibling on the same endpoint marked.           *)
EndpointsDown == IF perDevice THEN (down \cup newDown) \ healthyIdents ELSE down

(* Mutant: one answer on the bus vouches for every device.                  *)
PublishedAnyGood == IF failedIds = Device THEN {} ELSE Device

(* The devices whose values are published: those that were read, or all or  *)
(* none.                                                                    *)
Published ==
  IF perDevice THEN Device \ failedIds
  ELSE IF failedIds = {} THEN Device ELSE {}

(* What a device's part of _io_state is when the poll is over, the reads of *)
(* the devices after it included.                                           *)
ReadingOf(d) == [since |-> Len(Order) - PlaceOf(d), torn |-> io[d]]

(* Mutant: a poll with an answer stamps every device.                       *)
StampedAll == IF Published = {} THEN {} ELSE Device
Stamped == Published

(* The poll's result goes into the cache, under the lock, and is stamped.   *)
EndPoll ==
  /\ pc = Len(Order) + 1
  /\ pc' = 0
  /\ down' = EndpointsDown
  /\ cache' = [d \in Device |-> IF d \in Published THEN ReadingOf(d) ELSE cache[d]]
  /\ stamp' = [d \in Device |-> IF d \in Stamped THEN 0 ELSE stamp[d]]
  /\ busDown' = (Published = {})
  /\ toReconnect' = {} /\ reconnected' = {} /\ newDown' = {} /\ healthyIdents' = {}
  /\ failedIds' = {}
  /\ UNCHANGED <<config, io, copied, socket, answers, calm>>

-----------------------------------------------------------------------------
(* The control thread: CachedDriver.read_state *)

(* The cache is copied under the lock.                                      *)
CopyCache ==
  /\ copied = None
  /\ copied' = cache
  /\ UNCHANGED <<config, poll, down, cached, io, socket, answers, calm>>

(* The ages are asked for afterwards, each under the lock; with them the    *)
(* tags are complete and the controllers run.                               *)
ReadAges ==
  /\ copied # None
  /\ copied' = None
  /\ UNCHANGED <<config, poll, down, cached, io, socket, answers, calm>>

-----------------------------------------------------------------------------
(* The field *)

(* A session is aborted by the other side.                                  *)
Abort(e) ==
  /\ socket[e] = "live"
  /\ socket' = [socket EXCEPT ![e] = "zombie"]
  /\ calm' = IF Disturbs(e) THEN 0 ELSE calm
  /\ UNCHANGED <<config, poll, down, cached, io, copied, answers>>

DeviceChanges(d) ==
  /\ \E a \in {"data", "errors", "silence"} \ {answers[d]} : answers' = [answers EXCEPT ![d] = a]
  /\ calm' = IF perDevice => d = watched THEN 0 ELSE calm
  /\ UNCHANGED <<config, poll, down, cached, io, copied, socket>>

Next ==
  \/ BeginPoll \/ ReadDevice \/ EndPoll
  \/ CopyCache \/ ReadAges
  \/ \E e \in Endpoint : Abort(e)
  \/ \E d \in Device : DeviceChanges(d)

Spec == Init /\ [][Next]_vars

-----------------------------------------------------------------------------
(* Properties *)

(* Types, and the place in the poll of what was read in it.                 *)
TypeOK ==
  /\ perDevice \in BOOLEAN /\ endpointOf \in [Device -> Endpoint] /\ watched \in Device
  /\ pc \in 0..(Len(Order) + 1)
  /\ toReconnect \subseteq Endpoint /\ reconnected \subseteq Endpoint /\ down \subseteq Endpoint
  /\ newDown \subseteq Endpoint /\ healthyIdents \subseteq Endpoint
  /\ failedIds \subseteq Device
  /\ busDown \in BOOLEAN
  /\ io \in [Device -> BOOLEAN] /\ cache \in [Device -> Value]
  /\ stamp \in [Device -> 0..Settle]
  /\ copied = None \/ copied \in [Device -> Value]
  /\ socket \in [Endpoint -> {"live", "zombie", "none"}]
  /\ answers \in [Device -> {"data", "errors", "silence"}]
  /\ calm \in 0..Settle
  /\ ~perDevice => down = {}

(* The control thread never gets a device's registers from different polls, *)
(* although a failed read leaves some of them in _io_state.                 *)
Coherent == \A d \in Device : ~cache[d].torn /\ (copied # None => ~copied[d].torn)

(* A cached value is at most one poll older than its age says: the stamp is *)
(* set when the poll is over, behind the devices that were read after it.   *)
AgeHonest == \A d \in Device : cache[d].since <= stamp[d] + Len(Order)

(* The ages are read after the values, without the lock in between.  Values *)
(* that are older than the age they go with have been replaced in the cache *)
(* already, so that only this one cycle acts on them.                       *)
StaleForOneCycle ==
  [][ReadAges => \A d \in Device :
       copied[d].since > stamp[d] + Len(Order) => cache[d].since < copied[d].since]_vars

(* A device whose endpoint works has a fresh age, whatever the others do,   *)
(* and is so again in bounded time after an outage: no sibling, zombie      *)
(* socket or reconnect of everything holds it up.                           *)
Isolated == calm = Settle => stamp[watched] <= Len(Order)

(* "a failure DURING this poll only schedules a reconnect for the NEXT poll *)
(* -- never a mid-poll bounce of a sibling": an endpoint is reconnected in  *)
(* a poll only before the first read over it.                               *)
NoMidPollBounce ==
  [][\A e \in reconnected' \ reconnected :
       \A i \in 1..(pc - 1) : endpointOf[Order[i]] # e]_vars

(* The values that ReadPath publishes and their ages are a register with an *)
(* age: values of one reading only, that never go back, and ages that start *)
(* over only with them, whichever devices fail in a poll and whenever the   *)
(* control thread looks.                                                    *)
AllOfOne(v) == IF v.torn THEN None ELSE v.since
Register == INSTANCE Reading WITH
  Span <- Len(Order), Horizon <- Settle,
  since <- [d \in Device |-> AllOfOne(cache[d])], age <- stamp,
  held <- IF copied = None THEN None ELSE [d \in Device |-> AllOfOne(copied[d])]

KeepsReading == Register!Spec

=============================================================================
