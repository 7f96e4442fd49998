-------------------------- MODULE AllocationProofs --------------------------
(***************************************************************************)
(* What Allocation guarantees for every set of requesters, every claim and *)
(* every channel configuration that meets the module's assumptions.        *)
(***************************************************************************)
EXTENDS AllocationLoop, FiniteSetTheorems, WellFoundedInduction, TLAPS

-----------------------------------------------------------------------------
(* What the arithmetic helpers return. *)

(* Clamping an integer between integer bounds gives an integer. *)
LEMMA ClampType ==
  ASSUME NEW w \in Int, NEW lo \in Int, NEW hi \in Int
  PROVE  Clamp(w, lo, hi) \in Int
BY DEF Clamp

(* The ramp never passes the value it heads for: the result lies between   *)
(* the retained setpoint and that value, or is the value itself.           *)
LEMMA RampedBetween ==
  ASSUME NEW w \in Int, NEW forced \in BOOLEAN, last \in Int \cup {None}
  PROVE  /\ Ramped(w, forced) \in Int
         /\ last = None \/ forced => Ramped(w, forced) = w
         /\ last # None => \/ last <= Ramped(w, forced) /\ Ramped(w, forced) <= w
                           \/ w <= Ramped(w, forced) /\ Ramped(w, forced) <= last
         /\ last # None /\ ~forced
              => /\ last - RampDown <= Ramped(w, forced)
                 /\ Ramped(w, forced) <= last + RampUp
BY ChannelAssumption DEF Ramped, Clamp

(* The deadband either keeps the retained setpoint or changes nothing, and *)
(* never interferes with a forced value.                                   *)
LEMMA DeadbandedChoice ==
  ASSUME NEW w, NEW forced \in BOOLEAN
  PROVE  /\ Deadbanded(w, forced) \in {w, last}
         /\ last = None \/ forced => Deadbanded(w, forced) = w
BY DEF Deadbanded

(* What one resolution does to the retained setpoint: there is an honored  *)
(* set and a value in the room it leaves such that the new setpoint lies   *)
(* between the old one and that value.                                     *)
LEMMA ResolveOutcome ==
  ASSUME TypeOK, Resolve
  PROVE  \E H \in SUBSET Live : \E w \in Room(H) :
           /\ Arbitrated(H)
           /\ NoteHonored(H)
           /\ w \in PMin..PMax
           /\ last' \in Int
           /\ last = None \/ ForcedBySafety(H) => last' = w
           /\ last # None => \/ last <= last' /\ last' <= w
                             \/ w <= last' /\ last' <= last
           /\ last # None /\ ~ForcedBySafety(H)
                => last - RampDown <= last' /\ last' <= last + RampUp
<1>0. PICK H \in SUBSET Live :
        /\ Arbitrated(H)
        /\ NoteHonored(H)
        /\ \E w \in Room(H) :
             last' = Ramped(Deadbanded(w, ForcedBySafety(H)), ForcedBySafety(H))
  BY DEF Resolve
<1>1. PICK w \in Room(H) :
        last' = Ramped(Deadbanded(w, ForcedBySafety(H)), ForcedBySafety(H))
  BY <1>0
<1>2. w \in PMin..PMax /\ w \in Int
  BY ChannelAssumption DEF Room
<1>3. ForcedBySafety(H) \in BOOLEAN
  BY DEF ForcedBySafety
<1>4. last \in Int \cup {None}
  BY DEF TypeOK
<1> DEFINE d == Deadbanded(w, ForcedBySafety(H))
<1>5. d \in {w, last} /\ (last = None \/ ForcedBySafety(H) => d = w)
  BY <1>3, DeadbandedChoice
<1>6. d \in Int
  BY <1>2, <1>4, <1>5
<1> HIDE DEF d
<1>7. /\ Ramped(d, ForcedBySafety(H)) \in Int
      /\ last = None \/ ForcedBySafety(H) => Ramped(d, ForcedBySafety(H)) = d
      /\ last # None =>
           \/ last <= Ramped(d, ForcedBySafety(H)) /\ Ramped(d, ForcedBySafety(H)) <= d
           \/ d <= Ramped(d, ForcedBySafety(H)) /\ Ramped(d, ForcedBySafety(H)) <= last
      /\ last # None /\ ~ForcedBySafety(H)
           => /\ last - RampDown <= Ramped(d, ForcedBySafety(H))
              /\ Ramped(d, ForcedBySafety(H)) <= last + RampUp
  BY <1>3, <1>4, <1>6, RampedBetween
<1>8. last' = Ramped(d, ForcedBySafety(H))
  BY <1>1 DEF d
<1>9. last # None => \/ last <= last' /\ last' <= w
                     \/ w <= last' /\ last' <= last
  BY <1>2, <1>4, <1>5, <1>7, <1>8, NoneAssumption
<1> QED
  BY <1>0, <1>1, <1>2, <1>5, <1>7, <1>8, <1>9

-----------------------------------------------------------------------------
(* Every reachable state is well typed, and the resolution leaves no       *)
(* expired claim on the board.                                             *)
THEOREM TypeCorrect == Spec => []TypeOK
<1>1. Init => TypeOK
  BY DEF Init, TypeOK
<1>2. TypeOK /\ [Next]_vars => TypeOK'
  <2> SUFFICES ASSUME TypeOK, [Next]_vars PROVE TypeOK'
    OBVIOUS
  <2>1. ASSUME NEW r \in Requester, NEW q \in Claim[r], Post(r, q) PROVE TypeOK'
    BY <2>1 DEF TypeOK, Post
  <2>2. ASSUME NEW r \in Requester, Withdraw(r) PROVE TypeOK'
    BY <2>2 DEF TypeOK, Withdraw
  <2>3. CASE Resolve
    <3>1. PICK H \in SUBSET Live : NoteHonored(H) /\ last' \in Int
      BY <2>3, ResolveOutcome
    <3>2. /\ honored' \in [Requester -> {"unseen", "honored", "rejected"}]
          /\ alarms' \subseteq Requester
      BY <3>1 DEF NoteHonored, Live, TypeOK
    <3>3. setpoint' \in Int
      BY <2>3, <3>1, ChannelAssumption, ClampType DEF Resolve
    <3>4. /\ board' = [r \in Requester |-> IF r \in Live THEN board[r] ELSE None]
          /\ age' = [r \in Requester |-> IF r \in Live THEN age[r] ELSE 0]
          /\ phase' = "idle"
      BY <2>3 DEF Resolve
    <3>5. \A r \in Requester : board'[r] \in Claim[r] \cup {None} /\ age'[r] \in Nat
      BY <3>4 DEF TypeOK
    <3>6. \A r \in Requester :
            board'[r] # None => ~(board'[r].ttl # None /\ age'[r] >= board'[r].ttl)
      BY <3>4 DEF Live, Expired
    <3> QED
      BY <3>1, <3>2, <3>3, <3>4, <3>5, <3>6 DEF TypeOK
  <2>4. CASE Tick
    <3>1. PICK d \in 1..MaxLag : age' = [r \in Requester |-> Aged(r, d)]
      BY <2>4 DEF Tick
    <3>2. \A r \in Requester : Aged(r, d) \in Nat
      BY ClaimAssumption, ChannelAssumption DEF Aged, TypeOK, IsRequest
    <3> QED
      BY <2>4, <3>1, <3>2 DEF TypeOK, Tick
  <2>5. CASE UNCHANGED vars
    BY <2>5 DEF TypeOK, vars, Live, Expired
  <2> QED
    BY <2>1, <2>2, <2>3, <2>4, <2>5 DEF Next
<1> QED
  BY <1>1, <1>2, PTL DEF Spec

(* The retained setpoint never leaves the device envelope: the value a     *)
(* resolution heads for lies in it, and the step towards it cannot leave   *)
(* an interval that holds both ends.                                       *)
THEOREM EnvelopeHolds == Spec => []WithinEnvelope
<1>1. Init => WithinEnvelope
  BY DEF Init, WithinEnvelope
<1>2. TypeOK /\ WithinEnvelope /\ [Next]_vars => WithinEnvelope'
  <2> SUFFICES ASSUME TypeOK, WithinEnvelope, [Next]_vars PROVE WithinEnvelope'
    OBVIOUS
  <2>1. CASE Resolve
    <3>1. PICK H \in SUBSET Live :
            \E w \in Room(H) :
              /\ w \in PMin..PMax /\ last' \in Int
              /\ last = None => last' = w
              /\ last # None => \/ last <= last' /\ last' <= w
                                \/ w <= last' /\ last' <= last
      BY <2>1, ResolveOutcome
    <3> QED
      BY <3>1, ChannelAssumption DEF WithinEnvelope
  <2>2. CASE UNCHANGED last
    BY <2>2 DEF WithinEnvelope
  <2> QED
    BY <2>1, <2>2 DEF Next, Post, Withdraw, Tick, vars
<1> QED
  BY <1>1, <1>2, TypeCorrect, PTL DEF Spec

(* An allocation alarm is active exactly for the rejected requesters.      *)
THEOREM AlarmsAgree == Spec => []AlarmsMatchVerdicts
<1>1. Init => AlarmsMatchVerdicts
  BY DEF Init, AlarmsMatchVerdicts
<1>2. TypeOK /\ AlarmsMatchVerdicts /\ [Next]_vars => AlarmsMatchVerdicts'
  <2> SUFFICES ASSUME TypeOK, AlarmsMatchVerdicts, [Next]_vars
               PROVE  AlarmsMatchVerdicts'
    OBVIOUS
  <2>1. CASE Resolve
    <3>1. PICK H \in SUBSET Live : NoteHonored(H)
      BY <2>1, ResolveOutcome
    <3> QED
      BY <3>1 DEF NoteHonored, AlarmsMatchVerdicts, Live
  <2>2. CASE UNCHANGED <<honored, alarms>>
    BY <2>2 DEF AlarmsMatchVerdicts
  <2> QED
    BY <2>1, <2>2 DEF Next, Post, Withdraw, Tick, vars
<1> QED
  BY <1>1, <1>2, TypeCorrect, PTL DEF Spec

(* Only a live priority-0 claim with a target moves the setpoint by more   *)
(* than the gradient: the owner of a forced target is such a claim.        *)
THEOREM GradientHolds == Spec => GradientRespected
<1>1. TypeOK /\ [Next]_vars
        => [last # None /\ ~SafetyClaim => last' \in last - RampDown .. last + RampUp]_vars
  <2> SUFFICES ASSUME TypeOK, [Next]_vars, last # None, ~SafetyClaim
               PROVE  last' \in last - RampDown .. last + RampUp
    OBVIOUS
  <2>1. CASE Resolve
    <3>1. PICK H \in SUBSET Live :
            /\ last' \in Int
            /\ ~ForcedBySafety(H) => last - RampDown <= last' /\ last' <= last + RampUp
      BY <2>1, ResolveOutcome
    <3>2. ~ForcedBySafety(H)
      BY DEF ForcedBySafety, Owns, Targeting, SafetyClaim
    <3> QED
      BY <3>1, <3>2, ChannelAssumption DEF TypeOK
  <2>2. CASE UNCHANGED last
    BY <2>2, ChannelAssumption DEF TypeOK
  <2> QED
    BY <2>1, <2>2 DEF Next, Post, Withdraw, Tick, vars
<1> QED
  BY <1>1, TypeCorrect, PTL DEF Spec, GradientRespected

(* A pin that nothing precedes is honored, leaves a single setpoint, owns  *)
(* the target and is forced, so it lands in the cycle that sees it.        *)
THEOREM PinHolds == Spec => PinLands
<1>1. TypeOK /\ [Next]_vars
        => [Resolve => \A r \in Requester : Pin(r) => last' = board[r].target]_vars
  <2> SUFFICES ASSUME TypeOK, Resolve, NEW r \in Requester, Pin(r)
               PROVE  last' = board[r].target
    OBVIOUS
  <2>1. PICK H \in SUBSET Live :
          /\ Arbitrated(H)
          /\ \E w \in Room(H) : ForcedBySafety(H) => last' = w
    BY ResolveOutcome
  <2>2. /\ r \in Live /\ Prio[r] = 0 /\ board[r].target # None
        /\ board[r].min = board[r].max /\ board[r].min \in PMin..PMax
        /\ board[r].target = board[r].min
    BY ClaimAssumption DEF Pin, Live, TypeOK, IsRequest
  <2>3. \A s \in H : ~Before(s, r)
    <3> SUFFICES ASSUME NEW s \in H, Before(s, r) PROVE FALSE
      OBVIOUS
    <3>1. s \in Requester /\ s \in Live
      BY DEF Live
    <3>2. CASE s = r
      BY <3>2, PriorityAssumption, RankAssumption DEF Before
    <3>3. CASE s # r
      <4>1. Before(r, s)
        BY <3>1, <3>3 DEF Pin
      <4> QED
        BY <3>1, <4>1, PriorityAssumption, RankAssumption DEF Before
    <3> QED
      BY <3>2, <3>3
  <2>4. Room({s \in H : Before(s, r)} \cup {r}) # {}
    <3>1. board[r].min \in Room({r})
      BY <2>2, ChannelAssumption DEF Room
    <3>2. {s \in H : Before(s, r)} \cup {r} = {r}
      BY <2>3
    <3> QED
      BY <3>1, <3>2
  <2>5. r \in H
    BY <2>1, <2>2, <2>4 DEF Arbitrated
  <2>6. Owns(r, H)
    <3>1. \A s \in H \ {r} : Before(r, s)
      BY DEF Pin
    <3> QED
      BY <2>2, <2>5, <3>1 DEF Owns, Targeting
  <2>7. ForcedBySafety(H)
    BY <2>2, <2>5, <2>6 DEF ForcedBySafety
  <2>8. PICK w \in Room(H) : last' = w
    BY <2>1, <2>7
  <2>9. w = board[r].min
    BY <2>2, <2>5, <2>8, ChannelAssumption DEF Room
  <2> QED
    BY <2>2, <2>8, <2>9
<1> QED
  BY <1>1, TypeCorrect, PTL DEF Spec, PinLands

(* No resolution moves the setpoint away from a range it honors: the value *)
(* it heads for lies inside that range, and the step goes no further.      *)
THEOREM NeverAwayHolds == Spec => NeverAway
<1>1. TypeOK /\ [Next]_vars
        => [Resolve /\ last # None =>
              \A r \in Live : honored'[r] = "honored"
                                => Away(last', board[r]) <= Away(last, board[r])]_vars
  <2> SUFFICES ASSUME TypeOK, Resolve, last # None,
                      NEW r \in Live, honored'[r] = "honored"
               PROVE  Away(last', board[r]) <= Away(last, board[r])
    OBVIOUS
  <2>1. PICK H \in SUBSET Live :
          /\ NoteHonored(H)
          /\ \E w \in Room(H) :
               /\ w \in PMin..PMax /\ last' \in Int
               /\ \/ last <= last' /\ last' <= w
                  \/ w <= last' /\ last' <= last
    BY ResolveOutcome
  <2>2. r \in H
    BY <2>1 DEF NoteHonored, Live
  <2>3. PICK w \in Room(H) :
               /\ w \in PMin..PMax /\ last' \in Int
               /\ \/ last <= last' /\ last' <= w
                  \/ w <= last' /\ last' <= last
    BY <2>1
  <2>4. board[r].min <= w /\ w <= board[r].max
    BY <2>2, <2>3 DEF Room
  <2>5. board[r].min \in Int /\ board[r].max \in Int
    BY ClaimAssumption DEF Live, TypeOK, IsRequest
  <2> QED
    BY <2>3, <2>4, <2>5, ChannelAssumption DEF Away, TypeOK
<1> QED
  BY <1>1, TypeCorrect, PTL DEF Spec, NeverAway

-----------------------------------------------------------------------------
(* The loop of resolve against the declarative arbitration. *)

(* Every set of naturals has a least one, and induction over a set of them. *)
LEMMA LeastMember ==
  ASSUME NEW S \in SUBSET Nat, S # {}
  PROVE  \E m \in S : \A k \in S : m <= k
<1> DEFINE R == OpToRel(<, Nat)
<1>1. IsWellFoundedOn(R, Nat)
  BY NatLessThanWellFounded
<1>2. \A x \in Nat, y \in Nat : <<y, x>> \in R <=> y < x
  BY DEF OpToRel
<1> HIDE DEF R
<1>3. PICK m \in S : \A k \in S : ~ (<<k, m>> \in R)
  BY <1>1, WFMin
<1>4. \A k \in S : k \in Nat /\ m \in Nat /\ ~ (k < m)
  BY <1>2, <1>3
<1> QED
  BY <1>4

LEMMA Induction ==
  ASSUME NEW S, 0 \in S, \A n \in Nat : n \in S => n + 1 \in S
  PROVE  Nat \subseteq S
<1> SUFFICES ASSUME Nat \ S # {} PROVE FALSE
  OBVIOUS
<1>1. PICK m \in Nat \ S : \A k \in Nat \ S : m <= k
  BY LeastMember
<1>2. m - 1 \in Nat /\ m - 1 < m
  BY <1>1
<1>3. m - 1 \in S
  BY <1>1, <1>2
<1>4. (m - 1) + 1 \in S
  BY <1>2, <1>3
<1> QED
  BY <1>1, <1>4

(* The n steps of a run over V that starts in a.                            *)
IsRun(run, n, V, a, step) ==
  /\ run \in [0..n -> V] /\ run[0] = a
  /\ \A i \in 1..n : run[i] = step[i][run[i - 1]]

(* Such a run exists, whatever the steps do.                                *)
LEMMA RunExists ==
  ASSUME NEW n \in Nat, NEW V, NEW a \in V, NEW step \in [1..n -> [V -> V]]
  PROVE  \E run : IsRun(run, n, V, a, step)
<1> DEFINE Runs(k) == {run \in [0..k -> V] : run[0] = a /\ \A i \in 1..k : run[i] = step[i][run[i - 1]]}
           S == {k \in Nat : k <= n => Runs(k) # {}}
<1>1. 0 \in S
  <2>1. [i \in 0..0 |-> a] \in Runs(0)
    OBVIOUS
  <2> QED
    BY <2>1
<1>2. ASSUME NEW k \in Nat, k \in S PROVE k + 1 \in S
  <2> SUFFICES ASSUME k + 1 <= n PROVE Runs(k + 1) # {}
    OBVIOUS
  <2>1. PICK run \in Runs(k) : TRUE
    BY <1>2
  <2>2. /\ run \in [0..k -> V] /\ run[0] = a
        /\ \A i \in 1..k : run[i] = step[i][run[i - 1]]
    BY <2>1
  <2> DEFINE next == [i \in 0..(k + 1) |-> IF i = k + 1 THEN step[k + 1][run[k]] ELSE run[i]]
  <2>3. step[k + 1][run[k]] \in V
    BY <2>2
  <2>4. next \in [0..(k + 1) -> V] /\ next[0] = a
    BY <2>2, <2>3
  <2>5. ASSUME NEW i \in 1..(k + 1) PROVE next[i] = step[i][next[i - 1]]
    BY <2>2
  <2>6. next \in Runs(k + 1)
    BY <2>4, <2>5
  <2> QED
    BY <2>6
<1> HIDE DEF S
<1>3. n \in S
  BY <1>1, <1>2, Induction
<1>4. PICK run \in Runs(n) : TRUE
  BY <1>3 DEF S
<1> QED
  BY <1>4 DEF IsRun

-----------------------------------------------------------------------------
(* The order of the requests *)

LEMMA Ordered ==
  /\ \A r, s \in Requester : r # s => Before(r, s) \/ Before(s, r)
  /\ \A r, s \in Requester : ~(Before(r, s) /\ Before(s, r))
  /\ \A r, s, t \in Requester : Before(r, s) /\ Before(s, t) => Before(r, t)
BY PriorityAssumption, RankAssumption DEF Before

LEMMA PlaceOrders ==
  ASSUME IsFiniteSet(Requester)
  PROVE  /\ Cardinality(Live) \in Nat
         /\ \A r \in Live : Place(r) \in 1..Cardinality(Live)
         /\ \A r, s \in Live : Before(r, s) <=> Place(r) < Place(s)
<1> DEFINE Earlier(r) == {s \in Live : Before(s, r)}
<1>1. IsFiniteSet(Live) /\ Live \subseteq Requester
  BY FS_Subset DEF Live
<1>2. Cardinality(Live) \in Nat
  BY <1>1, FS_CardinalityType
<1>3. ASSUME NEW r \in Live
      PROVE  /\ IsFiniteSet(Earlier(r)) /\ Cardinality(Earlier(r)) \in Nat
             /\ Cardinality(Earlier(r)) < Cardinality(Live)
  <2>1. Earlier(r) \in SUBSET Live /\ r \notin Earlier(r)
    BY <1>1, Ordered
  <2> HIDE DEF Earlier
  <2>2. IsFiniteSet(Earlier(r)) /\ Cardinality(Earlier(r)) <= Cardinality(Live)
    BY <1>1, <2>1, FS_Subset
  <2>3. Cardinality(Earlier(r)) # Cardinality(Live)
    BY <1>1, <2>1, FS_Subset
  <2> QED
    BY <1>2, <2>2, <2>3, FS_CardinalityType
<1>4. ASSUME NEW r \in Live, NEW s \in Live, Before(r, s)
      PROVE  Cardinality(Earlier(r)) < Cardinality(Earlier(s))
  <2>1. Earlier(r) \subseteq Earlier(s) /\ r \in Earlier(s) /\ r \notin Earlier(r)
    BY <1>1, <1>4, Ordered
  <2>2. /\ IsFiniteSet(Earlier(s)) /\ Cardinality(Earlier(s)) \in Nat
        /\ Cardinality(Earlier(r)) \in Nat
    BY <1>3
  <2> HIDE DEF Earlier
  <2>3. /\ Cardinality(Earlier(r)) <= Cardinality(Earlier(s))
        /\ Cardinality(Earlier(s)) # Cardinality(Earlier(r))
    BY <2>1, <2>2, FS_Subset
  <2> QED
    BY <2>2, <2>3
<1>5. ASSUME NEW r \in Live PROVE Place(r) = Cardinality(Earlier(r)) + 1 /\ Cardinality(Earlier(r)) \in Nat
  BY <1>3 DEF Place
<1>6. \A r \in Live : Place(r) \in 1..Cardinality(Live)
  <2> TAKE r \in Live
  <2>1. /\ Cardinality(Earlier(r)) \in Nat /\ Cardinality(Earlier(r)) < Cardinality(Live)
        /\ Place(r) = Cardinality(Earlier(r)) + 1
    BY <1>3, <1>5
  <2> HIDE DEF Earlier
  <2> QED
    BY <1>2, <2>1
<1>7. ASSUME NEW r \in Live, NEW s \in Live PROVE Before(r, s) <=> Place(r) < Place(s)
  <2>1. /\ Place(r) = Cardinality(Earlier(r)) + 1 /\ Cardinality(Earlier(r)) \in Nat
        /\ Place(s) = Cardinality(Earlier(s)) + 1 /\ Cardinality(Earlier(s)) \in Nat
    BY <1>5
  <2>2. /\ Before(r, s) => Cardinality(Earlier(r)) < Cardinality(Earlier(s))
        /\ Before(s, r) => Cardinality(Earlier(s)) < Cardinality(Earlier(r))
        /\ r # s => Before(r, s) \/ Before(s, r)
    BY <1>1, <1>4, Ordered
  <2> HIDE DEF Earlier
  <2>3. r = s => ~(Place(r) < Place(s))
    BY <2>1
  <2> QED
    BY <2>1, <2>2, <2>3
<1> QED
  BY <1>2, <1>6, <1>7

(* Sorted holds every live requester once, in order.                        *)
LEMMA SortedEnumerates ==
  ASSUME IsFiniteSet(Requester)
  PROVE  /\ \A i \in 1..Cardinality(Live) : Sorted[i] \in Live /\ Place(Sorted[i]) = i
         /\ \A r \in Live : Sorted[Place(r)] = r
<1> DEFINE n == Cardinality(Live)
           place == [r \in Live |-> Place(r)]
<1>1. IsFiniteSet(Live) /\ Live \subseteq Requester /\ n \in Nat
  BY FS_Subset, FS_CardinalityType DEF Live
<1>2. \A r, s \in Live : Place(r) = Place(s) => r = s
  <2> SUFFICES ASSUME NEW r \in Live, NEW s \in Live, Place(r) = Place(s), r # s PROVE FALSE
    OBVIOUS
  <2>1. Before(r, s) \/ Before(s, r)
    BY <1>1, Ordered
  <2>2. Place(r) < Place(s) \/ Place(s) < Place(r)
    BY <2>1, PlaceOrders
  <2>3. Place(r) \in Nat /\ Place(s) \in Nat
    BY <1>1, PlaceOrders
  <2> QED
    BY <2>2, <2>3
<1>3. place \in Injection(Live, 1..n)
  BY <1>2, PlaceOrders DEF Injection, IsInjective
<1>4. IsFiniteSet(1..n) /\ Cardinality(1..n) = n
  <2> HIDE DEF n
  <2> QED
    BY <1>1, FS_Interval
<1>5. place \in Surjection(Live, 1..n)
  <2> HIDE DEF place
  <2> QED
    BY <1>1, <1>3, <1>4, FS_Injection
<1>6. ASSUME NEW i \in 1..n PROVE \E r \in Live : Place(r) = i
  BY <1>5 DEF Surjection
<1>7. ASSUME NEW i \in 1..n PROVE Sorted[i] \in Live /\ Place(Sorted[i]) = i
  BY <1>6 DEF Sorted
<1>8. ASSUME NEW r \in Live PROVE Sorted[Place(r)] = r
  BY <1>2, <1>7, PlaceOrders
<1> QED
  BY <1>7, <1>8

Accs == [lo : Int, hi : Int, honored : SUBSET Requester]

LEMMA NarrowType ==
  ASSUME TypeOK, NEW acc \in Accs, NEW r \in Live
  PROVE  Narrow(acc, r) \in Accs
<1>1. board[r].min \in Int /\ board[r].max \in Int /\ r \in Requester
  BY ClaimAssumption DEF Live, TypeOK, IsRequest
<1> QED
  BY <1>1 DEF Narrow, Accs

Turns == CHOOSE turn : turn = [i \in 0..Cardinality(Live) |->
           IF i = 0 THEN Whole ELSE Narrow(turn[i - 1], Sorted[i])]

LEMMA LoopIsLastTurn == Loop = Turns[Cardinality(Live)]
BY DEF Loop, Turns

LEMMA TurnsRun ==
  ASSUME TypeOK, IsFiniteSet(Requester)
  PROVE  /\ Turns \in [0..Cardinality(Live) -> Accs] /\ Turns[0] = Whole
         /\ \A i \in 1..Cardinality(Live) : Turns[i] = Narrow(Turns[i - 1], Sorted[i])
<1> DEFINE n == Cardinality(Live)
           step == [i \in 1..n |-> [acc \in Accs |-> Narrow(acc, Sorted[i])]]
           Body(t) == [i \in 0..n |-> IF i = 0 THEN Whole ELSE Narrow(t[i - 1], Sorted[i])]
<1>1. n \in Nat /\ \A i \in 1..n : Sorted[i] \in Live
  BY SortedEnumerates, PlaceOrders
<1>2. Whole \in Accs
  BY ChannelAssumption DEF Whole, Accs
<1>3. step \in [1..n -> [Accs -> Accs]]
  BY <1>1, NarrowType
<1>4. PICK run \in [0..n -> Accs] : run[0] = Whole /\ \A i \in 1..n : run[i] = step[i][run[i - 1]]
  <2> DEFINE V == Accs
             a == Whole
  <2>1. n \in Nat /\ a \in V /\ step \in [1..n -> [V -> V]]
    BY <1>1, <1>2, <1>3
  <2> HIDE DEF n, step, V, a
  <2>2. \E run : IsRun(run, n, V, a, step)
    BY <2>1, RunExists
  <2> QED
    BY <2>2 DEF V, a, IsRun
<1>5. \A i \in 1..n : run[i - 1] \in Accs
  BY <1>1, <1>4
<1>6. \A i \in 1..n : run[i] = Narrow(run[i - 1], Sorted[i])
  BY <1>4, <1>5
<1>7. run = Body(run)
  <2> HIDE DEF n
  <2> QED
    BY <1>1, <1>4, <1>6
<1>8. Turns = Body(Turns)
  BY <1>7 DEF Turns
<1> DEFINE S == {i \in Nat : i <= n => Turns[i] \in Accs}
<1>9. Turns[0] = Whole /\ \A i \in 1..n : Turns[i] = Narrow(Turns[i - 1], Sorted[i])
  <2> HIDE DEF n
  <2> QED
    BY <1>1, <1>8
<1>10. 0 \in S
  BY <1>2, <1>9
<1>11. ASSUME NEW i \in Nat, i \in S PROVE i + 1 \in S
  <2> SUFFICES ASSUME i + 1 <= n PROVE Turns[i + 1] \in Accs
    OBVIOUS
  <2>1. Turns[i] \in Accs /\ i + 1 \in 1..n /\ (i + 1) - 1 = i
    BY <1>1, <1>11
  <2>2. Turns[i + 1] = Narrow(Turns[i], Sorted[i + 1])
    BY <1>9, <2>1
  <2> QED
    BY <1>1, <2>1, <2>2, NarrowType
<1> HIDE DEF S
<1>12. Nat \subseteq S
  BY <1>10, <1>11, Induction
<1>13. \A i \in 0..n : Turns[i] \in Accs
  BY <1>1, <1>12 DEF S
<1>14. Turns = [i \in 0..n |-> Turns[i]]
  BY <1>8
<1>15. Turns \in [0..n -> Accs]
  BY <1>13, <1>14
<1> QED
  BY <1>9, <1>15

-----------------------------------------------------------------------------
(* What the loop has done after i turns: it has decided about the first i   *)
(* requesters as Arbitrated demands, and the interval is what those honored *)
(* leave.                                                                   *)
Seen(i) == {r \in Live : Place(r) <= i}

Decided(acc, S) ==
  /\ acc \in Accs /\ acc.honored \subseteq S
  /\ acc.lo <= acc.hi
  /\ \A w \in Int : acc.lo <= w /\ w <= acc.hi <=> w \in Room(acc.honored)
  /\ \A r \in S : r \in acc.honored
                     <=> Room({s \in acc.honored : Before(s, r)} \cup {r}) # {}

(* One more request: nothing seen before comes after it.                    *)
LEMMA NarrowDecides ==
  ASSUME TypeOK, NEW S \in SUBSET Live, NEW acc, Decided(acc, S),
         NEW r \in Live \ S, \A s \in S : Before(s, r)
  PROVE  Decided(Narrow(acc, r), S \cup {r})
<1> DEFINE H == acc.honored
           lo == IF board[r].min > acc.lo THEN board[r].min ELSE acc.lo
           hi == IF board[r].max < acc.hi THEN board[r].max ELSE acc.hi
<1>1. /\ board[r].min \in Int /\ board[r].max \in Int /\ r \in Requester
      /\ Live \subseteq Requester
  BY ClaimAssumption DEF Live, TypeOK, IsRequest
<1>2. /\ acc \in Accs /\ H \subseteq S /\ acc.lo \in Int /\ acc.hi \in Int /\ acc.lo <= acc.hi
      /\ H \in SUBSET Requester
      /\ \A w \in Int : acc.lo <= w /\ w <= acc.hi <=> w \in Room(H)
      /\ \A q \in S : q \in H <=> Room({s \in H : Before(s, q)} \cup {q}) # {}
  BY DEF Decided, Accs
<1>3. lo \in Int /\ hi \in Int
  BY <1>1, <1>2
<1>4. ASSUME NEW w \in Int PROVE lo <= w /\ w <= hi <=> w \in Room(H \cup {r})
  <2>1. w \in Room(H \cup {r}) <=> w \in Room(H) /\ board[r].min <= w /\ w <= board[r].max
    BY ChannelAssumption DEF Room
  <2>2. lo <= w /\ w <= hi <=> /\ acc.lo <= w /\ w <= acc.hi
                                /\ board[r].min <= w /\ w <= board[r].max
    BY <1>1, <1>2
  <2> HIDE DEF lo, hi, H
  <2> QED
    BY <1>2, <2>1, <2>2
<1>5. {s \in H : Before(s, r)} \cup {r} = H \cup {r}
  BY <1>2
<1>6. Room(H \cup {r}) # {} <=> lo <= hi
  <2>1. Room(H \cup {r}) \subseteq Int
    BY ChannelAssumption DEF Room
  <2> HIDE DEF lo, hi, H
  <2>2. ASSUME lo <= hi PROVE lo \in Room(H \cup {r})
    BY <1>3, <1>4, <2>2
  <2>3. ASSUME NEW w \in Room(H \cup {r}) PROVE lo <= hi
    BY <1>3, <1>4, <2>1, <2>3
  <2> QED
    BY <2>2, <2>3
<1>7. ASSUME NEW q \in S PROVE {s \in H \cup {r} : Before(s, q)} = {s \in H : Before(s, q)}
  BY <1>1, Ordered
<1>8. CASE lo <= hi
  <2>1. Narrow(acc, r) = [lo |-> lo, hi |-> hi, honored |-> H \cup {r}]
    BY <1>8 DEF Narrow
  <2>2. \A q \in S \cup {r} : q \in H \cup {r}
                  <=> Room({s \in H \cup {r} : Before(s, q)} \cup {q}) # {}
    <3>1. ASSUME NEW q \in S PROVE q \in H \cup {r} <=> Room({s \in H \cup {r} : Before(s, q)} \cup {q}) # {}
      BY <1>2, <1>7
    <3>2. {s \in H \cup {r} : Before(s, r)} \cup {r} = H \cup {r}
      BY <1>5
    <3> QED
      BY <1>6, <1>8, <3>1, <3>2
  <2> HIDE DEF lo, hi, H
  <2> DEFINE new == Narrow(acc, r)
  <2>3. new.lo = lo /\ new.hi = hi /\ new.honored = H \cup {r}
    BY <2>1
  <2>4. new \in Accs /\ H \cup {r} \subseteq S \cup {r}
    BY <1>1, <1>2, <1>3, <2>1 DEF Accs
  <2> HIDE DEF new
  <2> QED
    <3>1. Decided(new, S \cup {r})
      BY <1>4, <1>8, <2>2, <2>3, <2>4 DEF Decided
    <3> QED
      BY <3>1 DEF new
<1>9. CASE ~(lo <= hi)
  <2>1. Narrow(acc, r) = acc
    BY <1>9 DEF Narrow
  <2>2. r \in H <=> Room({s \in H : Before(s, r)} \cup {r}) # {}
    BY <1>2, <1>5, <1>6, <1>9
  <2>3. \A q \in S \cup {r} : q \in H <=> Room({s \in H : Before(s, q)} \cup {q}) # {}
    BY <1>2, <2>2
  <2>4. H \subseteq S \cup {r}
    BY <1>2
  <2>5. Decided(acc, S \cup {r})
    BY <1>2, <2>3, <2>4 DEF Decided
  <2> QED
    BY <2>1, <2>5
<1> QED
  BY <1>8, <1>9

LEMMA LoopDecides ==
  ASSUME TypeOK, IsFiniteSet(Requester)
  PROVE  Decided(Loop, Live)
<1> DEFINE n == Cardinality(Live)
           S == {i \in Nat : i <= n => Decided(Turns[i], Seen(i))}
<1>1. n \in Nat /\ \A r \in Live : Place(r) \in 1..n
  BY PlaceOrders
<1>2. /\ Turns[0] = Whole
      /\ \A i \in 1..n : Turns[i] = Narrow(Turns[i - 1], Sorted[i])
      /\ \A i \in 1..n : Sorted[i] \in Live /\ Place(Sorted[i]) = i
  BY TurnsRun, SortedEnumerates
<1>3. 0 \in S
  <2>1. Seen(0) = {}
    BY <1>1 DEF Seen
  <2>2. Decided(Whole, {})
    BY ChannelAssumption DEF Decided, Whole, Accs, Room
  <2> QED
    BY <1>2, <2>1, <2>2
<1>4. ASSUME NEW i \in Nat, i \in S PROVE i + 1 \in S
  <2> SUFFICES ASSUME i + 1 <= n PROVE Decided(Turns[i + 1], Seen(i + 1))
    OBVIOUS
  <2> DEFINE r == Sorted[i + 1]
  <2>1. /\ Decided(Turns[i], Seen(i)) /\ i + 1 \in 1..n
        /\ r \in Live /\ Place(r) = i + 1
    BY <1>1, <1>2, <1>4
  <2>2. Turns[i + 1] = Narrow(Turns[i], r)
    BY <1>2, <2>1
  <2> HIDE DEF n, S
  <2>3. Seen(i) \in SUBSET Live /\ r \in Live \ Seen(i)
    BY <2>1 DEF Seen
  <2>4. \A s \in Seen(i) : Before(s, r)
    <3> TAKE s \in Seen(i)
    <3>1. Place(s) \in Nat /\ Place(s) <= i /\ s \in Live
      BY <1>1 DEF Seen
    <3>2. Place(s) < Place(r)
      BY <2>1, <3>1
    <3> QED
      BY <2>1, <3>1, <3>2, PlaceOrders
  <2>5. Seen(i + 1) = Seen(i) \cup {r}
    <3>1. ASSUME NEW s \in Live, Place(s) <= i + 1 PROVE s = r \/ Place(s) <= i
      <4>1. Place(s) \in Nat /\ (Place(s) = i + 1 => s = Sorted[i + 1])
        BY <1>1, SortedEnumerates
      <4> QED
        BY <3>1, <4>1
    <3>2. ASSUME NEW s \in Live, Place(s) <= i PROVE Place(s) <= i + 1
      BY <1>1, <3>2
    <3> QED
      BY <2>1, <3>1, <3>2 DEF Seen
  <2> HIDE DEF r
  <2> QED
    BY <2>1, <2>2, <2>3, <2>4, <2>5, NarrowDecides
<1> HIDE DEF S
<1>5. n \in S
  BY <1>1, <1>3, <1>4, Induction
<1>6. Seen(n) = Live
  BY <1>1 DEF Seen
<1> QED
  BY <1>1, <1>5, <1>6, LoopIsLastTurn DEF S

(* The verdict is unique: the first requester two verdicts differ about     *)
(* would see the same honored ranges before it.                             *)
LEMMA VerdictUnique ==
  ASSUME TypeOK, IsFiniteSet(Requester),
         NEW H \in SUBSET Live, NEW K \in SUBSET Live, Arbitrated(H), Arbitrated(K)
  PROVE  H = K
<1> DEFINE D == {Place(r) : r \in (H \ K) \cup (K \ H)}
<1> SUFFICES ASSUME (H \ K) \cup (K \ H) # {} PROVE FALSE
  OBVIOUS
<1>1. D \in SUBSET Nat /\ D # {}
  BY PlaceOrders
<1>2. PICK m \in D : \A k \in D : m <= k
  <2> HIDE DEF D
  <2> QED
    BY <1>1, LeastMember
<1>3. PICK r \in (H \ K) \cup (K \ H) : Place(r) = m
  BY <1>2
<1>4. ASSUME NEW s \in Live, Before(s, r) PROVE s \in H <=> s \in K
  <2>1. Place(s) < m /\ Place(s) \in Nat /\ m \in Nat
    BY <1>3, <1>4, PlaceOrders
  <2>2. ~(m <= Place(s))
    BY <2>1
  <2> QED
    BY <1>2, <2>2
<1>5. {s \in H : Before(s, r)} = {s \in K : Before(s, r)}
  BY <1>4
<1>6. r \in H <=> r \in K
  BY <1>3, <1>5 DEF Arbitrated
<1> QED
  BY <1>3, <1>6

LEMMA LoopIsVerdict ==
  ASSUME TypeOK, IsFiniteSet(Requester)
  PROVE  /\ Loop.honored \in SUBSET Live /\ Arbitrated(Loop.honored)
         /\ Room(Loop.honored) = Loop.lo .. Loop.hi
         /\ Loop.lo \in Int /\ Loop.hi \in Int /\ Loop.lo <= Loop.hi
<1>1. /\ Loop \in Accs /\ Loop.honored \subseteq Live /\ Loop.lo <= Loop.hi
      /\ \A w \in Int : Loop.lo <= w /\ w <= Loop.hi <=> w \in Room(Loop.honored)
      /\ \A r \in Live : r \in Loop.honored
                            <=> Room({s \in Loop.honored : Before(s, r)} \cup {r}) # {}
  BY LoopDecides DEF Decided
<1>2. Loop.lo \in Int /\ Loop.hi \in Int
  BY <1>1 DEF Accs
<1>3. Room(Loop.honored) \subseteq Int
  BY ChannelAssumption DEF Room
<1>4. Room(Loop.honored) = Loop.lo .. Loop.hi
  <2> DEFINE lo == Loop.lo
             hi == Loop.hi
             room == Room(Loop.honored)
  <2>1. \A w \in Int : lo <= w /\ w <= hi <=> w \in room
    BY <1>1
  <2>2. room \subseteq Int /\ lo \in Int /\ hi \in Int
    BY <1>2, <1>3
  <2> HIDE DEF lo, hi, room
  <2>3. ASSUME NEW w \in room PROVE w \in lo .. hi
    BY <2>1, <2>2
  <2>4. ASSUME NEW w \in lo .. hi PROVE w \in room
    BY <2>1, <2>2
  <2> QED
    <3>1. room = lo .. hi
      BY <2>3, <2>4
    <3> QED
      BY <3>1 DEF lo, hi, room
<1> QED
  BY <1>1, <1>2, <1>4 DEF Arbitrated

-----------------------------------------------------------------------------
(* The clamp of an integer to an interval is the one value of the interval  *)
(* that is nearest to it.                                                   *)
LEMMA ClampNearest ==
  ASSUME NEW w \in Int, NEW lo \in Int, NEW hi \in Int, lo <= hi, NEW v
  PROVE  Nearest(v, w, lo..hi) <=> v = Clamp(w, lo, hi)
<1>1. Clamp(w, lo, hi) \in lo..hi
  BY DEF Clamp
<1>2. ASSUME NEW u \in lo..hi, u # Clamp(w, lo, hi)
      PROVE  Distance(Clamp(w, lo, hi), w) < Distance(u, w)
  BY <1>2 DEF Clamp, Distance
<1>3. ASSUME NEW u \in lo..hi
      PROVE  Distance(u, w) \in Int
  BY DEF Distance
<1> DEFINE c == Clamp(w, lo, hi)
<1> HIDE DEF c
<1>4. \A u \in lo..hi : Distance(c, w) <= Distance(u, w)
  BY <1>1, <1>2, <1>3 DEF c
<1>5. ASSUME Nearest(v, w, lo..hi), v # c PROVE FALSE
  <2>1. v \in lo..hi /\ Distance(v, w) <= Distance(c, w)
    BY <1>1, <1>5 DEF Nearest, c
  <2>2. Distance(c, w) < Distance(v, w)
    BY <1>2, <1>5, <2>1 DEF c
  <2> QED
    BY <1>1, <1>3, <2>1, <2>2 DEF c
<1>6. Nearest(c, w, lo..hi)
  BY <1>1, <1>4 DEF Nearest, c
<1> QED
  BY <1>5, <1>6 DEF c

(* Of requesters with targets one comes first.                              *)
LEMMA OneOwner ==
  ASSUME TypeOK, IsFiniteSet(Requester), NEW H \in SUBSET Live
  PROVE  /\ Targeting(H) # {} => \E r \in H : Owns(r, H)
         /\ \A r, s \in Requester : Owns(r, H) /\ Owns(s, H) => r = s
         /\ \A r \in Requester : Owns(r, H) => r \in H /\ board[r].target \in Int
<1>1. Live \subseteq Requester
  BY DEF Live
<1>2. ASSUME Targeting(H) # {} PROVE \E r \in H : Owns(r, H)
  <2> DEFINE D == {Place(r) : r \in Targeting(H)}
  <2>1. D \in SUBSET Nat /\ D # {}
    BY <1>2, PlaceOrders DEF Targeting
  <2>2. PICK m \in D : \A k \in D : m <= k
    <3> HIDE DEF D
    <3> QED
      BY <2>1, LeastMember
  <2>3. PICK r \in Targeting(H) : Place(r) = m
    BY <2>2
  <2>4. ASSUME NEW s \in Targeting(H) \ {r} PROVE Before(r, s)
    <3>1. r \in Live /\ s \in Live /\ r # s
      BY <2>4 DEF Targeting
    <3>2. Place(r) <= Place(s)
      BY <2>2, <2>3, <2>4
    <3>3. Place(r) \in Nat /\ Place(s) \in Nat /\ ~(Place(s) < Place(r))
      BY <3>1, <3>2, PlaceOrders
    <3> QED
      BY <1>1, <3>1, <3>3, Ordered, PlaceOrders
  <2> QED
    BY <2>3, <2>4 DEF Owns, Targeting
<1>3. ASSUME NEW r \in Requester, NEW s \in Requester, Owns(r, H), Owns(s, H) PROVE r = s
  BY <1>3, Ordered DEF Owns
<1>4. ASSUME NEW r \in Requester, Owns(r, H) PROVE r \in H /\ board[r].target \in Int
  BY <1>1, <1>4, ClaimAssumption DEF Owns, Targeting, Live, TypeOK, IsRequest
<1> QED
  BY <1>2, <1>3, <1>4

(* Exactly one value is wanted.                                             *)
LEMMA OneWanted ==
  ASSUME TypeOK, IsFiniteSet(Requester), NEW H \in SUBSET Live
  PROVE  \E t \in Int : /\ t \in {board[r].target : r \in Targeting(H)} \cup {last, Default}
                        /\ \A u : Wanted(H, u) <=> u = t
<1>1. Default \in Int /\ last \in Int \cup {None} /\ H \subseteq Requester
  BY ChannelAssumption DEF TypeOK, Live
<1>2. CASE Targeting(H) # {}
  <2>1. PICK r \in H : Owns(r, H)
    BY <1>2, OneOwner
  <2>2. board[r].target \in Int /\ r \in Targeting(H) /\ Live # {}
    BY <1>1, <2>1, OneOwner DEF Owns
  <2>3. \A u : Wanted(H, u) <=> u = board[r].target
    BY <1>1, <1>2, <2>1, <2>2, OneOwner DEF Wanted
  <2> QED
    BY <2>2, <2>3
<1>3. CASE Targeting(H) = {}
  <2>1. \A r \in Requester : ~Owns(r, H)
    BY <1>3 DEF Owns
  <2> QED
    BY <1>1, <1>3, <2>1 DEF Wanted
<1> QED
  BY <1>2, <1>3

(* v is a setpoint that resolve may retain in this state.                   *)
Answer(v) ==
  \E H \in SUBSET Live :
    /\ Arbitrated(H)
    /\ \E t \in {board[r].target : r \in Targeting(H)} \cup {last, Default} :
       \E w \in Room(H) :
         /\ Wanted(H, t)
         /\ Nearest(w, t, Room(H))
         /\ v = Ramped(Deadbanded(w, ForcedBySafety(H)), ForcedBySafety(H))

OneAnswer == \E v \in Int : \A u : Answer(u) <=> u = v

LEMMA AnswerUnique ==
  ASSUME TypeOK, IsFiniteSet(Requester)
  PROVE  OneAnswer
<1> DEFINE H == Loop.honored
           lo == Loop.lo
           hi == Loop.hi
           forced == ForcedBySafety(H)
<1>1. /\ H \in SUBSET Live /\ Arbitrated(H) /\ Room(H) = lo..hi
      /\ lo \in Int /\ hi \in Int /\ lo <= hi
      /\ \A K \in SUBSET Live : Arbitrated(K) <=> K = H
  BY LoopIsVerdict, VerdictUnique
<1> HIDE DEF H, lo, hi
<1>2. PICK t \in Int : /\ t \in {board[r].target : r \in Targeting(H)} \cup {last, Default}
                       /\ \A u : Wanted(H, u) <=> u = t
  BY <1>1, OneWanted
<1> DEFINE w == Clamp(t, lo, hi)
           v == Ramped(Deadbanded(w, forced), forced)
<1>3. w \in Room(H) /\ \A u : Nearest(u, t, Room(H)) <=> u = w
  <2>1. \A u : Nearest(u, t, lo..hi) <=> u = w
    BY <1>1, <1>2, ClampNearest
  <2> QED
    BY <1>1, <2>1 DEF Nearest
<1>4. forced \in BOOLEAN
  BY DEF ForcedBySafety
<1>5. last \in Int \cup {None} /\ w \in Int
  BY <1>1, <1>3 DEF TypeOK
<1> HIDE DEF w, forced
<1>6. v \in Int
  BY <1>4, <1>5, DeadbandedChoice, RampedBetween
<1>7. ASSUME NEW u, Answer(u) PROVE u = v
  BY <1>1, <1>2, <1>3, <1>7 DEF Answer, forced
<1>8. Answer(v)
  BY <1>1, <1>2, <1>3 DEF Answer, forced
<1> QED
  BY <1>6, <1>7, <1>8 DEF OneAnswer

-----------------------------------------------------------------------------
(* Progress of the setpoint. *)

(* With ramps that are not zero the setpoint moves towards the value chosen *)
(* without passing it, unless it is there or within the deadband of it.     *)
LEMMA StepTowards ==
  ASSUME RampUp > 0, RampDown > 0, last \in Int,
         NEW w \in Int, NEW forced \in BOOLEAN,
         NEW v, v = Ramped(Deadbanded(w, forced), forced)
  PROVE  /\ v \in Int
         /\ \/ v = last /\ Near(Distance(w, last))
            \/ last < v /\ v <= w
            \/ w <= v /\ v < last
<1> USE ChannelAssumption, NoneAssumption
<1>1. CASE ~forced /\ Distance(w, last) < Deadband
  <2>1. Deadbanded(w, forced) = last
    BY <1>1 DEF Deadbanded
  <2>2. v = last
    BY <1>1, <2>1 DEF Ramped, Clamp
  <2> QED
    BY <1>1, <2>2 DEF Near
<1>2. CASE forced \/ ~(Distance(w, last) < Deadband)
  <2>1. v = Ramped(w, forced)
    BY <1>2 DEF Deadbanded
  <2>2. v = w \/ (last < v /\ v < w) \/ (w < v /\ v < last)
    BY <2>1 DEF Ramped, Clamp
  <2>3. w = last => Near(Distance(w, last))
    BY DEF Distance, Near
  <2>4. v \in Int
    BY <2>1 DEF Ramped, Clamp
  <2>5. CASE v = w /\ w = last
    BY <2>3, <2>5
  <2>6. CASE v = w /\ w # last
    BY <2>6
  <2>7. CASE v # w
    BY <2>2, <2>4, <2>7
  <2> QED
    BY <2>5, <2>6, <2>7
<1> QED
  BY <1>1, <1>2

(* Moving towards a value of a range is coming closer to the range.         *)
LEMMA CloserToRange ==
  ASSUME NEW q, q.min \in Int, q.max \in Int,
         NEW w \in Int, q.min <= w, w <= q.max,
         NEW old \in Int, NEW v \in Int,
         \/ v = old /\ Near(Distance(w, old))
         \/ old < v /\ v <= w
         \/ w <= v /\ v < old
  PROVE  Closer(Away(v, q), Away(old, q))
<1>1. CASE v = old /\ Near(Distance(w, old))
  <2>1. Near(Away(old, q))
    BY <1>1, ChannelAssumption DEF Near, Distance, Away
  <2> QED
    BY <1>1, <2>1 DEF Closer
<1>2. CASE (old < v /\ v <= w) \/ (w <= v /\ v < old)
  BY <1>2, ChannelAssumption DEF Closer, Near, Away
<1> QED
  BY <1>1, <1>2

LEMMA CloserToDefault ==
  ASSUME NEW w \in Int, w = Clamp(Default, PMin, PMax),
         NEW old \in Int, NEW v \in Int,
         \/ v = old /\ Near(Distance(w, old))
         \/ old < v /\ v <= w
         \/ w <= v /\ v < old
  PROVE  Closer(FromDefault(v), FromDefault(old))
<1>1. CASE v = old /\ Near(Distance(w, old))
  BY <1>1, ChannelAssumption DEF Closer, Near, Distance, FromDefault
<1>2. CASE (old < v /\ v <= w) \/ (w <= v /\ v < old)
  BY <1>2 DEF Closer, FromDefault, Distance
<1> QED
  BY <1>1, <1>2

(* Every resolution comes strictly closer to each range it honors, or rests *)
(* within the deadband of it, for all claims and limits and all ramps that  *)
(* are not zero; a channel with a ramp of zero is one that never moves.     *)
THEOREM ApproachHolds ==
  ASSUME RampUp > 0, RampDown > 0
  PROVE  Spec => Approaches
<1>1. ASSUME TypeOK, Resolve, last # None
      PROVE  /\ \A r \in Live : honored'[r] = "honored"
                               => Closer(Away(last', board[r]), Away(last, board[r]))
             /\ Live = {} => Closer(FromDefault(last'), FromDefault(last))
  <2>1. PICK H \in SUBSET Live : \E t \in {board[r].target : r \in Targeting(H)} \cup {last, Default} :
                               \E w \in Room(H) :
          /\ NoteHonored(H) /\ Wanted(H, t) /\ Nearest(w, t, Room(H))
          /\ last' = Ramped(Deadbanded(w, ForcedBySafety(H)), ForcedBySafety(H))
    BY <1>1 DEF Resolve
  <2>2. PICK t \in {board[r].target : r \in Targeting(H)} \cup {last, Default} : \E w \in Room(H) :
          /\ NoteHonored(H) /\ Wanted(H, t) /\ Nearest(w, t, Room(H))
          /\ last' = Ramped(Deadbanded(w, ForcedBySafety(H)), ForcedBySafety(H))
    BY <2>1
  <2>3. PICK w \in Room(H) :
          /\ NoteHonored(H) /\ Wanted(H, t) /\ Nearest(w, t, Room(H))
          /\ last' = Ramped(Deadbanded(w, ForcedBySafety(H)), ForcedBySafety(H))
    BY <2>2
  <2>4. w \in Int /\ last \in Int /\ ForcedBySafety(H) \in BOOLEAN
    BY <1>1, ChannelAssumption DEF Room, TypeOK, ForcedBySafety
  <2>5. /\ last' \in Int
        /\ \/ last' = last /\ Near(Distance(w, last))
           \/ last < last' /\ last' <= w
           \/ w <= last' /\ last' < last
    BY <2>3, <2>4, StepTowards
  <2>6. ASSUME NEW r \in Live, honored'[r] = "honored"
        PROVE  Closer(Away(last', board[r]), Away(last, board[r]))
    <3>1. r \in H
      BY <2>3, <2>6 DEF NoteHonored, Live
    <3>2. board[r].min <= w /\ w <= board[r].max
      BY <2>3, <3>1 DEF Room
    <3>3. board[r].min \in Int /\ board[r].max \in Int
      BY <1>1, ClaimAssumption DEF Live, TypeOK, IsRequest
    <3> QED
      BY <2>4, <2>5, <3>2, <3>3, CloserToRange
  <2>7. ASSUME Live = {}
        PROVE  Closer(FromDefault(last'), FromDefault(last))
    <3>1. H = {} /\ t = Default
      BY <2>3, <2>7 DEF Wanted, Owns, Targeting
    <3>2. Room(H) = PMin..PMax
      BY <3>1 DEF Room
    <3>3. w = Clamp(Default, PMin, PMax)
      BY <2>3, <3>1, <3>2, ChannelAssumption, ClampNearest
    <3> QED
      BY <2>4, <2>5, <3>3, CloserToDefault
  <2> QED
    BY <2>6, <2>7
<1> QED
  BY <1>1, TypeCorrect, PTL DEF Approaches

-----------------------------------------------------------------------------
(* What the loop of resolve computes, request by request, is the verdict    *)
(* Arbitrated describes and no other, for every number of requesters, every *)
(* claim and every envelope: by induction over the turns of the loop.       *)
THEOREM LoopComputesVerdict ==
  ASSUME IsFiniteSet(Requester)
  PROVE  Spec => []LoopAgrees
<1>1. TypeOK => LoopAgrees
  BY LoopIsVerdict, VerdictUnique DEF LoopAgrees
<1> QED
  BY <1>1, TypeCorrect, PTL

(* resolve is a function of the board and the retained setpoint: in every   *)
(* state there is exactly one value it may retain, so it never lacks an      *)
(* answer, and a resolution retains that value.                              *)
THEOREM ResolutionDetermined ==
  ASSUME IsFiniteSet(Requester)
  PROVE  Spec => /\ []OneAnswer
                 /\ [][Resolve => \A u : Answer(u) <=> u = last']_vars
<1>1. TypeOK => OneAnswer
  BY AnswerUnique
<1>2. ASSUME TypeOK, Resolve PROVE \A u : Answer(u) <=> u = last'
  <2>1. Answer(last')
    BY <1>2 DEF Resolve, Answer
  <2> QED
    BY <1>1, <1>2, <2>1 DEF OneAnswer
<1> QED
  BY <1>1, <1>2, TypeCorrect, PTL

=============================================================================
