--------------------------- MODULE ControlProofs ---------------------------
(***************************************************************************)
(* Proofs about ControlLoop, for any site, gains, unit, loads and resource:*)
(* types; that whatever the tags say no controller posts a claim that      *)
(* ActivePowerRequest refuses; that the setpoint keeps to the envelope and *)
(* the gradient and that a trip lands; and, for gains whose back-          *)
(* calculation outweighs what a run adds, that the memory of the PID is    *)
(* bounded.  MemoryInv is the inductive invariant of the last: what the    *)
(* memory may grow by depends on how far tags, setpoint and the request    *)
(* of the previous run can be from each other.                             *)
(***************************************************************************)
EXTENDS ControlLoop, TLAPS

USE DEF fixed, world, plant, tags, regulation, compliance, channel

USE SiteAssumption, GainAssumption, UnitAssumption, PlantAssumption, NoneAssumption

-----------------------------------------------------------------------------
(* Products and quotients of naturals are monotone. *)
LEMMA TimesMono ==
  ASSUME NEW a \in Int, NEW b \in Int, NEW c \in Nat, a <= b
  PROVE  a * c <= b * c /\ c * a <= c * b /\ a * c \in Int /\ b * c \in Int
<1>1. (b - a) * c >= 0
  OBVIOUS
<1> QED BY <1>1

LEMMA QuotientLeast ==
  ASSUME NEW a \in Int, NEW k \in Int, NEW q \in Nat \ {0}, q * k <= a
  PROVE  k <= a \div q
<1> DEFINE d == a \div q
<1>1. d \in Int /\ a < q * d + q
  OBVIOUS
<1> HIDE DEF d
<1>2. ASSUME d + 1 <= k PROVE FALSE
  <2>1. q * (d + 1) <= q * k
    BY <1>1, <1>2, TimesMono
  <2> QED BY <1>1, <2>1
<1> QED BY <1>1, <1>2 DEF d

LEMMA QuotientMost ==
  ASSUME NEW a \in Int, NEW k \in Int, NEW q \in Nat \ {0}, a <= q * k
  PROVE  a \div q <= k
<1> DEFINE d == a \div q
<1>1. d \in Int /\ q * d <= a
  OBVIOUS
<1> HIDE DEF d
<1>2. ASSUME k + 1 <= d PROVE FALSE
  <2>1. q * (k + 1) <= q * d
    BY <1>1, <1>2, TimesMono
  <2> QED BY <1>1, <2>1
<1> QED BY <1>1, <1>2 DEF d

LEMMA QuotientMono ==
  ASSUME NEW a \in Int, NEW b \in Int, NEW q \in Nat \ {0}, a <= b
  PROVE  a \div q <= b \div q
<1>1. a \div q \in Int /\ q * (a \div q) <= a
  OBVIOUS
<1>2. q * (a \div q) <= b
  BY <1>1
<1> QED BY <1>1, <1>2, QuotientLeast

-----------------------------------------------------------------------------
(* The arithmetic of the loop stays in the integers, and a clamp ends up    *)
(* between its bounds.                                                      *)
LEMMA ClampBetween ==
  ASSUME NEW w \in Int, NEW lo \in Int, NEW hi \in Int
  PROVE  /\ A!Clamp(w, lo, hi) \in Int
         /\ lo <= hi => lo <= A!Clamp(w, lo, hi) /\ A!Clamp(w, lo, hi) <= hi
BY DEF A!Clamp

LEMMA ScaledType ==
  ASSUME NEW n \in Int, NEW x \in Int
  PROVE  Scaled(n, x) \in Int
<1> DEFINE a == n * (-x)
           b == n * x
<1>1. a \in Int /\ b \in Int
  OBVIOUS
<1> HIDE DEF a, b
<1>2. a \div Den \in Int /\ b \div Den \in Int
  BY <1>1
<1>3. -(a \div Den) \in Int
  BY <1>2
<1> QED BY <1>2, <1>3 DEF Scaled, a, b

LEMMA BetaType ==
  ASSUME NEW d \in 1..MaxLag
  PROVE  Beta(d) \in Int
<1> DEFINE a == d * Den
<1>1. a \in Int
  OBVIOUS
<1> HIDE DEF a
<1>2. a \div Tt \in Int
  BY <1>1
<1> QED BY <1>2 DEF Beta, a

(* What the PID computes are integers. *)
LEMMA PidTypes ==
  ASSUME TypeOK, NEW error \in Int, NEW lo \in Int, NEW hi \in Int
  PROVE  /\ Tracked \in Int
         /\ Unclamped(Tracked, error) \in Int
         /\ Output(Tracked, error, lo, hi) \in Int
         /\ Integral(Tracked, error, lo, hi) \in Int
<1>1. Beta(dt) \in Int
  BY BetaType DEF TypeOK
<1>2. Tracked \in Int
  <2>1. CASE requested = None
    BY <2>1 DEF Tracked, TypeOK
  <2>2. CASE requested # None
    <3>1. setpoint - requested \in Int
      BY <2>2 DEF TypeOK
    <3>2. Scaled(Beta(dt), setpoint - requested) \in Int
      BY <1>1, <3>1, ScaledType
    <3> QED BY <3>2 DEF Tracked, TypeOK
  <2> QED BY <2>1, <2>2
<1>3. Ki * dt \in Int /\ dt \in Int
  BY DEF TypeOK
<1>4. Candidate(Tracked, error) \in Int
  BY <1>2, <1>3, ScaledType DEF Candidate
<1>5. Unclamped(Tracked, error) \in Int
  BY <1>4, ScaledType DEF Unclamped
<1>6. Output(Tracked, error, lo, hi) \in Int
  BY <1>5, ClampBetween DEF Output
<1>7. Scaled(Beta(dt), Output(Tracked, error, lo, hi) - Unclamped(Tracked, error)) \in Int
  BY <1>1, <1>5, <1>6, ScaledType
<1> QED BY <1>2, <1>4, <1>5, <1>6, <1>7 DEF Integral

(* A run of the regulation requests something inside its band. *)
LEMMA RegulatedInBand ==
  ASSUME TypeOK, NEW feedforward \in Int, NEW error \in Int,
         NEW lo \in Int, NEW hi \in Int, lo <= hi,
         Regulated(feedforward, error, lo, hi)
  PROVE  /\ requested' \in Int /\ lo <= requested' /\ requested' <= hi
         /\ integral' \in Int
<1>1. lo - feedforward \in Int /\ hi - feedforward \in Int
  OBVIOUS
<1>2. /\ Output(Tracked, error, lo - feedforward, hi - feedforward) \in Int
      /\ Integral(Tracked, error, lo - feedforward, hi - feedforward) \in Int
  BY <1>1, PidTypes
<1> DEFINE trim == IF requested = None THEN 0
                   ELSE Output(Tracked, error, lo - feedforward, hi - feedforward)
<1>3. trim \in Int
  BY <1>2
<1>4. requested' = A!Clamp(feedforward + trim, lo, hi)
  BY DEF Regulated
<1> HIDE DEF trim
<1>5. requested' \in Int /\ lo <= requested' /\ requested' <= hi
  BY <1>3, <1>4, ClampBetween
<1>6. integral' \in Int
  BY <1>2 DEF Regulated, TypeOK
<1> QED BY <1>5, <1>6

-----------------------------------------------------------------------------
(* What the controllers make of the tags. *)
LEMMA BandTypes ==
  ASSUME TypeOK
  PROVE  /\ gridTag \in Int /\ unitTag \in Int /\ site.import \in Nat
         /\ Cap \in Nat /\ Floor \in Nat
         /\ FloorInBand \in Nat /\ FloorInBand <= Cap
         /\ Target \in Int
         /\ HeadroomCap \in Int
<1>1. gridTag \in Int /\ unitTag \in Nat /\ site.import \in Nat
  BY DEF TypeOK
<1>2. Cap \in Nat /\ Floor \in Nat
  BY <1>1 DEF Cap, Floor, NonNeg
<1>3. FloorInBand \in Nat /\ FloorInBand <= Cap
  BY <1>2 DEF FloorInBand, Least
<1>4. Target \in Int
  BY <1>1 DEF Target
<1> DEFINE a == NonNeg(unitTag) * HeadroomPct
<1>5. NonNeg(unitTag) \in Int /\ a \in Int
  BY <1>1 DEF NonNeg
<1> HIDE DEF a
<1>6. a \div 100 \in Int
  BY <1>5
<1>7. HeadroomCap \in Int
  BY <1>5, <1>6 DEF HeadroomCap, Most, a
<1> QED BY <1>1, <1>2, <1>3, <1>4, <1>7

LEMMA RequestAccepted ==
  ASSUME NEW lo \in Int, NEW hi \in Int, NEW t \in Int \cup {None},
         lo <= hi, t # None => lo <= t /\ t <= hi
  PROVE  A!IsRequest(Request(lo, hi, t))
BY DEF A!IsRequest, Request

LEMMA NoCapAbove ==
  ASSUME NEW w \in Int
  PROVE  NoCap(w) \in Int /\ w <= NoCap(w)
BY DEF NoCap, Most

(* The claims of one run of the tasks. *)
LEMMA ExecuteAccepted ==
  ASSUME TypeOK, Execute
  PROVE  /\ requested' \in Int \cup {None} /\ integral' \in Int
         /\ \A r \in Requester : board'[r] # None => A!IsRequest(board'[r])
<1>1. /\ gridTag \in Int /\ unitTag \in Int /\ site.import \in Nat
      /\ Cap \in Nat /\ Floor \in Nat
      /\ FloorInBand \in Nat /\ FloorInBand <= Cap
      /\ Target \in Int /\ HeadroomCap \in Int
  BY BandTypes
<1>2. /\ requested' \in Int \cup {None} /\ integral' \in Int
      /\ RegulationClaim # None => A!IsRequest(RegulationClaim)
  <2>1. CASE RegulateExport
    <3> DEFINE feedforward == A!Clamp(unitTag + gridTag - Target, FloorInBand, Cap)
    <3>1. feedforward \in Int /\ gridTag - Target \in Int
      BY <1>1, ClampBetween
    <3>2. Regulated(feedforward, gridTag - Target, FloorInBand, Cap)
      BY <2>1 DEF RegulateExport
    <3> HIDE DEF feedforward
    <3>3. /\ requested' \in Int /\ FloorInBand <= requested' /\ requested' <= Cap
          /\ integral' \in Int
      BY <1>1, <3>1, <3>2, RegulatedInBand
    <3>4. RegulationClaim = Request(FloorInBand, Cap, requested')
      BY <2>1, <3>3 DEF RegulationClaim, RegulateExport
    <3> QED BY <1>1, <3>3, <3>4, RequestAccepted
  <2>2. CASE RegulateImportReleased
    BY <2>2 DEF RegulateImportReleased, RegulationClaim
  <2>3. CASE RegulateImport
    <3>1. gridTag - site.import \in Int
      BY <1>1
    <3>2. Unclamped(Tracked, gridTag - site.import) \in Int
      BY <3>1, PidTypes
    <3>3. Free \in Int /\ Floor <= Free
      BY <1>1, <3>2 DEF Free, NoCap, Most, NonNeg
    <3>4. Regulated(Floor, gridTag - site.import, Floor, Free)
      BY <2>3 DEF RegulateImport
    <3>5. requested' \in Int /\ Floor <= requested' /\ integral' \in Int
      BY <1>1, <3>1, <3>3, <3>4, RegulatedInBand
    <3>6. NoCap(requested') \in Int /\ requested' <= NoCap(requested')
      BY <3>5, NoCapAbove
    <3>7. RegulationClaim = Request(Floor, NoCap(requested'), requested')
      BY <2>3, <3>5 DEF RegulationClaim, RegulateImport
    <3> QED BY <1>1, <3>5, <3>6, <3>7, RequestAccepted
  <2> QED BY <2>1, <2>2, <2>3 DEF Execute
<1>3. SafetyClaim # None => A!IsRequest(SafetyClaim)
  BY RequestAccepted DEF SafetyClaim
<1>4. /\ NoFloor(Cap) \in Int /\ NoFloor(Cap) <= Cap
      /\ NoFloor(HeadroomCap) \in Int /\ NoFloor(HeadroomCap) <= HeadroomCap
  BY <1>1 DEF NoFloor, Least
<1>5. ExportClaim # None => A!IsRequest(ExportClaim)
  <2>1. Cap \in Int
    BY <1>1
  <2>2. A!IsRequest(Request(NoFloor(Cap), Cap, None))
    BY <2>1, <1>4, RequestAccepted
  <2> QED BY <2>2 DEF ExportClaim
<1>6. A!IsRequest(HeadroomClaim)
  BY <1>1, <1>4, RequestAccepted DEF HeadroomClaim
<1>7. board' = [safety |-> SafetyClaim, export |-> ExportClaim,
                regulation |-> RegulationClaim, headroom |-> HeadroomClaim]
  BY DEF Execute
<1>8. ASSUME NEW r \in Requester
      PROVE  board'[r] # None => A!IsRequest(board'[r])
  BY <1>2, <1>3, <1>5, <1>6, <1>7 DEF Requester
<1> QED BY <1>2, <1>8

(* The resolution leaves integers behind and only ever removes claims. *)
LEMMA ResolveTypes ==
  ASSUME TypeOK, A!Resolve
  PROVE  /\ last' \in Int /\ setpoint' \in Int
         /\ \A r \in Requester : board'[r] # None => board'[r] = board[r]
<1>1. PICK H \in SUBSET A!Live : \E w \in A!Room(H) :
        last' = A!Ramped(A!Deadbanded(w, A!ForcedBySafety(H)), A!ForcedBySafety(H))
  BY DEF A!Resolve
<1>2. PICK w \in A!Room(H) :
        last' = A!Ramped(A!Deadbanded(w, A!ForcedBySafety(H)), A!ForcedBySafety(H))
  BY <1>1
<1>3. w \in Int /\ last \in Int \cup {None}
  BY DEF A!Room, TypeOK
<1> DEFINE v == A!Deadbanded(w, A!ForcedBySafety(H))
<1>4. v \in Int
  BY <1>3 DEF A!Deadbanded
<1> HIDE DEF v
<1>5. A!Ramped(v, A!ForcedBySafety(H)) \in Int
  BY <1>3, <1>4 DEF A!Ramped, A!Clamp
<1>6. last' \in Int
  BY <1>2, <1>5 DEF v
<1>7. setpoint' \in Int
  BY <1>6, ClampBetween DEF A!Resolve
<1>8. board' = [r \in Requester |-> IF r \in A!Live THEN board[r] ELSE None]
  BY DEF A!Resolve
<1> QED BY <1>6, <1>7, <1>8

-----------------------------------------------------------------------------
(* The unit stays within its rating. *)
LEMMA MoveWithin ==
  ASSUME TypeOK
  PROVE  Toward(unit, Goal) \in 0..PMax
<1>1. avail \in Nat /\ unit \in 0..PMax
  BY DEF TypeOK
<1> DEFINE c == register * Count
<1>2. c \in Int
  BY DEF TypeOK
<1> HIDE DEF c
<1>3. Goal = NonNeg(Least(avail, IF obeys THEN Least(c, PMax) ELSE PMax))
  BY DEF Goal, c
<1>4. Goal \in 0..PMax
  BY <1>1, <1>2, <1>3 DEF NonNeg, Least
<1> QED BY <1>1, <1>4 DEF Toward

LEMMA EncodedType ==
  ASSUME NEW w \in Int
  PROVE  Encoded(w) \in Int
<1>1. (-w) \div Count \in Int /\ w \div Count \in Int
  OBVIOUS
<1> QED BY <1>1 DEF Encoded

LEMMA InitTypes == Init => TypeOK /\ ClaimsAccepted
<1> SUFFICES ASSUME Init PROVE TypeOK /\ ClaimsAccepted
  OBVIOUS
<1>1. register \in Int
  BY DEF Init
<1>2. TypeOK
  <2>1. obeys \in BOOLEAN /\ swift \in BOOLEAN /\ trip \in BOOLEAN /\ violating \in BOOLEAN
    BY Zenon DEF Init
  <2>2. /\ site \in Sites /\ load \in Loads /\ avail \in Avails /\ budget \in 0..MaxEvents
        /\ unit \in 0..PMax /\ gridTag \in Int /\ unitTag \in 0..PMax /\ dt \in 1..MaxLag
        /\ integral \in Int /\ requested \in Int \cup {None}
        /\ last \in Int \cup {None} /\ setpoint \in Int
        /\ over \in 0..Window \cup {None} /\ phase = "plant"
    BY DEF Init
  <2> QED BY <1>1, <2>1, <2>2 DEF TypeOK
<1>3. ClaimsAccepted
  BY DEF Init, ClaimsAccepted
<1> QED BY <1>2, <1>3

LEMMA TypeStep == TypeOK /\ [Next]_vars => TypeOK'
<1> SUFFICES ASSUME TypeOK, [Next]_vars PROVE TypeOK'
  OBVIOUS
<1>1. CASE Disturb
  <2>1. trip' \in BOOLEAN
    BY <1>1, Zenon DEF TypeOK, Disturb, world
  <2>2. load' \in Loads /\ avail' \in Avails /\ budget' \in 0..MaxEvents
    BY <1>1 DEF TypeOK, Disturb, Spend
  <2> QED BY <1>1, <2>1, <2>2 DEF TypeOK, Disturb
<1>2. CASE Move
  <2>1. unit' \in 0..PMax
    BY <1>2, MoveWithin DEF Move
  <2> QED BY <1>2, <2>1 DEF TypeOK, Move
<1>3. CASE Poll
  BY <1>3 DEF TypeOK, Poll, PollOf
<1>4. CASE PollLate
  BY <1>4 DEF TypeOK, PollLate, PollOf, Spend
<1>5. CASE Execute
  <2>1. requested' \in Int \cup {None} /\ integral' \in Int
    BY <1>5, ExecuteAccepted
  <2>2. over' \in 0..Window \cup {None}
    BY <1>5 DEF TypeOK, Execute, Overshoot, Least
  <2>3. violating' \in BOOLEAN
    BY <1>5 DEF Execute
  <2> QED BY <1>5, <2>1, <2>2, <2>3 DEF TypeOK, Execute
<1>6. CASE Resolve
  <2>1. last' \in Int /\ setpoint' \in Int
    BY <1>6, ResolveTypes DEF Resolve
  <2>2. phase' = "idle"
    BY <1>6 DEF Resolve, A!Resolve
  <2> QED BY <1>6, <2>1, <2>2 DEF TypeOK, Resolve
<1>7. CASE Flush
  <2>1. register' \in Int
    BY <1>7, EncodedType DEF Flush, TypeOK
  <2> QED BY <1>7, <2>1 DEF TypeOK, Flush
<1>8. CASE FlushLate
  BY <1>8 DEF TypeOK, FlushLate, Spend
<1>9. CASE UNCHANGED vars
  BY <1>9 DEF TypeOK, vars
<1> QED BY <1>1, <1>2, <1>3, <1>4, <1>5, <1>6, <1>7, <1>8, <1>9 DEF Next, Cycle

(* Types, for every site and every plant. *)
THEOREM TypeCorrect == Spec => []TypeOK
BY InitTypes, TypeStep, PTL DEF Spec

(* No tag value, stale, torn or extreme, makes a controller post a claim    *)
(* that is refused.                                                         *)
THEOREM ClaimsHold == Spec => []ClaimsAccepted
<1>1. TypeOK /\ ClaimsAccepted /\ [Next]_vars => ClaimsAccepted'
  <2> SUFFICES ASSUME TypeOK, ClaimsAccepted, [Next]_vars,
                      NEW r \in Requester, board'[r] # None
               PROVE  A!IsRequest(board'[r])
    BY DEF ClaimsAccepted, A!IsRequest
  <2>1. CASE Execute
    BY <2>1, ExecuteAccepted
  <2>2. CASE Resolve
    BY <2>2, ResolveTypes DEF Resolve, ClaimsAccepted
  <2>3. CASE board' = board
    BY <2>3 DEF ClaimsAccepted
  <2>4. Execute \/ Resolve \/ board' = board
    BY DEF Next, Cycle, Disturb, Move, Poll, PollLate, PollOf, Flush, FlushLate, vars
  <2> QED BY <2>1, <2>2, <2>3, <2>4
<1> QED BY <1>1, InitTypes, TypeCorrect, PTL DEF Spec

-----------------------------------------------------------------------------
(* The memory of the PID.  A product with a gain is odd and monotone.       *)
LEMMA ScaledOdd ==
  ASSUME NEW n \in Nat, NEW x \in Int
  PROVE  Scaled(n, -x) = -Scaled(n, x)
<1>1. n * 0 = 0 /\ 0 \div Den = 0
  OBVIOUS
<1>2. CASE x = 0
  BY <1>1, <1>2 DEF Scaled
<1>3. CASE x # 0
  <2> DEFINE a == (n * x) \div Den
             b == (n * (-x)) \div Den
  <2>1. a \in Int /\ b \in Int
    <3>1. n * x \in Int /\ n * (-x) \in Int
      OBVIOUS
    <3> QED BY <3>1
  <2>2. -(-x) = x
    OBVIOUS
  <2>3. x < 0 => Scaled(n, x) = -b /\ Scaled(n, -x) = b
    BY DEF Scaled
  <2>4. x > 0 => Scaled(n, x) = a /\ Scaled(n, -x) = -a
    BY <2>2 DEF Scaled
  <2> HIDE DEF a, b
  <2> QED BY <1>3, <2>1, <2>3, <2>4
<1> QED BY <1>2, <1>3

LEMMA ScaledMono ==
  ASSUME NEW n \in Nat, NEW m \in Nat, n <= m, NEW x \in Nat, NEW y \in Nat, x <= y
  PROVE  0 <= Scaled(n, x) /\ Scaled(n, x) <= Scaled(m, y)
<1>1. n * x <= m * y /\ 0 <= n * x /\ n * x \in Int /\ m * y \in Int
  <2>1. n * x <= n * y /\ n * y <= m * y
    BY TimesMono
  <2>2. 0 * x <= n * x
    BY TimesMono
  <2> QED BY <2>1, <2>2
<1>2. (n * x) \div Den <= (m * y) \div Den
  BY <1>1, QuotientMono
<1>3. 0 <= (n * x) \div Den
  BY <1>1, QuotientLeast
<1> QED BY <1>2, <1>3 DEF Scaled

LEMMA ScaledNat ==
  ASSUME NEW n \in Nat, NEW x \in Nat
  PROVE  Scaled(n, x) \in Nat
BY ScaledMono, ScaledType

(* Negative arguments too. *)
LEMMA ScaledSize ==
  ASSUME NEW n \in Nat, NEW m \in Nat, n <= m, NEW x \in Int, NEW y \in Nat,
         -y <= x, x <= y
  PROVE  /\ Scaled(n, x) \in Int /\ Scaled(m, y) \in Nat
         /\ -Scaled(m, y) <= Scaled(n, x) /\ Scaled(n, x) <= Scaled(m, y)
         /\ x >= 0 => Scaled(n, x) >= 0
         /\ x <= 0 => Scaled(n, x) <= 0
<1>1. Scaled(n, x) \in Int /\ Scaled(m, y) \in Int
  BY ScaledType
<1>2. x >= 0 => 0 <= Scaled(n, x) /\ Scaled(n, x) <= Scaled(m, y)
  BY ScaledMono
<1>3. x <= 0 => 0 <= Scaled(n, -x) /\ Scaled(n, -x) <= Scaled(m, y)
  BY ScaledMono
<1>4. Scaled(n, -x) = -Scaled(n, x)
  BY ScaledOdd
<1> QED BY <1>1, <1>2, <1>3, <1>4

(* A share of a difference is no larger than the difference. *)
LEMMA ScaledShare ==
  ASSUME NEW n \in 0..Den, NEW x \in Int
  PROVE  /\ x >= 0 => Scaled(n, x) \in 0..x
         /\ x <= 0 => Scaled(n, x) \in x..0
<1>1. ASSUME NEW w \in Nat PROVE Scaled(n, w) \in 0..w
  <2>1. n * w <= Den * w
    BY TimesMono
  <2>2. (n * w) \div Den <= w
    BY <2>1, QuotientMost
  <2>3. 0 <= Scaled(n, w) /\ Scaled(n, w) \in Int
    BY ScaledMono, ScaledType
  <2> QED BY <2>2, <2>3 DEF Scaled
<1>2. x >= 0 => Scaled(n, x) \in 0..x
  BY <1>1
<1>3. x <= 0 => Scaled(n, -x) \in 0..-x
  BY <1>1
<1>4. Scaled(n, -x) = -Scaled(n, x) /\ Scaled(n, x) \in Int
  BY ScaledOdd, ScaledType
<1> QED BY <1>2, <1>3, <1>4

(* A share of b/Den of what top + gain exceeds held by is as much as gain.  *)
Outweighs(b, top, gain, held) == held <= top /\ b * (top + gain - held) >= Den * gain

LEMMA ShareWithin ==
  ASSUME NEW n \in 0..Den, NEW m \in Nat, NEW x \in -m..m
  PROVE  Scaled(n, x) \in -m..m
<1>1. x \in Int /\ (x >= 0 \/ x <= 0)
  OBVIOUS
<1> QED BY <1>1, ScaledShare

(* c, pulled by a share n/Den towards z.                                    *)
Pulled(n, c, z) == c + Scaled(n, z - c)

LEMMA PulledType ==
  ASSUME NEW n \in 0..Den, NEW c \in Int, NEW z \in Int
  PROVE  Pulled(n, c, z) \in Int
<1> DEFINE x == z - c
<1>1. x \in Int
  OBVIOUS
<1> HIDE DEF x
<1>2. Scaled(n, x) \in Int
  BY <1>1, ScaledType
<1> QED BY <1>2 DEF Pulled, x

(* Towards a z which is at most held that undoes a growth of up to gain     *)
(* beyond the bound top.                                                    *)
LEMMA PullDown ==
  ASSUME NEW n \in 0..Den, NEW b \in Nat, b <= n, NEW c \in Int, NEW z \in Int,
         NEW top \in Nat, NEW gain \in Nat, NEW held \in Nat,
         c <= top + gain, z <= held,
         Outweighs(b, top, gain, held)
  PROVE  Pulled(n, c, z) <= top
<1>1. CASE z >= c
  BY <1>1, ScaledShare DEF Outweighs, Pulled
<1>2. CASE z < c
  <2> DEFINE x == c - z
             k == c - top
  <2>1. x \in Nat /\ z - c = -x /\ x >= k + (top - held)
    BY <1>2
  <2> HIDE DEF x
  <2>2. Scaled(n, z - c) = -Scaled(n, x) /\ Scaled(n, x) \in Nat
    BY <2>1, ScaledOdd, ScaledShare
  <2>3. CASE k <= 0
    BY <2>1, <2>2, <2>3 DEF Pulled
  <2>4. CASE k > 0
    <3>1. k \in Nat /\ k <= gain
      BY <2>4
    <3> HIDE DEF k
    <3> DEFINE s == top - held
    <3>2. s \in Int /\ b * (gain + s) >= Den * gain /\ x >= k + s
      BY <2>1 DEF Outweighs
    <3> HIDE DEF s
    <3>3. b * (k + s) >= Den * k
      <4>1. (gain - k) * b <= (gain - k) * Den
        BY <3>1, TimesMono
      <4>2. /\ b * (k + s) = b * (gain + s) - (gain - k) * b
            /\ (gain - k) * Den = Den * gain - Den * k
        BY <3>1, <3>2
      <4> QED BY <3>1, <3>2, <4>1, <4>2
    <3>4. b * x >= b * (k + s)
      BY <2>1, <3>1, <3>2, TimesMono
    <3>5. n * x >= b * x
      BY <2>1, TimesMono
    <3>6. Den * k <= n * x
      BY <2>1, <3>1, <3>2, <3>3, <3>4, <3>5
    <3>7. k <= (n * x) \div Den
      BY <2>1, <3>1, <3>6, QuotientLeast
    <3>8. k <= Scaled(n, x)
      BY <2>1, <3>7 DEF Scaled
    <3> QED BY <2>2, <3>1, <3>8, <2>1 DEF k, Pulled
  <2> QED BY <2>3, <2>4
<1> QED BY <1>1, <1>2

(* The same from below. *)
LEMMA PullUp ==
  ASSUME NEW n \in 0..Den, NEW b \in Nat, b <= n, NEW c \in Int, NEW z \in Int,
         NEW top \in Nat, NEW gain \in Nat, NEW held \in Nat,
         c >= -(top + gain), z >= -held,
         Outweighs(b, top, gain, held)
  PROVE  Pulled(n, c, z) >= -top
<1> DEFINE d == -c
           y == -z
           x == z - c
<1>1. /\ x \in Int /\ y - d = -x
      /\ d \in Int /\ y \in Int /\ d <= top + gain /\ y <= held /\ n \in Nat
  OBVIOUS
<1> HIDE DEF d, y, x
<1>2. Pulled(n, d, y) <= top
  BY <1>1, PullDown
<1>3. Scaled(n, -x) = -Scaled(n, x)
  BY <1>1, ScaledOdd
<1>4. Scaled(n, x) \in Int
  BY <1>1, ScaledType
<1> QED BY <1>1, <1>2, <1>3, <1>4 DEF d, x, Pulled

(* The tracking factor. *)
LEMMA BetaBounds ==
  ASSUME NEW d \in 1..MaxLag
  PROVE  Beta(d) \in 0..Den /\ Beta(1) \in Nat /\ Beta(1) <= Beta(d)
<1>1. 1 * Den <= d * Den /\ d * Den \in Nat /\ 1 * Den \in Nat
  BY TimesMono
<1>2. (1 * Den) \div Tt <= (d * Den) \div Tt /\ 0 <= (1 * Den) \div Tt
  BY <1>1, QuotientMono, QuotientLeast
<1>3. d < Tt => (d * Den) \div Tt <= Den
  <2>1. d < Tt => d * Den <= Tt * Den
    BY TimesMono
  <2> QED BY <1>1, <2>1, QuotientMost
<1>4. (1 * Den) \div Tt \in Int /\ (d * Den) \div Tt \in Int
  BY <1>1
<1> QED BY <1>2, <1>3, <1>4 DEF Beta

(* How far the setpoint and the tags reach, what the output and the         *)
(* proportional term account for, and what tracking and integration may add *)
(* in one run.                                                              *)
Size(w) == Most(w, -w)
Reach == Most(Size(A!Clamp(PMin, RegMin, RegMax)), Size(A!Clamp(PMax, RegMin, RegMax)))
Span == PMax + MaxLoad + ExportLimit
Held == Span + Scaled(Kp, Span)
Drift == Scaled(Ki * MaxLag, Span)
Gain == Reach + Span + Drift

(* What MaxMemory is to be for the gains: the share that back-calculation   *)
(* takes off at MaxMemory outweighs what a run adds.                        *)
Outweighed ==
  /\ Held + Reach <= MaxMemory
  /\ Outweighs(Beta(1), MaxMemory, Gain, Held)
  /\ Outweighs(Beta(1), MaxMemory - Drift, Drift, Reach)

Metered == gridTag \in -PMax..MaxLoad

Steered == (last # None => last \in PMin..PMax) /\ setpoint \in -Reach..Reach

(* A regulation of export requests something in its band.  One of import    *)
(* has no upper bound; what it requests beyond the floor is the integral,   *)
(* which tracking sees, unless the output is zero.                          *)
Remembered ==
  /\ requested = None => integral = 0
  /\ requested # None /\ site.mode = "export_limit" => requested \in 0..Span
  /\ requested # None /\ site.mode = "import_limit" =>
       \/ requested \in 0..Span /\ integral <= 0
       \/ requested - integral \in 0..Held

MemoryInv == TypeOK /\ Metered /\ Steered /\ Remembered /\ Unwound

LEMMA BoundsTypes ==
  /\ Reach \in Nat /\ Span \in Nat /\ Held \in Nat /\ Drift \in Nat /\ Gain \in Nat
  /\ Scaled(Kp, Span) \in Nat /\ Held = Span + Scaled(Kp, Span)
  /\ Gain = Reach + Span + Drift
<1>1. Reach \in Nat
  BY DEF Reach, Size, Most, A!Clamp
<1>2. Span \in Nat
  BY DEF Span
<1> DEFINE n == Ki * MaxLag
<1>3. n \in Nat
  OBVIOUS
<1> HIDE DEF n
<1>4. Scaled(Kp, Span) \in Nat /\ Scaled(n, Span) \in Nat
  BY <1>2, <1>3, ScaledNat
<1> QED BY <1>1, <1>2, <1>4 DEF Held, Drift, Gain, n

LEMMA ReachesAll ==
  ASSUME NEW w \in PMin..PMax
  PROVE  A!Clamp(w, RegMin, RegMax) \in -Reach..Reach
BY DEF Reach, Size, Most, A!Clamp

(* The terms of one run of the PID. *)
LEMMA Terms ==
  ASSUME MemoryInv, NEW error \in -Span..Span
  PROVE  /\ Beta(dt) \in 0..Den /\ Beta(1) \in Nat /\ Beta(1) <= Beta(dt)
         /\ Scaled(Kp, error) \in -Scaled(Kp, Span)..Scaled(Kp, Span)
         /\ Scaled(Ki * dt, error) \in -Drift..Drift
         /\ error >= 0 => Scaled(Kp, error) >= 0 /\ Scaled(Ki * dt, error) >= 0
<1>1. dt \in 1..MaxLag
  BY DEF MemoryInv, TypeOK
<1> DEFINE n == Ki * dt
           m == Ki * MaxLag
<1>2. n \in Nat /\ m \in Nat /\ n <= m
  BY <1>1, TimesMono
<1> HIDE DEF n, m
<1>3. Span \in Nat
  BY BoundsTypes
<1>4. /\ Scaled(Kp, error) \in -Scaled(Kp, Span)..Scaled(Kp, Span)
      /\ error >= 0 => Scaled(Kp, error) >= 0
  BY <1>3, ScaledSize
<1>5. /\ Scaled(n, error) \in -Scaled(m, Span)..Scaled(m, Span)
      /\ error >= 0 => Scaled(n, error) >= 0
  BY <1>2, <1>3, ScaledSize
<1>6. Beta(dt) \in 0..Den /\ Beta(1) \in Nat /\ Beta(1) <= Beta(dt)
  BY <1>1, BetaBounds
<1> QED BY <1>4, <1>5, <1>6 DEF Drift, n, m

(* A run whose output is bounded: whatever is held down, the bound stands.  *)
LEMMA ExportMemory ==
  ASSUME MemoryInv, Outweighed, site.mode = "export_limit",
         NEW lo \in 0..Span, NEW hi \in 0..Span, NEW feedforward \in lo..hi,
         NEW error \in -Span..Span, Regulated(feedforward, error, lo, hi)
  PROVE  integral' \in -MaxMemory..MaxMemory
<1> DEFINE b == Beta(dt)
           P == Scaled(Kp, error)
           c == Candidate(Tracked, error)
           out == Output(Tracked, error, lo - feedforward, hi - feedforward)
           z == out - P
<1>1. integral \in -MaxMemory..MaxMemory
  BY DEF MemoryInv, Unwound
<1>2. CASE requested = None \/ Ki = 0
  BY <1>1, <1>2 DEF Regulated, Integral, Tracked
<1>3. CASE requested # None /\ Ki # 0
  <2>1. /\ Reach \in Nat /\ Span \in Nat /\ Held \in Nat /\ Drift \in Nat /\ Gain \in Nat
        /\ Scaled(Kp, Span) \in Nat /\ Held = Span + Scaled(Kp, Span)
        /\ Gain = Reach + Span + Drift
    BY BoundsTypes
  <2>2. /\ b \in 0..Den /\ Beta(1) \in Nat /\ Beta(1) <= b
        /\ P \in -Scaled(Kp, Span)..Scaled(Kp, Span)
        /\ Scaled(Ki * dt, error) \in -Drift..Drift
    BY Terms
  <2>3. setpoint - requested \in -(Reach + Span)..Reach + Span
    BY <1>3, <2>1 DEF MemoryInv, Steered, Remembered
  <2>4. Scaled(b, setpoint - requested) \in -(Reach + Span)..Reach + Span
    <3> DEFINE m == Reach + Span
               x == setpoint - requested
    <3>1. m \in Nat /\ x \in -m..m /\ b \in 0..Den
      BY <2>1, <2>2, <2>3
    <3> HIDE DEF m, x, b
    <3>2. Scaled(b, x) \in -m..m
      BY <3>1, ShareWithin
    <3> QED BY <3>2 DEF m, x, b
  <2>5. Tracked = integral + Scaled(b, setpoint - requested)
    BY <1>3 DEF Tracked
  <2>6. c \in -(MaxMemory + Gain)..MaxMemory + Gain
    BY <1>1, <2>1, <2>2, <2>4, <2>5 DEF Candidate
  <2>7. Unclamped(Tracked, error) = P + c
    BY DEF Unclamped
  <2>8. /\ lo - feedforward \in -Span..0 /\ hi - feedforward \in 0..Span
        /\ lo - feedforward <= hi - feedforward /\ P + c \in Int
    BY <2>1, <2>2, <2>6
  <2>9. out \in -Span..Span
    <3> DEFINE least == lo - feedforward
               most == hi - feedforward
               y == P + c
    <3>1. out = A!Clamp(y, least, most)
      BY <2>7 DEF Output
    <3>2. least \in -Span..0 /\ most \in 0..Span /\ least <= most /\ y \in Int
      BY <2>8
    <3> HIDE DEF out, least, most, y
    <3>3. least \in Int /\ most \in Int
      BY <2>1, <3>2
    <3>4. out \in Int /\ least <= out /\ out <= most
      BY <3>1, <3>2, <3>3, ClampBetween
    <3> QED BY <2>1, <3>2, <3>4
  <2>10. z \in Int /\ -Held <= z /\ z <= Held
    BY <2>1, <2>2, <2>9
  <2>11. out - Unclamped(Tracked, error) = z - c
    BY <2>2, <2>6, <2>7, <2>9
  <2>12. integral' = Pulled(b, c, z)
    BY <1>3, <2>11 DEF Regulated, Integral, Pulled
  <2>13. Outweighs(Beta(1), MaxMemory, Gain, Held)
    BY DEF Outweighed
  <2> HIDE DEF b, P, c, out, z
  <2>a. /\ b \in 0..Den /\ Beta(1) \in Nat /\ Beta(1) <= b
        /\ c \in Int /\ c <= MaxMemory + Gain /\ c >= -(MaxMemory + Gain)
        /\ z \in Int /\ z <= Held /\ z >= -Held
        /\ Gain \in Nat /\ Held \in Nat
    BY <2>1, <2>2, <2>6, <2>10
  <2>14. Pulled(b, c, z) \in Int
    BY <2>2, <2>6, <2>10, PulledType
  <2>15. Pulled(b, c, z) <= MaxMemory
    BY <2>a, <2>13, PullDown
  <2>16. Pulled(b, c, z) >= -MaxMemory
    BY <2>a, <2>13, PullUp
  <2> QED BY <2>12, <2>14, <2>15, <2>16
<1> QED BY <1>2, <1>3

(* What tracking leaves of the memory of an import regulation: no more than *)
(* what the integration of a run can add to, and not much less than before. *)
LEMMA ImportTracked ==
  ASSUME MemoryInv, Outweighed, site.mode = "import_limit", Ki # 0, requested # None
  PROVE  /\ Tracked \in Int
         /\ Tracked <= MaxMemory - Drift
         /\ Tracked >= -(MaxMemory + Reach + Span)
<1> DEFINE b == Beta(dt)
           top == MaxMemory - Drift
<1>1. /\ Reach \in Nat /\ Span \in Nat /\ Held \in Nat /\ Drift \in Nat
      /\ Held >= Span
  BY BoundsTypes
<1>2. b \in 0..Den /\ Beta(1) \in Nat /\ Beta(1) <= b
  <2>1. dt \in 1..MaxLag
    BY DEF MemoryInv, TypeOK
  <2> QED BY <2>1, BetaBounds
<1>3. /\ integral \in Int /\ integral <= MaxMemory /\ integral >= -MaxMemory
      /\ setpoint \in -Reach..Reach /\ requested \in Int
  BY DEF MemoryInv, Unwound, Steered, TypeOK
<1>4. Outweighs(Beta(1), top, Drift, Reach) /\ Held + Reach <= MaxMemory
  BY DEF Outweighed
<1>5. Reach <= top /\ top \in Nat
  BY <1>1, <1>4 DEF Outweighs
<1>6. Tracked = integral + Scaled(b, setpoint - requested)
  BY DEF Tracked
<1> DEFINE x == setpoint - requested
<1>7. x \in Int
  BY <1>1, <1>3
<1>8. CASE requested - integral \in 0..Held
  <2> DEFINE z == x + integral
  <2>1. z \in Int /\ z <= Reach /\ z >= -(Reach + Held) /\ z - integral = x
    BY <1>1, <1>3, <1>8
  <2>2. integral <= top + Drift
    BY <1>1, <1>3
  <2> HIDE DEF b, x, z, top
  <2>3. Pulled(b, integral, z) <= top
    BY <1>1, <1>2, <1>3, <1>4, <1>5, <2>1, <2>2, PullDown
  <2>4. Tracked = Pulled(b, integral, z)
    BY <1>6, <2>1 DEF Pulled, x
  <2>5. /\ x >= 0 => Scaled(b, x) \in 0..x
        /\ x <= 0 => Scaled(b, x) \in x..0
    BY <1>2, <1>7, ScaledShare
  <2>6. Tracked \in Int /\ Tracked >= -(MaxMemory + Reach + Span)
    BY <1>1, <1>3, <1>4, <1>6, <1>7, <2>1, <2>5 DEF x
  <2> QED BY <2>3, <2>4, <2>6 DEF top
<1>9. CASE requested \in 0..Span /\ integral <= 0
  <2>1. x <= Reach /\ x >= -(Reach + Span)
    BY <1>1, <1>3, <1>9
  <2> HIDE DEF b, x, top
  <2>2. /\ x >= 0 => Scaled(b, x) \in 0..x
        /\ x <= 0 => Scaled(b, x) \in x..0
    BY <1>2, <1>7, ScaledShare
  <2>3. Tracked \in Int /\ Tracked <= Reach /\ Tracked >= -(MaxMemory + Reach + Span)
    BY <1>1, <1>3, <1>6, <1>7, <1>9, <2>1, <2>2 DEF x
  <2> QED BY <1>1, <1>5, <2>3 DEF top
<1> QED BY <1>8, <1>9 DEF MemoryInv, Remembered

(* A run of the import limit has no upper bound to saturate at: what it     *)
(* requests beyond the floor is what tracking takes off again.              *)
LEMMA ImportMemory ==
  ASSUME MemoryInv, Outweighed, RegulateImport
  PROVE  /\ integral' \in -MaxMemory..MaxMemory
         /\ \/ requested' \in 0..Span /\ integral' <= 0
            \/ requested' - integral' \in 0..Held
<1> DEFINE error == gridTag - site.import
           b == Beta(dt)
           P == Scaled(Kp, error)
           c == Candidate(Tracked, error)
<1>1. /\ Reach \in Nat /\ Span \in Nat /\ Held \in Nat /\ Drift \in Nat /\ Gain \in Nat
      /\ Scaled(Kp, Span) \in Nat /\ Held = Span + Scaled(Kp, Span)
      /\ Gain = Reach + Span + Drift
  BY BoundsTypes
<1>2. /\ error \in Nat /\ error <= Span /\ error \in -Span..Span
      /\ Floor \in Nat /\ Floor <= Span
  <2>1. /\ gridTag \in -PMax..MaxLoad /\ unitTag \in 0..PMax /\ site.import \in Nat
        /\ gridTag > site.import
    BY DEF MemoryInv, Metered, TypeOK, RegulateImport
  <2>2. Floor \in Nat /\ Floor <= PMax + MaxLoad
    BY <2>1 DEF Floor, NonNeg
  <2> QED BY <2>1, <2>2 DEF Span
<1>3. /\ integral \in Int /\ integral <= MaxMemory /\ integral >= -MaxMemory
      /\ site.mode = "import_limit"
  BY DEF MemoryInv, Unwound, TypeOK, RegulateImport
<1>4. /\ b \in 0..Den /\ Beta(1) \in Nat /\ Beta(1) <= b
      /\ P \in 0..Scaled(Kp, Span)
      /\ Scaled(Ki * dt, error) \in 0..Drift
  <2> HIDE DEF error
  <2>1. /\ P \in -Scaled(Kp, Span)..Scaled(Kp, Span) /\ P >= 0
        /\ Scaled(Ki * dt, error) \in -Drift..Drift /\ Scaled(Ki * dt, error) >= 0
        /\ b \in 0..Den /\ Beta(1) \in Nat /\ Beta(1) <= b
    BY <1>2, Terms
  <2> QED BY <1>1, <2>1
<1>5. Regulated(Floor, error, Floor, Free) /\ Free = NoCap(Floor + NonNeg(P + c))
  BY DEF RegulateImport, Free, Unclamped
<1>6. Held + Reach <= MaxMemory /\ Outweighs(Beta(1), MaxMemory, Gain, Held)
  BY DEF Outweighed
<1>7. Tracked \in Int /\ error \in Int /\ P + c \in Int
  <2>1. error \in Int /\ 0 \in Int
    BY <1>2
  <2> HIDE DEF error
  <2>2. Tracked \in Int /\ Unclamped(Tracked, error) \in Int
    BY <2>1, PidTypes DEF MemoryInv
  <2> QED BY <2>1, <2>2 DEF Unclamped
<1>8. CASE requested = None
  <2>1. Free \in Int /\ Free >= Floor
    BY <1>2, <1>5, <1>7, NoCapAbove DEF NonNeg, NoCap, Most
  <2>2. requested' = A!Clamp(Floor + 0, Floor, Free) /\ integral' = integral
    BY <1>5, <1>8 DEF Regulated
  <2>3. integral = 0
    BY <1>8 DEF MemoryInv, Remembered
  <2>4. requested' = Floor
    BY <1>2, <2>1, <2>2 DEF A!Clamp
  <2> QED BY <1>2, <1>3, <2>2, <2>3, <2>4
<1>9. CASE requested # None
  <2>1. c \in Int /\ c <= MaxMemory /\ c >= -(MaxMemory + Gain)
        /\ (Ki = 0 => c = integral /\ Tracked = integral)
    <3>1. CASE Ki = 0
      <4>1. Tracked = integral
        BY <3>1 DEF Tracked
      <4>2. Scaled(Ki * dt, error) = 0
        <5>1. Ki * dt = 0 /\ 0 * error = 0 /\ 0 \div Den = 0
          BY <1>7, <3>1 DEF MemoryInv, TypeOK
        <5>2. error >= 0
          BY <1>2
        <5> HIDE DEF error
        <5> QED BY <1>7, <5>1, <5>2 DEF Scaled
      <4> QED BY <1>1, <1>3, <4>1, <4>2 DEF Candidate
    <3>2. CASE Ki # 0
      <4>1. /\ Tracked <= MaxMemory - Drift
            /\ Tracked >= -(MaxMemory + Reach + Span)
        BY <1>3, <1>9, <3>2, ImportTracked
      <4> QED BY <1>1, <1>4, <1>7, <3>2, <4>1 DEF Candidate
    <3> QED BY <3>1, <3>2
  <2> DEFINE out == Output(Tracked, error, Floor - Floor, Free - Floor)
  <2>2. out = NonNeg(P + c) /\ requested' = Floor + out
    <3>1. Free \in Int /\ Free > Floor + NonNeg(P + c)
      BY <1>2, <1>5, <1>7 DEF NonNeg, NoCap, Most
    <3>2. out = A!Clamp(P + c, Floor - Floor, Free - Floor)
      BY DEF Output, Unclamped
    <3> DEFINE y == P + c
    <3>3. out = NonNeg(y) /\ y \in Int
      BY <1>2, <1>7, <3>1, <3>2 DEF A!Clamp, NonNeg
    <3>4. requested' = A!Clamp(Floor + out, Floor, Free)
      BY <1>5, <1>9 DEF Regulated
    <3> HIDE DEF out
    <3> QED BY <1>2, <3>1, <3>3, <3>4 DEF A!Clamp, NonNeg
  <2>3. integral' = IF Ki = 0 THEN c ELSE c + Scaled(b, out - (P + c))
    BY <1>5, <1>9, <2>1 DEF Regulated, Integral, Unclamped
  <2> HIDE DEF out, error, b, P, c
  <2>4. CASE P + c >= 0
    <3>1. out - (P + c) = 0 /\ requested' = Floor + P + c
      BY <1>2, <1>4, <2>1, <2>2, <2>4 DEF NonNeg
    <3>2. Scaled(b, 0) = 0
      BY <1>4, ScaledShare
    <3>3. integral' = c
      BY <2>1, <2>3, <3>1, <3>2
    <3> QED BY <1>1, <1>2, <1>4, <1>6, <2>1, <2>4, <3>1, <3>3
  <2>5. CASE P + c < 0
    <3> DEFINE z == -P
    <3>1. /\ out = 0 /\ requested' = Floor /\ out - (P + c) = z - c
          /\ z \in Int /\ z >= -Held /\ z <= 0 /\ c <= z /\ c < 0
          /\ z - c \in Int /\ z - c >= 0
      BY <1>1, <1>2, <1>4, <2>1, <2>2, <2>5 DEF NonNeg
    <3> DEFINE x == z - c
    <3> HIDE DEF z
    <3>2. CASE Ki = 0
      <4>1. integral' = integral /\ c = integral
        BY <2>1, <2>3, <3>2
      <4> QED BY <1>2, <1>3, <3>1, <4>1
    <3>3. CASE Ki # 0
      <4>1. integral' = Pulled(b, c, z)
        BY <2>3, <3>1, <3>3 DEF Pulled
      <4>2. Pulled(b, c, z) >= -MaxMemory
        BY <1>1, <1>4, <1>6, <2>1, <3>1, PullUp
      <4>3. x \in Int /\ x >= 0 /\ x = z - c
        BY <3>1
      <4> HIDE DEF x
      <4>4. Scaled(b, x) \in 0..x
        BY <1>4, <4>3, ScaledShare
      <4>5. Pulled(b, c, z) \in Int /\ Pulled(b, c, z) <= z
        BY <2>1, <3>1, <4>3, <4>4 DEF Pulled
      <4> QED BY <1>2, <3>1, <4>1, <4>2, <4>5
    <3> QED BY <3>2, <3>3
  <2> QED BY <1>7, <2>1, <2>4, <2>5
<1> QED BY <1>8, <1>9

(* One run of the tasks. *)
LEMMA ExecuteMemory ==
  ASSUME MemoryInv, Outweighed, Execute
  PROVE  Remembered' /\ Unwound'
<1>1. site' = site /\ site.mode \in {"export_limit", "import_limit"}
  BY DEF Execute, MemoryInv, TypeOK
<1>2. Span \in Nat
  BY BoundsTypes
<1>3. CASE RegulateExport
  <2>1. /\ gridTag \in -PMax..MaxLoad /\ unitTag \in 0..PMax /\ site.import \in Nat
        /\ site.mode = "export_limit" /\ TypeOK
    BY <1>3 DEF MemoryInv, Metered, TypeOK, RegulateExport
  <2>2. Cap \in 0..Span /\ FloorInBand \in 0..Span /\ FloorInBand <= Cap
    <3>1. Cap \in Nat /\ FloorInBand \in Nat /\ FloorInBand <= Cap
      BY <2>1, BandTypes
    <3>2. Cap <= Span
      BY <2>1 DEF Cap, NonNeg, Span
    <3> QED BY <1>2, <3>1, <3>2
  <2>3. gridTag - Target \in -Span..Span
    BY <2>1 DEF Target, Span
  <2> DEFINE feedforward == A!Clamp(unitTag + gridTag - Target, FloorInBand, Cap)
             error == gridTag - Target
  <2>4. feedforward \in FloorInBand..Cap
    <3>1. unitTag + gridTag - Target \in Int
      BY <2>1 DEF Target
    <3> QED BY <2>2, <3>1, ClampBetween
  <2>5. Regulated(feedforward, error, FloorInBand, Cap)
    BY <1>3 DEF RegulateExport
  <2>6. feedforward \in Int /\ error \in Int /\ FloorInBand \in Int /\ Cap \in Int
    BY <1>2, <2>2, <2>3, <2>4
  <2> HIDE DEF feedforward, error
  <2>7. integral' \in -MaxMemory..MaxMemory
    BY <2>1, <2>2, <2>3, <2>4, <2>5, ExportMemory DEF error
  <2>8. requested' \in Int /\ FloorInBand <= requested' /\ requested' <= Cap
    BY <2>1, <2>2, <2>5, <2>6, RegulatedInBand
  <2>9. requested' \in 0..Span /\ requested' # None
    BY <1>2, <2>2, <2>8
  <2> QED BY <1>1, <2>1, <2>7, <2>9 DEF Remembered, Unwound
<1>4. CASE RegulateImportReleased
  BY <1>1, <1>4 DEF RegulateImportReleased, Remembered, Unwound
<1>5. CASE RegulateImport
  <2>1. /\ integral' \in -MaxMemory..MaxMemory
        /\ \/ requested' \in 0..Span /\ integral' <= 0
           \/ requested' - integral' \in 0..Held
    BY <1>5, ImportMemory
  <2>2. requested' \in Int
    <3> DEFINE error == gridTag - site.import
    <3>1. TypeOK /\ error \in Int
      BY DEF MemoryInv, TypeOK
    <3>2. /\ Regulated(Floor, error, Floor, Free)
          /\ Free = NoCap(Floor + NonNeg(Unclamped(Tracked, error)))
      BY <1>5 DEF RegulateImport, Free
    <3> HIDE DEF error
    <3>3. Floor \in Int /\ Unclamped(Tracked, error) \in Int
      BY <3>1, BandTypes, PidTypes
    <3>4. Free \in Int /\ Floor <= Free
      BY <3>2, <3>3 DEF NoCap, Most, NonNeg
    <3> QED BY <3>1, <3>2, <3>3, <3>4, RegulatedInBand
  <2>3. requested' # None /\ site.mode = "import_limit"
    BY <1>5, <2>2 DEF RegulateImport
  <2> QED BY <1>1, <2>1, <2>3 DEF Remembered, Unwound
<1> QED BY <1>3, <1>4, <1>5 DEF Execute

(* The setpoint: the room that the arbiter chooses from lies in the         *)
(* envelope, and neither deadband nor ramp leads out of it.                 *)
LEMMA SteeredStep == TypeOK /\ Steered /\ [Next]_vars => Steered'
<1> SUFFICES ASSUME TypeOK, Steered, [Next]_vars PROVE Steered'
  OBVIOUS
<1>1. CASE Resolve
  <2>0. A!Resolve
    BY <1>1 DEF Resolve
  <2>1. PICK H \in SUBSET A!Live : \E w \in A!Room(H) :
          last' = A!Ramped(A!Deadbanded(w, A!ForcedBySafety(H)), A!ForcedBySafety(H))
    BY <2>0 DEF A!Resolve
  <2>2. PICK w \in A!Room(H) :
          last' = A!Ramped(A!Deadbanded(w, A!ForcedBySafety(H)), A!ForcedBySafety(H))
    BY <2>1
  <2>3. w \in PMin..PMax /\ (last # None => last \in PMin..PMax)
    BY DEF A!Room, Steered
  <2> DEFINE v == A!Deadbanded(w, A!ForcedBySafety(H))
  <2>4. v \in PMin..PMax
    BY <2>3 DEF A!Deadbanded
  <2> HIDE DEF v
  <2>5. A!Ramped(v, A!ForcedBySafety(H)) \in PMin..PMax
    BY <2>3, <2>4 DEF A!Ramped, A!Clamp
  <2>6. last' \in PMin..PMax
    BY <2>2, <2>5 DEF v
  <2>7. setpoint' = A!Clamp(last', RegMin, RegMax)
    BY <2>0 DEF A!Resolve
  <2> QED BY <2>6, <2>7, ReachesAll DEF Steered
<1>2. CASE UNCHANGED <<last, setpoint>>
  BY <1>2 DEF Steered
<1>3. Resolve \/ UNCHANGED <<last, setpoint>>
  BY DEF Next, Cycle, Disturb, Move, Poll, PollLate, PollOf, Execute, Flush, FlushLate, vars
<1> QED BY <1>1, <1>2, <1>3

LEMMA InitMemory == Init => MemoryInv
<1> SUFFICES ASSUME Init PROVE MemoryInv
  OBVIOUS
<1>1. Reach \in Nat
  BY BoundsTypes
<1>2. Metered /\ Steered /\ Remembered /\ Unwound
  BY <1>1 DEF Init, Metered, Steered, Remembered, Unwound
<1> QED BY <1>2, InitTypes DEF MemoryInv

LEMMA MemoryStep ==
  ASSUME MemoryInv, Outweighed, [Next]_vars
  PROVE  MemoryInv'
<1>1. TypeOK' /\ Steered'
  BY TypeStep, SteeredStep DEF MemoryInv
<1>2. Metered'
  <2>1. load \in 0..MaxLoad /\ unit \in 0..PMax /\ gridTag \in -PMax..MaxLoad
    BY DEF MemoryInv, TypeOK, Metered
  <2>2. gridTag' = gridTag \/ gridTag' = load - unit
    BY DEF Next, Cycle, Disturb, Move, Poll, PollLate, PollOf, Execute, Resolve, Flush,
           FlushLate, vars
  <2> QED BY <2>1, <2>2 DEF Metered
<1>3. CASE Execute
  BY <1>1, <1>2, <1>3, ExecuteMemory DEF MemoryInv
<1>4. CASE UNCHANGED <<site, regulation>>
  BY <1>1, <1>2, <1>4 DEF MemoryInv, Remembered, Unwound
<1>5. Execute \/ UNCHANGED <<site, regulation>>
  BY DEF Next, Cycle, Disturb, Move, Poll, PollLate, PollOf, Resolve, Flush, FlushLate, vars
<1> QED BY <1>3, <1>4, <1>5

(* The setpoint that the closed loop retains is inside the envelope of the  *)
(* unit at all times, whatever the controllers make of the tags.            *)
THEOREM EnvelopeKept == Spec => []A!WithinEnvelope
<1>1. Init => TypeOK /\ Steered
  BY InitTypes, InitMemory DEF MemoryInv
<1>2. TypeOK /\ Steered /\ [Next]_vars => TypeOK' /\ Steered'
  BY TypeStep, SteeredStep
<1>3. Steered => A!WithinEnvelope
  BY DEF Steered, A!WithinEnvelope
<1> QED BY <1>1, <1>2, <1>3, PTL DEF Spec

(* There is such a bound for all gains that tracking can balance at all,    *)
(* its factor not being rounded to nothing within a tick.                   *)
LEMMA EnoughMemory ==
  ASSUME Tt <= Den, MaxMemory >= Held + Reach + Den * Gain
  PROVE  Outweighed
<1>1. /\ Reach \in Nat /\ Held \in Nat /\ Drift \in Nat /\ Gain \in Nat
      /\ Drift <= Gain
  BY BoundsTypes
<1>2. Beta(1) \in Nat /\ 1 <= Beta(1)
  <2>1. Beta(1) \in Nat
    BY BetaBounds
  <2>2. 1 <= (1 * Den) \div Tt
    BY QuotientLeast
  <2> QED BY <2>1, <2>2 DEF Beta
<1>3. Gain <= Den * Gain /\ Den * Drift <= Den * Gain /\ Den * Gain \in Nat
  <2>1. 1 * Gain <= Den * Gain /\ Den * Drift <= Den * Gain
    BY <1>1, TimesMono
  <2> QED BY <1>1, <2>1
<1>4. ASSUME NEW x \in Nat PROVE x <= Beta(1) * x
  <2>1. 1 * x <= Beta(1) * x
    BY <1>2, TimesMono
  <2> QED BY <2>1
<1> DEFINE x == MaxMemory + Gain - Held
           y == MaxMemory - Drift + Drift - Reach
<1>5. /\ x \in Nat /\ x >= Den * Gain /\ Held <= MaxMemory
      /\ y \in Nat /\ y >= Den * Drift /\ Reach <= MaxMemory - Drift
  BY <1>1, <1>3
<1> HIDE DEF x, y
<1>6. Beta(1) * x >= Den * Gain /\ Beta(1) * y >= Den * Drift
  <2>1. x <= Beta(1) * x /\ y <= Beta(1) * y
    BY <1>4, <1>5
  <2>2. Beta(1) * x \in Int /\ Beta(1) * y \in Int /\ Den * Drift \in Int
    BY <1>1, <1>2, <1>5
  <2> QED BY <1>3, <1>5, <2>1, <2>2
<1>7. Held + Reach <= MaxMemory
  BY <1>1, <1>3
<1> QED BY <1>5, <1>6, <1>7 DEF Outweighed, Outweighs, x, y

(* The memory of the PID stays bounded, for ever and whatever happens: with *)
(* any number of stale samples, late cycles, trips and clouds, however long *)
(* the unit does not follow.                                                *)
THEOREM MemoryBounded ==
  ASSUME Outweighed
  PROVE  Spec => []Unwound
<1>1. MemoryInv /\ [Next]_vars => MemoryInv'
  BY MemoryStep
<1>2. MemoryInv => Unwound
  BY DEF MemoryInv
<1> QED BY <1>1, <1>2, InitMemory, PTL DEF Spec

-----------------------------------------------------------------------------
(* What the closed loop keeps of the promises of the arbiter.               *)

(* Without a safety claim no step of the setpoint is larger than the        *)
(* gradient, although the claims of the other controllers move with every   *)
(* sample and every change of the load.                                     *)
THEOREM GradientKept == Spec => A!GradientRespected
<1>1. ASSUME TypeOK, [Next]_vars, last # None, ~A!SafetyClaim, last' # last
      PROVE  last' \in last - RampDown .. last + RampUp
  <2>1. A!Resolve
    BY <1>1 DEF Next, Cycle, Disturb, Move, Poll, PollLate, PollOf, Execute, Resolve, Flush,
                FlushLate, vars
  <2>2. PICK H \in SUBSET A!Live : \E w \in A!Room(H) :
          last' = A!Ramped(A!Deadbanded(w, A!ForcedBySafety(H)), A!ForcedBySafety(H))
    BY <2>1 DEF A!Resolve
  <2>3. PICK w \in A!Room(H) :
          last' = A!Ramped(A!Deadbanded(w, A!ForcedBySafety(H)), A!ForcedBySafety(H))
    BY <2>2
  <2>4. ~A!ForcedBySafety(H)
    BY <1>1 DEF A!ForcedBySafety, A!Owns, A!Targeting, A!SafetyClaim
  <2> DEFINE v == A!Deadbanded(w, A!ForcedBySafety(H))
  <2>5. v \in Int /\ last \in Int
    BY <1>1 DEF A!Room, A!Deadbanded, TypeOK
  <2> HIDE DEF v
  <2>6. last' = A!Clamp(v, last - RampDown, last + RampUp)
    BY <1>1, <2>3, <2>4 DEF A!Ramped, v
  <2> QED BY <2>5, <2>6 DEF A!Clamp
<1>2. TypeOK /\ [Next]_vars =>
        [last # None /\ ~A!SafetyClaim => last' \in last - RampDown .. last + RampUp]_(A!vars)
  <2>1. ASSUME TypeOK, last' = last, last # None PROVE last' \in last - RampDown .. last + RampUp
    BY <2>1 DEF TypeOK
  <2> QED BY <1>1, <2>1
<1> QED BY <1>2, TypeCorrect, PTL DEF Spec, A!GradientRespected

(* The claim of the safety controller is never older than its cycle. *)
SafetyPosted == phase = "tasks" => board["safety"] = SafetyClaim

LEMMA SafetyPostedStep == SafetyPosted /\ [Next]_vars => SafetyPosted'
<1> SUFFICES ASSUME SafetyPosted, [Next]_vars PROVE SafetyPosted'
  OBVIOUS
<1>1. CASE Execute
  BY <1>1 DEF Execute, SafetyPosted, SafetyClaim
<1>2. CASE phase' # "tasks"
  BY <1>2 DEF SafetyPosted
<1>3. CASE UNCHANGED vars
  BY <1>3 DEF SafetyPosted, SafetyClaim, vars
<1>4. Execute \/ phase' # "tasks" \/ UNCHANGED vars
  <2>1. Disturb => phase' = "plant"
    BY DEF Disturb
  <2>2. Move \/ Poll \/ PollLate \/ Resolve \/ Flush \/ FlushLate => phase' # "tasks"
    BY DEF Move, Poll, PollLate, PollOf, Resolve, A!Resolve, Flush, FlushLate
  <2> QED BY <2>1, <2>2 DEF Next, Cycle
<1> QED BY <1>1, <1>2, <1>3, <1>4

(* While a guard is over its limit the cycle that sees it resolves the      *)
(* setpoint to the safe power exactly: no other claim, no deadband and no   *)
(* ramp comes between.                                                      *)
THEOREM TripLands == Spec => [][Resolve /\ trip => last' = SafePower]_vars
<1>1. ASSUME SafetyPosted, Resolve, trip
      PROVE  last' = SafePower
  <2>1. /\ A!Resolve /\ phase = "tasks"
        /\ board["safety"] = [min |-> SafePower, max |-> SafePower,
                              target |-> SafePower, ttl |-> None]
    BY <1>1 DEF Resolve, A!Resolve, SafetyPosted, SafetyClaim, Request
  <2>2. PICK H \in SUBSET A!Live :
          /\ A!Arbitrated(H)
          /\ \E w \in A!Room(H) :
               last' = A!Ramped(A!Deadbanded(w, A!ForcedBySafety(H)), A!ForcedBySafety(H))
    BY <2>1 DEF A!Resolve
  <2>3. PICK w \in A!Room(H) :
          last' = A!Ramped(A!Deadbanded(w, A!ForcedBySafety(H)), A!ForcedBySafety(H))
    BY <2>2
  <2>4. SafePower \in PMin..PMax /\ SafePower # None /\ "safety" \in Requester
    BY DEF Requester
  <2>5. "safety" \in A!Live
    <3>1. SafePower \in Int
      OBVIOUS
    <3>2. /\ board["safety"] \in [min : Int, max : Int, target : Int \cup {None}, ttl : {None}]
          /\ board["safety"].ttl = None
      BY <2>1, <3>1
    <3>3. board["safety"] # None
      BY <3>2, NoClaimAssumption
    <3> QED BY <2>4, <3>2, <3>3 DEF A!Live, A!Expired
  <2>6. \A s \in Requester : ~A!Before(s, "safety") /\ (s # "safety" => A!Before("safety", s))
    BY DEF A!Before, Prio, Requester
  <2>7. "safety" \in H
    <3>1. {s \in H : A!Before(s, "safety")} \cup {"safety"} = {"safety"}
      BY <2>6 DEF A!Live
    <3>2. SafePower \in A!Room({"safety"})
      BY <2>1, <2>4 DEF A!Room
    <3> QED BY <2>2, <2>5, <3>1, <3>2 DEF A!Arbitrated
  <2>8. w = SafePower
    BY <2>1, <2>4, <2>7 DEF A!Room
  <2>9. A!ForcedBySafety(H)
    <3>1. "safety" \in A!Targeting(H)
      BY <2>1, <2>4, <2>7 DEF A!Targeting
    <3>2. A!Owns("safety", H)
      BY <2>6, <3>1 DEF A!Owns, A!Targeting, A!Live
    <3>3. Prio["safety"] = 0
      BY <2>4 DEF Prio
    <3> QED BY <2>7, <3>2, <3>3 DEF A!ForcedBySafety
  <2> QED BY <2>3, <2>8, <2>9 DEF A!Deadbanded, A!Ramped
<1>2. SafetyPosted /\ [Next]_vars => [Resolve /\ trip => last' = SafePower]_vars
  BY <1>1
<1>3. Init => SafetyPosted
  BY DEF Init, SafetyPosted
<1> QED BY <1>2, <1>3, SafetyPostedStep, PTL DEF Spec

=============================================================================
