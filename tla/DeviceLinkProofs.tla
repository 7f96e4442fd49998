------------------------- MODULE DeviceLinkProofs -------------------------
(***************************************************************************)
(* Theorems about DeviceLink: types; what a flush leaves in the device,    *)
(* when the bounds of the setpoints are counts their registers can hold;   *)
(* what a poll brings, when the published values fit their registers; and  *)
(* what a diagnosis can tell of unit ids.                                  *)
(* First come the codec and the arithmetic it rests on.                    *)
(***************************************************************************)
EXTENDS DeviceLink, FiniteSetTheorems, TLAPS

(* Division with remainder.                                                 *)
LEMMA Division ==
  ASSUME NEW a \in Int, NEW n \in Nat \ {0}
  PROVE  /\ a \div n \in Int /\ a % n \in 0..n - 1
         /\ a = n * (a \div n) + (a % n)
OBVIOUS

LEMMA Grows ==
  ASSUME NEW n \in Nat \ {0}, NEW p \in Int, NEW q \in Int, p < q
  PROVE  n * p + n <= n * q
OBVIOUS

LEMMA Quotient ==
  ASSUME NEW n \in Nat \ {0}, NEW q \in Int, NEW m \in 0..n - 1
  PROVE  (n * q + m) \div n = q /\ (n * q + m) % n = m
OBVIOUS

(* Only one quotient leaves a remainder.                                    *)
LEMMA Unique ==
  ASSUME NEW n \in Nat \ {0}, NEW q \in Int, NEW m \in 0..n - 1,
         NEW p \in Int, NEW l \in 0..n - 1, n * q + m = n * p + l
  PROVE  q = p /\ m = l
BY Quotient

(* int(v / n) is v / n without its fraction: between nought and v, less than *)
(* one count from it.                                                       *)
LEMMA TruncatedNear ==
  ASSUME NEW v \in Int, NEW n \in Nat \ {0}
  PROVE  /\ Truncated(v, n) \in Int
         /\ v >= 0 => 0 <= Truncated(v, n) /\ n * Truncated(v, n) <= v /\ v < n * Truncated(v, n) + n
         /\ v < 0 => Truncated(v, n) <= 0 /\ v <= n * Truncated(v, n) /\ n * Truncated(v, n) < v + n
<1>1. CASE v >= 0
  <2> DEFINE q == v \div n
  <2>1. q \in Int /\ v = n * q + (v % n) /\ v % n \in 0..n - 1
    BY Division
  <2>2. Truncated(v, n) = q
    BY <1>1 DEF Truncated
  <2>3. 0 <= q
    BY <1>1, <2>1, Grows
  <2> HIDE DEF q
  <2> QED
    BY <1>1, <2>1, <2>2, <2>3
<1>2. CASE v < 0
  <2> DEFINE u == -v
             q == u \div n
  <2>0. u \in Int /\ u = -v /\ u > 0
    BY <1>2
  <2>2. Truncated(v, n) = -q
    BY <1>2 DEF Truncated
  <2> HIDE DEF u
  <2>1. q \in Int /\ u = n * q + (u % n) /\ u % n \in 0..n - 1
    BY <2>0, Division
  <2>3. 0 <= q
    BY <2>0, <2>1, Grows
  <2> HIDE DEF q
  <2>4. n * (-q) = -(n * q)
    BY <2>1
  <2> QED
    BY <1>2, <2>0, <2>1, <2>2, <2>3, <2>4
<1> QED
  BY <1>1, <1>2

(* A larger value has no smaller count.                                     *)
LEMMA TruncatedMonotone ==
  ASSUME NEW n \in Nat \ {0}, NEW v \in Int, NEW w \in Int, v <= w
  PROVE  Truncated(v, n) <= Truncated(w, n)
<1> DEFINE p == Truncated(v, n)
           q == Truncated(w, n)
<1>1. /\ p \in Int /\ q \in Int
      /\ v >= 0 => 0 <= p /\ n * p <= v /\ v < n * p + n
      /\ v < 0 => p <= 0 /\ v <= n * p /\ n * p < v + n
      /\ w >= 0 => 0 <= q /\ n * q <= w /\ w < n * q + n
      /\ w < 0 => q <= 0 /\ w <= n * q /\ n * q < w + n
  BY TruncatedNear
<1>2. q < p => n * q + n <= n * p
  BY <1>1, Grows
<1>3. n * p \in Int /\ n * q \in Int
  BY <1>1
<1> HIDE DEF p, q
<1>4. ~(q < p)
  BY <1>1, <1>2, <1>3
<1> QED
  BY <1>1, <1>4 DEF p, q

(* The nearest count is within half a count.                                *)
LEMMA RoundedNear ==
  ASSUME NEW v \in Int, NEW n \in Nat \ {0}
  PROVE  /\ Rounded(v, n) \in Int
         /\ 2 * Magnitude(Rounded(v, n) * n - v) <= n
<1> DEFINE q == v \div n
           m == v % n
<1>1. q \in Int /\ m \in 0..n - 1 /\ v = n * q + m
  BY Division
<1>2. \/ Rounded(v, n) = q /\ 2 * m <= n
      \/ Rounded(v, n) = q + 1 /\ 2 * m >= n
  BY <1>1 DEF Rounded
<1>3. q * n = n * q /\ (q + 1) * n = n * q + n
  BY <1>1
<1> HIDE DEF q, m
<1> QED
  BY <1>1, <1>2, <1>3 DEF Magnitude

(* The contents of a register in words and back.                            *)
LEMMA WordsRoundTrip ==
  ASSUME NEW u \in 0..(Base * Base) - 1
  PROVE  /\ u \div Base \in 0..Base - 1 /\ u % Base \in 0..Base - 1
         /\ (u \div Base) * Base + (u % Base) = u
<1> DEFINE q == u \div Base
<1>1. q \in Int /\ u % Base \in 0..Base - 1 /\ u = Base * q + (u % Base)
  BY Division, BaseAssumption
<1>2. q * Base = Base * q /\ Base * Base \in Nat
  BY <1>1, BaseAssumption
<1> HIDE DEF q
<1>3. 0 <= q
  <2>1. q < 0 => Base * q + Base <= Base * 0
    BY <1>1, Grows, BaseAssumption
  <2> QED
    BY <1>1, <1>2, <2>1, BaseAssumption
<1>4. q < Base
  <2>1. Base < q => Base * Base + Base <= Base * q
    BY <1>1, Grows, BaseAssumption
  <2> QED
    BY <1>1, <1>2, <2>1, BaseAssumption
<1> QED
  BY <1>1, <1>2, <1>3, <1>4, BaseAssumption DEF q

(* What the wire takes from a register it holds, it gives back: _decode     *)
(* undoes _encode.                                                          *)
LEMMA RoundTrip ==
  ASSUME NEW r, IsRegister(r), NEW v \in Int, Holds(r, v)
  PROVE  Decoded(Encoded(v, r), r) = v
<1> DEFINE S == Span(r)
           H == Half(r)
           u == v % S
<1>1. S \in Nat \ {0} /\ H \in Nat /\ S = H + H
  BY BaseAssumption DEF Span, Half
<1>2. u \in 0..S - 1
  BY <1>1, Division
<1>3. u = IF v < 0 THEN v + S ELSE v
  <2>1. -H <= v /\ v < S
    BY <1>1 DEF Holds, IsRegister
  <2>2. v = S * (v \div S) + u /\ v \div S \in Int
    BY <1>1, Division
  <2> HIDE DEF S, H, u
  <2>3. CASE v < 0
    <3>1. S * (-1) + (v + S) = v /\ v + S \in 0..S - 1
      BY <2>1, <2>3, <1>1
    <3> QED
      BY <2>2, <2>3, <3>1, <1>1, <1>2, Unique
  <2>4. CASE v >= 0
    <3>1. S * 0 + v = v /\ v \in 0..S - 1
      BY <2>1, <2>4, <1>1
    <3> QED
      BY <2>2, <2>4, <3>1, <1>1, <1>2, Unique
  <2> QED
    BY <2>3, <2>4
<1>4. Decoded(Encoded(v, r), r) = IF r.signed /\ u >= H THEN u - S ELSE u
  <2>1. CASE r.words = 2
    <3>1. (u \div Base) * Base + (u % Base) = u
      BY <1>2, <2>1, WordsRoundTrip DEF Span
    <3> QED
      BY <2>1, <3>1 DEF Encoded, Decoded
  <2>2. CASE r.words = 1
    BY <2>2 DEF Encoded, Decoded
  <2> QED
    BY <2>1, <2>2 DEF IsRegister
<1> HIDE DEF S, H, u
<1> QED
  BY <1>1, <1>2, <1>3, <1>4 DEF Holds, IsRegister, S, H
-----------------------------------------------------------------------------
(* Types *)

LEMMA EncodedType ==
  ASSUME NEW r, IsRegister(r), NEW v \in Int
  PROVE  Encoded(v, r) \in Seq(0..Base - 1) /\ Len(Encoded(v, r)) = r.words
<1> DEFINE u == v % Span(r)
<1>1. Span(r) \in Nat \ {0}
  BY BaseAssumption DEF Span
<1>2. u \in 0..Span(r) - 1
  BY <1>1, Division
<1> HIDE DEF u
<1>3. CASE r.words = 2
  <2>1. u \div Base \in 0..Base - 1 /\ u % Base \in 0..Base - 1
    BY <1>2, <1>3, WordsRoundTrip DEF Span
  <2> QED
    BY <1>3, <2>1 DEF Encoded, u
<1>4. CASE r.words = 1
  <2>1. u \in 0..Base - 1
    BY <1>2, <1>4 DEF Span
  <2> QED
    BY <1>4, <2>1 DEF Encoded, u
<1> QED
  BY <1>3, <1>4 DEF IsRegister

LEMMA Registers ==
  ASSUME NEW r \in Register
  PROVE  /\ IsRegister(Profile[r]) /\ Profile[r].scale \in Nat \ {0}
         /\ Profile[r].min \in Int /\ Profile[r].max \in Int /\ r \in Nat \ {0}
         /\ r \in Writable <=> r \notin Measurement
BY ProfileAssumption DEF IsRegister, Register, Writable, Measurement

LEMMA ValueType ==
  ASSUME NEW b \in Blocks, NEW r \in Register
  PROVE  Value(b, r) \in Int
<1>1. b[r] \in Seq(0..Base - 1) /\ Len(b[r]) = Profile[r].words /\ IsRegister(Profile[r])
  BY Registers DEF Blocks
<1>2. b[r][1] \in Int /\ (Profile[r].words = 2 => b[r][2] \in Int)
  BY <1>1, BaseAssumption DEF IsRegister
<1>3. Decoded(b[r], Profile[r]) \in Int
  BY <1>2, BaseAssumption DEF Decoded, Span
<1> QED
  BY <1>3, Registers DEF Value

LEMMA RefreshedType ==
  ASSUME block \in Blocks, fields \in Samples
  PROVE  Refreshed \in Blocks
<1>1. ASSUME NEW r \in Measurement
      PROVE  LET ws == Encoded(Rounded(fields[r], Profile[r].scale), Profile[r])
             IN  ws \in Seq(0..Base - 1) /\ Len(ws) = Profile[r].words
  <2>1. fields[r] \in Int /\ r \in Register
    BY LinkAssumption DEF Measurement
  <2>2. Rounded(fields[r], Profile[r].scale) \in Int
    BY <2>1, Registers, RoundedNear
  <2> QED
    BY <2>1, <2>2, Registers, EncodedType
<1> QED
  BY <1>1 DEF Refreshed, Blocks

LEMMA ServeType ==
  ASSUME block \in Blocks, fields \in Samples, NEW answer, Serve(answer)
  PROVE  block' \in Blocks
BY RefreshedType DEF Serve

LEMMA ZerosType == Zeros \in Blocks
<1>1. ASSUME NEW r \in Register
      PROVE  Encoded(0, Profile[r]) \in Seq(0..Base - 1) /\ Len(Encoded(0, Profile[r])) = Profile[r].words
  <2>1. 0 \in Int
    OBVIOUS
  <2> QED
    BY <2>1, Registers, EncodedType
<1> QED
  BY <1>1 DEF Zeros, Blocks

LEMMA TakeType ==
  ASSUME TypeOK, NEW r \in Writable, sent[r] # None, Take(r)
  PROVE  block' \in Blocks /\ target' \in [Writable -> Int \cup {None}]
<1> DEFINE words == Encoded(Truncated(sent[r], Profile[r].scale), Profile[r])
<1>1. r \in Register /\ sent[r] \in Int
  BY DEF TypeOK, Writable
<1>2. Truncated(sent[r], Profile[r].scale) \in Int
  BY <1>1, Registers, TruncatedNear
<1>3. words \in Seq(0..Base - 1) /\ Len(words) = Profile[r].words
  BY <1>1, <1>2, Registers, EncodedType
<1>4. block' = [block EXCEPT ![r] = words]
      /\ target' = [target EXCEPT ![r] = Decoded(words, Profile[r]) * Profile[r].scale]
  BY DEF Take
<1> HIDE DEF words
<1>5. block' \in Blocks /\ block'[r] = words
  BY <1>1, <1>3, <1>4 DEF Blocks, TypeOK
<1>6. Value(block', r) = Decoded(words, Profile[r]) * Profile[r].scale
  BY <1>5 DEF Value
<1>7. Decoded(words, Profile[r]) * Profile[r].scale \in Int
  BY <1>1, <1>5, <1>6, ValueType
<1> QED
  BY <1>4, <1>5, <1>7 DEF TypeOK

LEMMA TypeInit == Init => TypeOK
<1> SUFFICES ASSUME Init PROVE TypeOK
  OBVIOUS
<1>1. block \in Blocks
  BY ZerosType DEF Init
<1>2. target \in [Writable -> Int \cup {None}] /\ sent \in [Writable -> Int \cup {None}]
  BY DEF Init, Unsent
<1>3. tags \in [Register -> Int] /\ offered \in [Measurement -> SUBSET Int]
  BY DEF Init
<1>4. budget \in 0..MaxEvents /\ timeouts \in 0..MaxTimeouts /\ at \in Nat \ {0}
  BY LinkAssumption DEF Init
<1>5. report \in Seq({"good", "implausible", "exception", "silence"})
  BY DEF Init
<1>6. failed \subseteq Register /\ faults \subseteq Fault
  BY DEF Init
<1> QED
  BY <1>1, <1>2, <1>3, <1>4, <1>5, <1>6 DEF Init, TypeOK

LEMMA AnswersType ==
  ASSUME NEW id PROVE Answers(id) \in {"silence", "exception", "data"}
BY DEF Answers

LEMMA ClampedType ==
  ASSUME NEW r, IsRegister(r), NEW v \in Int
  PROVE  Clamped(v, r) \in Int /\ r.min <= Clamped(v, r) /\ Clamped(v, r) <= r.max
BY DEF Clamped, IsRegister
LEMMA TypeStep == TypeOK /\ [Next]_vars => TypeOK'
<1> SUFFICES ASSUME TypeOK, [Next]_vars PROVE TypeOK'
  OBVIOUS
<1> USE DEF TypeOK, site, device, driver, tool, history
<1>a. /\ Unsent \in [Writable -> Int \cup {None}]
      /\ Slave \in Ids
  BY LinkAssumption DEF Unsent
<1>b. Spend => budget' \in 0..MaxEvents
  BY LinkAssumption DEF Spend
<1>1. CASE Publish
  <2>1. \A r \in Measurement : fields'[r] \in Int
    BY <1>1, LinkAssumption DEF Publish
  <2>2. offered' \in [Measurement -> SUBSET Int]
    BY <1>1, <2>1 DEF Publish
  <2>3. fields' \in Samples /\ budget' \in 0..MaxEvents
    BY <1>1, <1>b DEF Publish
  <2> QED
    BY <1>1, <2>2, <2>3 DEF Publish
<1>2. CASE SetFault
  <2>1. faults' \subseteq Fault /\ frozen' \in BOOLEAN /\ budget' \in 0..MaxEvents
    BY <1>2, <1>b DEF SetFault
  <2> QED
    BY <1>2, <2>1 DEF SetFault
<1>3. CASE SetOffline
  <2>1. block' \in Blocks
    BY <1>3, ZerosType DEF SetOffline
  <2>2. serving' \in BOOLEAN /\ budget' \in 0..MaxEvents
    BY <1>3, <1>b DEF SetOffline
  <2> QED
    BY <1>3, <2>1, <2>2 DEF SetOffline
<1>4. CASE StartPoll
  <2>1. offered' \in [Measurement -> SUBSET Int]
    BY <1>4, LinkAssumption DEF StartPoll
  <2> QED
    BY <1>4, <2>1 DEF StartPoll
<1>5. CASE Read
  <2>1. block' \in Blocks
    BY <1>5, ServeType DEF Read
  <2>2. tags' \in [Register -> Int]
    BY <1>5, <2>1, ValueType DEF Read
  <2>3. failed' \subseteq Register /\ at' \in Nat \ {0}
    BY <1>5 DEF Read, Advance
  <2> QED
    BY <1>5, <2>1, <2>2, <2>3 DEF Read
<1>6. CASE ReadLost
  <2>1. block' \in Blocks /\ budget' \in 0..MaxEvents
    BY <1>6, <1>b, ServeType DEF ReadLost
  <2>2. EndPoll("lost") /\ ForgetPoll
    BY <1>6 DEF ReadLost
  <2>3. offered' \in [Measurement -> SUBSET Int] /\ frozen' \in BOOLEAN /\ UNCHANGED calm
    BY <2>2 DEF ForgetPoll
  <2> QED
    BY <1>6, <2>1, <2>2, <2>3 DEF ReadLost, EndPoll
<1>7. CASE PollDone
  <2>1. ForgetPoll /\ (EndPoll("good") \/ EndPoll("rejected"))
    BY <1>7 DEF PollDone
  <2>2. offered' \in [Measurement -> SUBSET Int] /\ frozen' \in BOOLEAN /\ UNCHANGED calm
    BY <2>1 DEF ForgetPoll
  <2> QED
    BY <1>7, <2>1, <2>2 DEF PollDone, EndPoll
<1>8. CASE StartFlush
  <2>1. sent' \in [Writable -> Int \cup {None}]
    <3>1. PICK due \in SUBSET Writable : \E w \in [due -> Commands] :
            sent' = [r \in Writable |-> IF r \in due THEN Clamped(w[r], Profile[r]) ELSE None]
      BY <1>8 DEF StartFlush
    <3>2. PICK w \in [due -> Commands] :
            sent' = [r \in Writable |-> IF r \in due THEN Clamped(w[r], Profile[r]) ELSE None]
      BY <3>1
    <3>3. \A r \in due : Clamped(w[r], Profile[r]) \in Int
      BY LinkAssumption, Registers, ClampedType DEF Writable
    <3> QED
      BY <3>2, <3>3
  <2> QED
    BY <1>8, <2>1 DEF StartFlush
<1>9. CASE Skip
  BY <1>9 DEF Skip
<1>10. CASE Write
  <2>1. block' \in Blocks /\ target' \in [Writable -> Int \cup {None}]
    BY <1>10, TakeType DEF Write, Writing
  <2>2. failed' \subseteq Register /\ at' \in Nat \ {0}
    BY <1>10 DEF Write, Writing, Advance, Writable
  <2> QED
    BY <1>10, <2>1, <2>2 DEF Write
<1>11. CASE WriteLost
  <2>1. block' \in Blocks /\ target' \in [Writable -> Int \cup {None}]
    BY <1>11, TakeType DEF WriteLost, Writing
  <2>2. budget' \in 0..MaxEvents
    BY <1>11, <1>b DEF WriteLost
  <2> QED
    BY <1>11, <2>1, <2>2, <1>a DEF WriteLost, EndFlush
<1>12. CASE FlushDone
  BY <1>12, <1>a DEF FlushDone, EndFlush
<1>13. CASE StartProbe
  BY <1>13, LinkAssumption DEF StartProbe
<1>14. ASSUME NEW answer \in {"silence", "exception", "data"}, Probing, Probed(answer),
              calm' \in BOOLEAN, budget' \in 0..MaxEvents
       PROVE  TypeOK'
  <2>1. block' \in Blocks
    BY <1>14, ServeType DEF Probed
  <2>2. Entry(answer) \in {"good", "implausible", "exception", "silence"}
    BY <1>14 DEF Entry
  <2>3. report' \in Seq({"good", "implausible", "exception", "silence"})
    BY <1>14, <2>2 DEF Probed
  <2>4. timeouts' \in 0..MaxTimeouts
    BY <1>14, LinkAssumption DEF Probed, Counted, Probing
  <2> QED
    BY <1>14, <2>1, <2>3, <2>4 DEF Probed, Probing
<1>15. CASE Probe
  BY <1>14, <1>15, AnswersType DEF Probe
<1>16. CASE ProbeLost
  BY <1>14, <1>16, <1>b DEF ProbeLost
<1>17. CASE ProbeDone
  BY <1>17 DEF ProbeDone
<1>18. ASSUME NEW answer, Scanned(answer), calm' \in BOOLEAN, budget' \in 0..MaxEvents
       PROVE  TypeOK'
  <2>1. block' \in Blocks
    BY <1>18, ServeType DEF Scanned
  <2> QED
    BY <1>18, <2>1 DEF Scanned
<1>19. CASE Scan
  BY <1>18, <1>19 DEF Scan
<1>20. CASE ScanLost
  BY <1>18, <1>20, <1>b DEF ScanLost
<1>21. CASE ScanDone
  BY <1>21 DEF ScanDone
<1>22. CASE UNCHANGED vars
  BY <1>22 DEF vars
<1> QED
  BY <1>1, <1>2, <1>3, <1>4, <1>5, <1>6, <1>7, <1>8, <1>9, <1>10, <1>11, <1>12, <1>13, <1>15,
     <1>16, <1>17, <1>19, <1>20, <1>21, <1>22 DEF Next, Disturbance, Worker, Diagnosis

(* Every variable keeps its type, for every profile: whatever is published, *)
(* commanded or read, the words of a register stay words                    *)
(* (modbus_device.py:200).                                                  *)
THEOREM TypeCorrect == Spec => []TypeOK
<1> QED
  BY TypeInit, TypeStep, PTL DEF Spec
-----------------------------------------------------------------------------
(* Setpoints *)

(* What is being flushed is within the bounds of its register.              *)
Bounded ==
  \A r \in Writable : sent[r] # None => Profile[r].min <= sent[r] /\ sent[r] <= Profile[r].max

LEMMA BoundedInit == Init => Bounded
BY DEF Init, Bounded, Unsent

LEMMA BoundedStep == TypeOK /\ Bounded /\ [Next]_vars => Bounded'
<1> SUFFICES ASSUME TypeOK, Bounded, [Next]_vars PROVE Bounded'
  OBVIOUS
<1>1. CASE StartFlush
  <2>1. PICK due \in SUBSET Writable : \E w \in [due -> Commands] :
          sent' = [r \in Writable |-> IF r \in due THEN Clamped(w[r], Profile[r]) ELSE None]
    BY <1>1 DEF StartFlush
  <2>2. PICK w \in [due -> Commands] :
          sent' = [r \in Writable |-> IF r \in due THEN Clamped(w[r], Profile[r]) ELSE None]
    BY <2>1
  <2>3. \A r \in due : /\ Profile[r].min <= Clamped(w[r], Profile[r])
                       /\ Clamped(w[r], Profile[r]) <= Profile[r].max
    BY LinkAssumption, Registers, ClampedType DEF Writable
  <2> QED
    BY <2>2, <2>3 DEF Bounded
<1>2. CASE sent' = Unsent
  BY <1>2 DEF Bounded, Unsent
<1>3. CASE UNCHANGED sent
  BY <1>3 DEF Bounded
<1>4. StartFlush \/ sent' = Unsent \/ UNCHANGED sent
  BY DEF Next, Disturbance, Worker, Diagnosis, vars, driver, Publish, SetFault, SetOffline,
         StartPoll, Read, ReadLost, PollDone, EndPoll, Skip, Write, WriteLost, FlushDone, EndFlush,
         StartProbe, Probe, ProbeLost, Probed, ProbeDone, Scan, ScanLost, Scanned, ScanDone
<1> QED
  BY <1>1, <1>2, <1>3, <1>4

(* The count of a setpoint fits its register when the bounds do.            *)
LEMMA CountFits ==
  ASSUME TypeOK, Bounded, NEW r \in Writable, Guarded(Profile[r]), sent[r] # None
  PROVE  Holds(Profile[r], Truncated(sent[r], Profile[r].scale))
<1> DEFINE n == Profile[r].scale
           lo == Truncated(Profile[r].min, n)
           hi == Truncated(Profile[r].max, n)
           t == Truncated(sent[r], n)
<1>1. /\ IsRegister(Profile[r]) /\ n \in Nat \ {0}
      /\ Profile[r].min \in Int /\ Profile[r].max \in Int /\ sent[r] \in Int
      /\ Profile[r].min <= sent[r] /\ sent[r] <= Profile[r].max
  BY Registers DEF Writable, TypeOK, Bounded
<1>2. lo \in Int /\ hi \in Int /\ t \in Int
  BY <1>1, TruncatedNear
<1>3. lo <= t /\ t <= hi
  BY <1>1, TruncatedMonotone
<1>4. Holds(Profile[r], lo) /\ Holds(Profile[r], hi)
  BY DEF Guarded
<1>5. Span(Profile[r]) \in Int /\ Half(Profile[r]) \in Int
  BY BaseAssumption DEF Span, Half
<1> HIDE DEF lo, hi, t
<1> QED
  BY <1>2, <1>3, <1>4, <1>5 DEF Holds, t

(* What the device takes is the setpoint without the fraction of a count.   *)
LEMMA Taken ==
  ASSUME TypeOK, Bounded, NEW r \in Writable, Guarded(Profile[r]), sent[r] # None, Take(r)
  PROVE  /\ target'[r] = Truncated(sent[r], Profile[r].scale) * Profile[r].scale
         /\ target'[r] \in Int
         /\ \A q \in Writable \ {r} : target'[q] = target[q]
<1> DEFINE t == Truncated(sent[r], Profile[r].scale)
<1>1. r \in Register /\ sent[r] \in Int /\ IsRegister(Profile[r]) /\ Profile[r].scale \in Nat \ {0}
  BY Registers DEF TypeOK, Writable
<1>2. t \in Int /\ Holds(Profile[r], t)
  BY <1>1, TruncatedNear, CountFits
<1> HIDE DEF t
<1>3. Decoded(Encoded(t, Profile[r]), Profile[r]) = t
  BY <1>1, <1>2, RoundTrip
<1>4. target' = [target EXCEPT ![r] = t * Profile[r].scale]
  BY <1>3 DEF Take, t
<1> QED
  BY <1>1, <1>2, <1>4 DEF TypeOK, t

(* ... so it is of the same sign, no larger, and less than a count away.    *)
LEMMA TakenNear ==
  ASSUME TypeOK, Bounded, NEW r \in Writable, Guarded(Profile[r]), sent[r] # None, Take(r)
  PROVE  /\ \/ 0 <= target'[r] /\ target'[r] <= sent[r]
            \/ target'[r] <= 0 /\ sent[r] <= target'[r]
         /\ target'[r] \in Int
         /\ Magnitude(sent[r] - target'[r]) < Profile[r].scale
<1> DEFINE n == Profile[r].scale
           t == Truncated(sent[r], n)
<1>1. sent[r] \in Int /\ n \in Nat \ {0}
  BY Registers DEF TypeOK, Writable
<1>2. /\ t \in Int
      /\ sent[r] >= 0 => 0 <= t /\ n * t <= sent[r] /\ sent[r] < n * t + n
      /\ sent[r] < 0 => t <= 0 /\ sent[r] <= n * t /\ n * t < sent[r] + n
  BY <1>1, TruncatedNear
<1>3. target'[r] = t * n
  BY Taken
<1> HIDE DEF n, t
<1>4. t * n = n * t /\ n * t \in Int
  BY <1>1, <1>2
<1>5. (t >= 0 => n * t >= 0) /\ (t <= 0 => n * t <= 0)
  BY <1>1, <1>2
<1> QED
  BY <1>1, <1>2, <1>3, <1>4, <1>5 DEF Magnitude, n

(* Only a write that is taken changes what the device was told.             *)
LEMMA OnlyTake ==
  ASSUME TypeOK, [Next]_vars
  PROVE  \/ UNCHANGED target
         \/ Take(at) /\ at \in Writable /\ sent[at] # None
BY DEF Next, Disturbance, Worker, Diagnosis, vars, device, Publish, SetFault, SetOffline,
       StartPoll, Read, ReadLost, PollDone, StartFlush, Skip, Write, WriteLost, Writing, FlushDone,
       StartProbe, Probe, ProbeLost, Probed, ProbeDone, Scan, ScanLost, Scanned, ScanDone

(* When the bounds of every writable register are counts the register can   *)
(* hold, no device is ever told more than what was commanded, whatever the  *)
(* faults (modbus_device.py:538).                                           *)
THEOREM NoneBeyond ==
  ASSUME \A r \in Writable : Guarded(Profile[r])
  PROVE  Spec => NeverBeyond
<1> DEFINE Step == \A r \in Writable : target'[r] # target[r] =>
                     \/ 0 <= target'[r] /\ target'[r] <= sent[r]
                     \/ target'[r] <= 0 /\ sent[r] <= target'[r]
<1>1. TypeOK /\ Bounded /\ [Next]_vars => [Step]_vars
  <2> SUFFICES ASSUME TypeOK, Bounded, [Next]_vars, NEW r \in Writable, target'[r] # target[r]
               PROVE  \/ 0 <= target'[r] /\ target'[r] <= sent[r]
                      \/ target'[r] <= 0 /\ sent[r] <= target'[r]
    OBVIOUS
  <2>1. Take(at) /\ at \in Writable /\ sent[at] # None
    BY OnlyTake
  <2>2. r = at
    BY <2>1, Taken
  <2> QED
    BY <2>1, <2>2, TakenNear
<1>2. Init => Bounded
  BY BoundedInit
<1>3. TypeOK /\ Bounded /\ [Next]_vars => Bounded'
  BY BoundedStep
<1>4. [][Step]_vars <=> NeverBeyond
  BY PTL DEF NeverBeyond
<1> QED
  BY <1>1, <1>2, <1>3, <1>4, TypeCorrect, PTL DEF Spec
(* The setpoints the loop has passed and not noted as failed have landed.   *)
Flushing ==
  op = "flush" => \A r \in Writable : r < at /\ sent[r] # None /\ r \notin failed => Landed(r)

LEMMA FlushingStep ==
  ASSUME \A r \in Writable : Guarded(Profile[r])
  PROVE  TypeOK /\ Bounded /\ Flushing /\ [Next]_vars => Flushing'
<1> SUFFICES ASSUME TypeOK, Bounded, Flushing, [Next]_vars, op' = "flush" PROVE Flushing'
  BY DEF Flushing
<1> USE DEF Flushing, Landed
<1>0. at \in Nat \ {0} /\ \A r \in Writable : r \in Nat \ {0}
  BY Registers DEF TypeOK, Writable
<1>1. CASE StartFlush
  BY <1>0, <1>1 DEF StartFlush
<1>2. CASE Skip
  BY <1>0, <1>2 DEF Skip, Writing, device
<1>3. CASE Write
  <2>1. op = "flush" /\ at \in Writable /\ sent[at] # None /\ UNCHANGED sent /\ at' = at + 1
    BY <1>3 DEF Write, Writing, Advance
  <2>2. CASE Accepting
    <3>1. Take(at) /\ failed' = failed
      BY <1>3, <2>2 DEF Write, Advance
    <3>2. /\ target'[at] \in Int /\ Magnitude(sent[at] - target'[at]) < Profile[at].scale
          /\ \A q \in Writable \ {at} : target'[q] = target[q]
      BY <2>1, <3>1, Taken, TakenNear
    <3>3. target'[at] # None
      BY <3>2, LinkAssumption
    <3> QED
      BY <1>0, <2>1, <3>1, <3>2, <3>3
  <2>3. CASE ~Accepting
    BY <1>0, <1>3, <2>1, <2>3 DEF Write, Advance
  <2> QED
    BY <2>2, <2>3
<1>4. CASE UNCHANGED <<op, at, sent, failed, target>>
  BY <1>4
<1>5. StartFlush \/ Skip \/ Write \/ UNCHANGED <<op, at, sent, failed, target>>
  <2>1. CASE Disturbance \/ UNCHANGED vars
    BY <2>1 DEF Disturbance, vars, driver, device, Publish, SetFault, SetOffline
  <2>2. CASE Worker
    BY <2>2 DEF Worker, driver, device, StartPoll, Read, ReadLost, PollDone, EndPoll, WriteLost,
           FlushDone, EndFlush
  <2>3. CASE Diagnosis
    BY <2>3 DEF Diagnosis, StartProbe, Probe, ProbeLost, Probing, Probed, ProbeDone, Scan, ScanLost,
           Scanning, Scanned, ScanDone
  <2> QED
    BY <2>1, <2>2, <2>3 DEF Next
<1> QED
  BY <1>1, <1>2, <1>3, <1>4, <1>5

(* When the bounds of every writable register are counts the register can   *)
(* hold, each setpoint a flush got past and did not report as rejected is   *)
(* in the device, to less than a count (modbus_device.py:524).              *)
THEOREM SetpointsLand ==
  ASSUME \A r \in Writable : Guarded(Profile[r])
  PROVE  Spec => WritesLand
<1> DEFINE Step == op = "flush" /\ op' = "flushed" /\ outcome' # "lost" =>
                     \A r \in Writable : sent[r] # None /\ r \notin failed => Landed(r)
<1>1. TypeOK /\ Flushing /\ [Next]_vars => [Step]_vars
  <2> SUFFICES ASSUME TypeOK, Flushing, [Next]_vars, op = "flush", op' = "flushed",
                      outcome' # "lost"
               PROVE  \A r \in Writable : sent[r] # None /\ r \notin failed => Landed(r)
    OBVIOUS
  <2>1. FlushDone
    BY DEF Next, Disturbance, Worker, Diagnosis, vars, driver, Publish, SetFault, SetOffline,
           StartPoll, Read, ReadLost, PollDone, StartFlush, Skip, Write, WriteLost, EndFlush,
           StartProbe, Probe, ProbeLost, Probing, ProbeDone, Scan, ScanLost, Scanning, ScanDone
  <2>2. \A r \in Writable : r < at
    BY <2>1, ProfileAssumption DEF FlushDone, Register, Writable, TypeOK
  <2> QED
    BY <2>2 DEF Flushing
<1>2. Init => Bounded /\ Flushing
  BY BoundedInit DEF Init, Flushing
<1>3. TypeOK /\ Bounded /\ Flushing /\ [Next]_vars => Bounded' /\ Flushing'
  BY BoundedStep, FlushingStep
<1>4. [][Step]_vars <=> WritesLand
  BY PTL DEF WritesLand
<1> QED
  BY <1>1, <1>2, <1>3, <1>4, TypeCorrect, PTL DEF Spec

-----------------------------------------------------------------------------
(* Measurements *)

(* Every value the plant publishes fits its register.                       *)
Published ==
  \A s \in Samples : \A r \in Measurement :
    Holds(Profile[r], Rounded(s[r], Profile[r].scale))

(* During a poll: what the device has is one of the values it was seen to   *)
(* have, and the registers passed without failure have brought such a       *)
(* value, unless the device froze.                                          *)
Polling ==
  op = "poll" =>
    /\ outcome = "none"
    /\ \A r \in Measurement : fields[r] \in offered[r]
    /\ ~frozen =>
         /\ "freeze" \notin faults
         /\ \A r \in Measurement :
              r < at /\ r \notin failed => \E w \in offered[r] : Near(tags[r], w, r)

(* A register read without failure brings the value of now.                 *)
LEMMA ReadNear ==
  ASSUME Published, TypeOK, NEW r \in Measurement, "freeze" \notin faults, block' = Refreshed
  PROVE  Near(Value(block', r), fields[r], r)
<1> DEFINE n == Profile[r].scale
           t == Rounded(fields[r], n)
<1>1. r \in Register /\ fields[r] \in Int /\ IsRegister(Profile[r]) /\ n \in Nat \ {0}
  BY Registers, LinkAssumption DEF TypeOK, Measurement
<1>2. t \in Int /\ 2 * Magnitude(t * n - fields[r]) <= n
  BY <1>1, RoundedNear
<1>3. Holds(Profile[r], t)
  BY DEF Published, TypeOK
<1> HIDE DEF t
<1>4. Decoded(Encoded(t, Profile[r]), Profile[r]) = t
  BY <1>1, <1>2, <1>3, RoundTrip
<1>5. block'[r] = Encoded(t, Profile[r])
  BY <1>1 DEF Refreshed, t
<1>6. Value(block', r) = t * n
  BY <1>4, <1>5 DEF Value
<1> QED
  BY <1>2, <1>6 DEF Near

LEMMA PollingStep ==
  ASSUME Published PROVE TypeOK /\ Polling /\ [Next]_vars => Polling'
<1> SUFFICES ASSUME TypeOK, Polling, [Next]_vars, op' = "poll" PROVE Polling'
  BY DEF Polling
<1>0. at \in Nat \ {0} /\ \A r \in Measurement : r \in Nat \ {0} /\ r \in Register
  BY Registers DEF TypeOK, Measurement
<1>1. CASE Publish
  <2>1. /\ op = "poll" /\ UNCHANGED <<op, at, tags, failed, outcome, faults, frozen>>
        /\ offered' = [r \in Measurement |-> offered[r] \cup {fields'[r]}]
    BY <1>1 DEF Publish, driver
  <2>2. \A r \in Measurement : offered[r] \subseteq offered'[r] /\ fields'[r] \in offered'[r]
    BY <2>1
  <2> QED
    BY <2>1, <2>2 DEF Polling, Near
<1>2. CASE SetFault
  BY <1>2 DEF SetFault, Polling, driver, Near
<1>3. CASE StartPoll
  <2>1. /\ at' = 1 /\ outcome' = "none" /\ frozen' = ("freeze" \in faults)
        /\ UNCHANGED <<fields, faults>>
        /\ offered' = [r \in Measurement |-> {fields[r]}]
    BY <1>3 DEF StartPoll, device
  <2>2. \A r \in Measurement : ~(r < at') /\ fields'[r] \in offered'[r]
    BY <1>0, <2>1
  <2> QED
    BY <2>1, <2>2 DEF Polling
<1>4. CASE Read
  <2> DEFINE good == Answers(Slave) = "data" /\ Plausible(at, Value(block', at))
  <2>1. /\ op = "poll" /\ at \in Register /\ Serve(Answers(Slave)) /\ Advance(good)
        /\ tags' = IF good THEN [tags EXCEPT ![at] = Value(block', at)] ELSE tags
        /\ UNCHANGED <<fields, faults, outcome, offered, frozen>>
    BY <1>4 DEF Read, history
  <2>2. good => block' = Refreshed
    BY <2>1 DEF Serve
  <2> HIDE DEF good
  <2>3. ASSUME ~frozen, NEW r \in Measurement, r < at + 1, r \notin failed'
        PROVE  \E w \in offered[r] : Near(tags'[r], w, r)
    <3>1. CASE r = at
      <4>1. good
        BY <2>1, <2>3, <3>1 DEF Advance
      <4>2. Near(Value(block', r), fields[r], r) /\ fields[r] \in offered[r]
        BY <2>1, <2>2, <2>3, <4>1, ReadNear DEF Polling
      <4>3. tags'[r] = Value(block', r)
        BY <1>0, <2>1, <3>1, <4>1 DEF TypeOK
      <4> QED
        BY <4>2, <4>3
    <3>2. CASE r # at
      <4>1. r < at /\ r \notin failed /\ tags'[r] = tags[r]
        BY <1>0, <2>1, <2>3, <3>2 DEF Advance, TypeOK
      <4> QED
        BY <2>1, <2>3, <4>1 DEF Polling
    <3> QED
      BY <3>1, <3>2
  <2>4. at' = at + 1
    BY <2>1 DEF Advance
  <2> QED
    BY <2>1, <2>3, <2>4 DEF Polling, Near
<1>5. CASE UNCHANGED <<op, at, tags, failed, outcome, fields, faults, offered, frozen>>
  BY <1>5 DEF Polling, Near
<1>6. \/ Publish \/ SetFault \/ StartPoll \/ Read
      \/ UNCHANGED <<op, at, tags, failed, outcome, fields, faults, offered, frozen>>
  <2>1. CASE Disturbance \/ UNCHANGED vars
    BY <2>1 DEF Disturbance, vars, driver, device, history, SetOffline
  <2>2. CASE Worker
    BY <2>2 DEF Worker, ReadLost, PollDone, EndPoll, StartFlush, Skip, Write, WriteLost, FlushDone,
           EndFlush, Writing, history, device
  <2>3. CASE Diagnosis
    <3>1. CASE Probe \/ ProbeLost \/ Scan \/ ScanLost
      BY <3>1 DEF Probe, ProbeLost, Probing, Probed, Scan, ScanLost, Scanning, Scanned
    <3>2. CASE StartProbe \/ ProbeDone \/ ScanDone
      BY <3>2 DEF StartProbe, ProbeDone, ScanDone
    <3> QED
      BY <2>3, <3>1, <3>2 DEF Diagnosis
  <2> QED
    BY <2>1, <2>2, <2>3 DEF Next
<1> QED
  BY <1>1, <1>2, <1>3, <1>4, <1>5, <1>6

(* When what the plant publishes fits the registers, a poll that counts as  *)
(* good has brought each measurement as it was at some time during that     *)
(* poll, for every profile, whatever faults came and went between its       *)
(* requests (modbus_device.py:503).                                         *)
THEOREM PollsAreCurrent == ASSUME Published PROVE Spec => PollIsCurrent
<1> DEFINE Step == op = "poll" /\ outcome' = "good" /\ ~frozen =>
                     \A r \in Measurement : \E w \in offered[r] : Near(tags'[r], w, r)
<1>1. TypeOK /\ Polling /\ [Next]_vars => [Step]_vars
  <2> SUFFICES ASSUME TypeOK, Polling, [Next]_vars, op = "poll", outcome' = "good", ~frozen
               PROVE  \A r \in Measurement : \E w \in offered[r] : Near(tags'[r], w, r)
    OBVIOUS
  <2>1. PollDone
    BY DEF Polling, Next, Disturbance, Worker, Diagnosis, vars, driver, Publish, SetFault,
           SetOffline, StartPoll, Read, ReadLost, EndPoll, StartFlush, Skip, Write, WriteLost,
           Writing, FlushDone, StartProbe, Probe, ProbeLost, Probing, ProbeDone, Scan, ScanLost,
           Scanning, ScanDone
  <2>2. failed = {} /\ at \notin Register /\ UNCHANGED tags
    BY <2>1 DEF PollDone, EndPoll
  <2>3. \A r \in Measurement : r < at
    BY <2>2, ProfileAssumption DEF Register, Measurement, TypeOK
  <2> QED
    BY <2>2, <2>3 DEF Polling
<1>2. Init => Polling
  BY DEF Init, Polling
<1>3. TypeOK /\ Polling /\ [Next]_vars => Polling'
  BY PollingStep
<1>4. [][Step]_vars <=> PollIsCurrent
  BY PTL DEF PollIsCurrent
<1> QED
  BY <1>1, <1>2, <1>3, <1>4, TypeCorrect, PTL DEF Spec

-----------------------------------------------------------------------------
(* Diagnosis *)

Place(id) == Cardinality({n \in Ids : n < id}) + 1

Entries == [id : {IdOf(i) : i \in Nat}, alive : BOOLEAN,
            status : {"silence", "exception", "data"}]

(* Only the configured id was read from; and of the ids tried, none but the *)
(* device's gave data, and it was noticed if nothing came in between.       *)
Diagnosed ==
  /\ scan \in Seq(Entries)
  /\ op = "probe" => scan = <<>> /\ (Answered(report) => actual = Slave)
  /\ op = "scan" =>
       /\ Only(actual)
       /\ calm /\ serving => \A i \in 1..(at - 1) : IdOf(i) = actual => Told(actual)

(* The scan comes past every id: as many are smaller as are tried before it.*)
LEMMA Smaller ==
  ASSUME NEW a \in Ids, NEW b \in Ids, a < b
  PROVE  Cardinality({n \in Ids : n < a}) # Cardinality({n \in Ids : n < b})
<1> DEFINE A == {n \in Ids : n < a}
           B == {n \in Ids : n < b}
<1>1. Ids \subseteq Int /\ IsFiniteSet(Ids)
  BY LinkAssumption
<1>2. A \subseteq B /\ a \in B /\ a \notin A
  <2>1. a \in Int /\ b \in Int
    BY <1>1
  <2>2. ASSUME NEW n \in A PROVE n \in B
    <3>1. n \in Ids /\ n \in Int /\ n < a
      BY <1>1
    <3> QED
      BY <2>1, <3>1
  <2>3. a \notin A
    BY <2>1
  <2> QED
    BY <2>2, <2>3
<1>3. IsFiniteSet(B)
  BY <1>1, FS_Subset
<1>4. A \in SUBSET B /\ A # B
  BY <1>2
<1> HIDE DEF A, B
<1>5. Cardinality(A) # Cardinality(B)
  BY <1>3, <1>4, FS_Subset
<1> QED
  BY <1>5 DEF A, B

LEMMA PlaceOf ==
  ASSUME NEW id \in Ids
  PROVE  /\ Place(id) \in 1..Cardinality(Ids) /\ Cardinality(Ids) \in Nat
         /\ IdOf(Place(id)) = id
<1> DEFINE S(b) == {n \in Ids : n < b}
<1>1. Ids \subseteq Int /\ IsFiniteSet(Ids)
  BY LinkAssumption
<1>2. S(id) \in SUBSET Ids /\ id \notin S(id)
  BY <1>1
<1>3. Cardinality(Ids) \in Nat /\ IsFiniteSet(S(id))
  BY <1>1, <1>2, FS_Subset, FS_CardinalityType
<1>4. Cardinality(S(id)) \in Nat /\ Cardinality(S(id)) <= Cardinality(Ids)
  BY <1>1, <1>2, <1>3, FS_Subset, FS_CardinalityType
<1>5. Cardinality(S(id)) # Cardinality(Ids)
  BY <1>1, <1>2, FS_Subset
<1>6. Place(id) \in 1..Cardinality(Ids) /\ Cardinality(S(id)) = Place(id) - 1
  BY <1>3, <1>4, <1>5 DEF Place
<1>7. ASSUME NEW other \in Ids, Cardinality(S(other)) = Place(id) - 1
      PROVE  other = id
  <2>1. other \in Int /\ id \in Int
    BY <1>1
  <2> QED
    BY <1>6, <1>7, <2>1, Smaller
<1> QED
  BY <1>3, <1>6, <1>7 DEF IdOf

(* What is appended is at the end, and the rest stays.                      *)
LEMMA Appended ==
  ASSUME NEW S, NEW s \in Seq(S), NEW e \in S
  PROVE  /\ Append(s, e) \in Seq(S) /\ Len(Append(s, e)) = Len(s) + 1 /\ Len(s) \in Nat
         /\ \A i \in 1..Len(s) : Append(s, e)[i] = s[i]
         /\ Append(s, e)[Len(s) + 1] = e
OBVIOUS

LEMMA ProbedStep ==
  ASSUME TypeOK, Diagnosed, Probing,
         NEW answer \in {"silence", "exception", "data"}, Probed(answer),
         answer = "data" => actual = Slave
  PROVE  Answered(report') => actual = Slave
<1>1. /\ report \in Seq({"good", "implausible", "exception", "silence"})
      /\ report' = Append(report, Entry(answer))
      /\ Entry(answer) \in {"good", "implausible", "exception", "silence"}
      /\ Entry(answer) \in {"good", "implausible"} => answer = "data"
  BY DEF TypeOK, Probed, Entry
<1>2. /\ Len(report') = Len(report) + 1 /\ Len(report) \in Nat
      /\ \A i \in 1..Len(report) : report'[i] = report[i]
      /\ report'[Len(report) + 1] = Entry(answer)
  BY <1>1, Appended
<1>3. SUFFICES ASSUME NEW i \in 1..Len(report'), report'[i] \in {"good", "implausible"}
               PROVE  actual = Slave
  BY DEF Answered
<1>4. CASE i \in 1..Len(report)
  BY <1>2, <1>3, <1>4 DEF Diagnosed, Answered, Probing
<1>5. CASE i = Len(report) + 1
  BY <1>1, <1>2, <1>3, <1>5
<1> QED
  BY <1>2, <1>4, <1>5

(* An id that is tried is noted; the device's own answers if it serves.     *)
LEMMA ScannedStep ==
  ASSUME TypeOK, Diagnosed, Scanning,
         NEW answer \in {"silence", "exception", "data"}, Scanned(answer),
         answer = "data" => IdOf(at) = actual
  PROVE  /\ scan' \in Seq(Entries) /\ Only(actual)'
         /\ Told(actual) => Told(actual)'
         /\ IdOf(at) = actual /\ answer # "silence" => Told(actual)'
<1> DEFINE e == [id |-> IdOf(at), alive |-> Live(answer), status |-> answer]
<1>1. scan \in Seq(Entries) /\ e \in Entries /\ scan' = Append(scan, e) /\ actual' = actual
  BY DEF Diagnosed, Scanned, Entries, TypeOK, Live, site
<1>2. /\ scan' \in Seq(Entries) /\ Len(scan') = Len(scan) + 1 /\ Len(scan) \in Nat
      /\ \A i \in 1..Len(scan) : scan'[i] = scan[i]
      /\ scan'[Len(scan) + 1] = e
  <2> HIDE DEF e
  <2> QED
    BY <1>1, Appended
<1>3. Len(scan) + 1 \in 1..Len(scan') /\ 1..Len(scan) \subseteq 1..Len(scan')
  BY <1>2
<1>4. Told(actual) => Told(actual)'
  BY <1>1, <1>2, <1>3 DEF Told
<1>5. IdOf(at) = actual /\ answer # "silence" => Told(actual)'
  <2> SUFFICES ASSUME IdOf(at) = actual, answer # "silence" PROVE Told(actual)'
    OBVIOUS
  <2>1. scan'[Len(scan) + 1].id = actual'
    BY <1>1, <1>2
  <2>2. e.alive
    BY Zenon DEF Live
  <2>3. scan'[Len(scan) + 1].alive
    BY <1>2, <2>2, Zenon
  <2> QED
    BY <1>3, <2>1, <2>3, Zenon DEF Told
<1>6. Only(actual)'
  <2> SUFFICES ASSUME NEW i \in 1..Len(scan'), scan'[i].status = "data"
               PROVE  scan'[i].id = actual
    BY <1>1 DEF Only
  <2>1. CASE i \in 1..Len(scan)
    BY <1>2, <2>1 DEF Diagnosed, Only, Scanning
  <2>2. CASE i = Len(scan) + 1
    BY <1>2, <2>2
  <2> QED
    BY <1>2, <2>1, <2>2
<1> QED
  BY <1>2, <1>4, <1>5, <1>6

LEMMA DiagnosedStep == TypeOK /\ Diagnosed /\ [Next]_vars => Diagnosed'
<1> SUFFICES ASSUME TypeOK, Diagnosed, [Next]_vars PROVE Diagnosed'
  OBVIOUS
<1>0. at \in Nat \ {0}
  BY DEF TypeOK
<1>1. CASE StartProbe
  BY <1>1 DEF StartProbe, Diagnosed, Answered
<1>2. CASE Probe \/ ProbeLost
  <2>1. PICK answer \in {"silence", "exception", "data"} :
          Probing /\ Probed(answer) /\ (answer = "data" => actual = Slave)
    BY <1>2, AnswersType DEF Probe, ProbeLost, Answers
  <2>2. Answered(report') => actual = Slave
    BY <2>1, ProbedStep
  <2>3. op' = "probe" /\ UNCHANGED <<actual, scan>> /\ op = "probe"
    BY <2>1 DEF Probed, Probing, site
  <2> QED
    BY <2>2, <2>3 DEF Diagnosed, Answered
<1>3. CASE ProbeDone
  BY <1>3 DEF ProbeDone, Diagnosed, Only, tool, site
<1>4. CASE Scan \/ ScanLost
  <2>1. PICK answer \in {"silence", "exception", "data"} :
          /\ Scanning /\ Scanned(answer) /\ (answer = "data" => IdOf(at) = actual)
          /\ calm' /\ serving /\ IdOf(at) = actual => answer # "silence"
    BY <1>4, AnswersType DEF Scan, ScanLost, Answers
  <2>2. /\ scan' \in Seq(Entries) /\ Only(actual)'
        /\ Told(actual) => Told(actual)'
        /\ IdOf(at) = actual /\ answer # "silence" => Told(actual)'
    BY <2>1, ScannedStep
  <2>3. /\ op = "scan" /\ op' = "scan" /\ at' = at + 1 /\ UNCHANGED <<actual, serving>>
        /\ calm' => calm
    BY <1>4, <2>1 DEF Scanned, Scanning, site, Scan, ScanLost
  <2>4. ASSUME calm', serving', NEW i \in 1..(at' - 1), IdOf(i) = actual'
        PROVE  Told(actual)'
    <3>1. CASE i = at
      BY <2>1, <2>2, <2>3, <2>4, <3>1
    <3>2. CASE i \in 1..(at - 1)
      BY <2>2, <2>3, <2>4, <3>2 DEF Diagnosed
    <3> QED
      BY <1>0, <2>3, <3>1, <3>2
  <2> QED
    BY <2>2, <2>3, <2>4 DEF Diagnosed
<1>5. CASE ScanDone \/ Worker
  <2>1. scan' = scan /\ op' \notin {"probe", "scan"}
    <3>1. CASE ScanDone
      BY <3>1 DEF ScanDone, tool
    <3>2. CASE Worker
      BY <3>2 DEF Worker, tool, StartPoll, Read, ReadLost, PollDone, EndPoll, StartFlush, Skip, Write,
             WriteLost, Writing, Advance, FlushDone, EndFlush
    <3> QED
      BY <1>5, <3>1, <3>2
  <2> QED
    BY <2>1 DEF Diagnosed
<1>6. CASE Disturbance \/ UNCHANGED vars
  <2>1. /\ UNCHANGED <<scan, op, report, actual, at>>
        /\ calm' => calm /\ serving' = serving
    BY <1>6 DEF Disturbance, Publish, SetFault, SetOffline, vars, site, driver, tool, device, history
  <2> QED
    BY <2>1 DEF Diagnosed, Answered, Only, Told
<1> QED
  BY <1>1, <1>2, <1>3, <1>4, <1>5, <1>6 DEF Next, Diagnosis

(* For any ids, the scan of a diagnosis that nothing disturbed shows the    *)
(* device's own id as live, and never another with data                     *)
(* (modbus_device.py:379, ui.py:954).                                       *)
THEOREM IdsDiscriminated == Spec => Discriminates
<1> DEFINE Step == op' = "idle" /\ op \in {"probe", "scan"} =>
                     Only(actual) /\ (calm /\ serving /\ actual # Slave => Told(actual))
<1>1. TypeOK /\ Diagnosed /\ [Next]_vars => [Step]_vars
  <2> SUFFICES ASSUME TypeOK, Diagnosed, [Next]_vars, op' = "idle", op \in {"probe", "scan"}
               PROVE  Only(actual) /\ (calm /\ serving /\ actual # Slave => Told(actual))
    OBVIOUS
  <2>1. ProbeDone \/ ScanDone
    BY DEF Next, Disturbance, Worker, Diagnosis, vars, driver, Publish, SetFault, SetOffline,
           StartPoll, Read, ReadLost, PollDone, StartFlush, Skip, Write, WriteLost, Writing, FlushDone,
           EndPoll, EndFlush, StartProbe, Probe, ProbeLost, Probing, Probed, Scan, ScanLost,
           Scanning, Scanned
  <2>2. CASE ProbeDone
    BY <2>2 DEF ProbeDone, Diagnosed, Only
  <2>3. CASE ScanDone
    <3>1. /\ Place(actual) \in 1..Cardinality(Ids) /\ Cardinality(Ids) \in Nat
          /\ IdOf(Place(actual)) = actual
      BY PlaceOf DEF TypeOK
    <3>2. op = "scan" /\ ~(at <= Cardinality(Ids)) /\ at \in Nat
      BY <2>3 DEF ScanDone, Scanning, TypeOK
    <3>3. Place(actual) \in 1..(at - 1)
      BY <3>1, <3>2
    <3> QED
      BY <3>1, <3>2, <3>3 DEF Diagnosed
  <2> QED
    BY <2>1, <2>2, <2>3
<1>2. Init => Diagnosed
  BY DEF Init, Diagnosed
<1>3. [][Step]_vars <=> Discriminates
  BY PTL DEF Discriminates
<1> QED
  BY <1>1, <1>2, <1>3, DiagnosedStep, TypeCorrect, PTL DEF Spec

=============================================================================
