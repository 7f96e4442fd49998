--------------------------- MODULE RegisterCodec ---------------------------
(***************************************************************************)
(* The registers of a device profile and how numbers travel in them        *)
(* (drivers/modbus_device.py).  A register is one or two words of Base     *)
(* values each (Base is 2^16 on the wire), the high word first.  A value   *)
(* is an integer number of the unit the finest register resolves; of a     *)
(* coarser register one count is scale of them.                            *)
(***************************************************************************)
EXTENDS Integers, Sequences

CONSTANT Base

ASSUME BaseAssumption == Base \in Nat /\ Base > 0 /\ Base % 2 = 0

(* What RegisterDef.__post_init__ accepts, for a positive scale.            *)
IsRegister(r) ==
  /\ r.words \in {1, 2}
  /\ r.signed \in BOOLEAN
  /\ r.writable \in BOOLEAN
  /\ r.scale \in Nat \ {0}
  /\ r.min \in Int /\ r.max \in Int /\ r.min <= r.max

(* The number of contents of the register, and of those that are not        *)
(* negative.                                                                *)
Span(r) == IF r.words = 2 THEN Base * Base ELSE Base
Half(r) == IF r.words = 2 THEN Base * (Base \div 2) ELSE Base \div 2

Magnitude(v) == IF v < 0 THEN -v ELSE v

(* Mutant: int() taken for floor(). *)
TruncatedDown(v, n) == v \div n

(* int(v / n): towards zero. *)
Truncated(v, n) == IF v < 0 THEN -((-v) \div n) ELSE v \div n

(* int(round(v / n)): to the nearest, halves to even. *)
Rounded(v, n) ==
  (v \div n) + IF 2 * (v % n) > n \/ (2 * (v % n) = n /\ (v \div n) % 2 = 1) THEN 1 ELSE 0

(* Mutant: the low word first. *)
EncodedSwapped(v, r) ==
  LET u == v % Span(r)
  IN IF r.words = 2 THEN <<u % Base, u \div Base>> ELSE <<u>>

(* _encode *)
Encoded(v, r) ==
  LET u == v % Span(r)
  IN IF r.words = 2 THEN <<u \div Base, u % Base>> ELSE <<u>>

(* _decode *)
Decoded(ws, r) ==
  LET u == IF r.words = 2 THEN ws[1] * Base + ws[2] ELSE ws[1]
  IN IF r.signed /\ u >= Half(r) THEN u - Span(r) ELSE u

(* The counts the register can hold. *)
Holds(r, v) ==
  IF r.signed THEN -Half(r) <= v /\ v < Half(r) ELSE 0 <= v /\ v < Span(r)

(* The bounds of the register keep every value within what it can hold:     *)
(* nothing checks this when a profile is loaded.                            *)
Guarded(r) == Holds(r, Truncated(r.min, r.scale)) /\ Holds(r, Truncated(r.max, r.scale))

(* SystemState.set *)
Clamped(v, r) == IF v < r.min THEN r.min ELSE IF v > r.max THEN r.max ELSE v

=============================================================================
