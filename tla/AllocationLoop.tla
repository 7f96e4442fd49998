--------------------------- MODULE AllocationLoop ---------------------------
(***************************************************************************)
(* The arbiter's loop over the sorted requests, as allocator.py writes it, *)
(* against the declarative arbitration of Allocation.                      *)
(***************************************************************************)
EXTENDS Allocation

(* The claims in the order resolve sorts them: the i-th has i - 1 before it.*)
Place(r) == Cardinality({s \in Live : Before(s, r)}) + 1
Sorted == [i \in 1..Cardinality(Live) |-> CHOOSE r \in Live : Place(r) = i]

(* One turn of the loop: narrow [lo, hi] by the request, or discard it. *)
Narrow(acc, r) ==
  LET lo == IF board[r].min > acc.lo THEN board[r].min ELSE acc.lo
      hi == IF board[r].max < acc.hi THEN board[r].max ELSE acc.hi
  IN  IF lo <= hi THEN [lo |-> lo, hi |-> hi, honored |-> acc.honored \cup {r}]
                  ELSE acc

Whole == [lo |-> PMin, hi |-> PMax, honored |-> {}]

Loop ==
  LET turn[i \in 0..Cardinality(Live)] ==
        IF i = 0 THEN Whole ELSE Narrow(turn[i - 1], Sorted[i])
  IN  turn[Cardinality(Live)]

(* The fixed point of Allocation is what the loop computes, and only that: *)
(* the same requesters honored and the same interval left.                 *)
LoopAgrees ==
  \A H \in SUBSET Live :
    Arbitrated(H) <=> H = Loop.honored /\ Room(H) = Loop.lo .. Loop.hi

=============================================================================
