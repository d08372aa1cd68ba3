----------------------------- MODULE BlockRange -----------------------------
(***************************************************************************)
(* What every reader of the node in the ingest code shares: the confirmed  *)
(* tip below which it asks for blocks, and the validation of the blocks it *)
(* gets, batch by batch.                                                   *)
(***************************************************************************)
EXTENDS LwdNode, FiniteSets, SequencesExt

CONSTANTS
  Depth,        \* confirmation_depth (CONFIRMATION_DEPTH = 10)
  BatchSize     \* BATCH_SIZE (10_000)

ASSUME RangeAssumption == Depth \in Nat /\ BatchSize \in Nat \ {0}

MinOf(a, b) == IF a < b THEN a ELSE b
MaxOf(a, b) == IF a > b THEN a ELSE b

\* tip_height.saturating_sub(confirmation_depth)
ConfirmedTip == MaxOf(tip - Depth, 0)

\* Mutated form of ValidRange: each response is checked on its own, never against
\* the block that precedes it.
ValidRangeUnlinked(blocks, lo, hi, prior) ==
  /\ Len(blocks) = hi - lo + 1
  /\ \A i \in DOMAIN blocks :
       /\ blocks[i].height = lo + i - 1
       /\ i > 1 => blocks[i].prev = blocks[i - 1].hash

\* validate_range: consecutive heights, every block links to the one before
\* it (the first to `prior`, when there is one), and none is missing.
ValidRange(blocks, lo, hi, prior) ==
  /\ Len(blocks) = hi - lo + 1
  /\ \A i \in DOMAIN blocks :
       /\ blocks[i].height = lo + i - 1
       /\ LET before == IF i = 1 THEN prior ELSE blocks[i - 1].hash
          IN  before # NoHash => blocks[i].prev = before
=============================================================================
