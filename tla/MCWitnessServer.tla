-------------------------- MODULE MCWitnessServer --------------------------
\* Two chains of six blocks that fork above height 3.  Sub-shards of one leaf, shards of
\* two.  Block 3 completes the first shard and holds the first leaf of the second, which
\* either branch completes in its own way: at height 4 or at height 5.
EXTENDS WitnessServer
MCChains == { <<1, 2, 3, 4, 5, 6>>, <<1, 2, 3, 14, 15, 16>> }
MCCommitmentCount ==
  [x \in Hashes |-> IF x \in {1, 14, 6} THEN 0 ELSE IF x \in {3, 15} THEN 2 ELSE 1]
MCCommitments == [x \in Hashes |-> [j \in 1..MCCommitmentCount[x] |-> <<x, j>>]]
MCLeaves == {<<x, j>> : x \in Hashes, j \in 1..2}
=============================================================================
