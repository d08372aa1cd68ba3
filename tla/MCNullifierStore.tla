-------------------------- MODULE MCNullifierStore --------------------------
\* Two buckets of two slots: n1, n2 and n3 share a bucket and can overflow it.
EXTENDS NullifierStore, TLC
CONSTANTS n1, n2, n3, n4, b1, b2
MCNullifiers == {n1, n2, n3, n4}
MCBlockHashes == {b1, b2}
MCBucketOf == [n \in MCNullifiers |-> IF n = n4 THEN 1 ELSE 0]
\* Hashes, and nullifiers of one bucket, are interchangeable.
MCSymmetry ==
  {p @@ q : p \in Permutations({n1, n2, n3}), q \in Permutations(MCBlockHashes)}
=============================================================================
