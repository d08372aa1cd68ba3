--------------------------- MODULE MCSpendClient ---------------------------
\* Two chains of six blocks that fork above height 3.  Synced to height 5, a new table of
\* the first is overfull, one of the second has room left and is extended downwards.
EXTENDS SpendClient
MCChains == { <<1, 2, 3, 4, 5, 6>>, <<1, 2, 3, 14, 15, 16>> }
MCNullifierCount == [x \in Hashes |-> IF x = 3 THEN 2 ELSE IF x \in {2, 14, 15} THEN 0 ELSE 1]
\* A server may sync the blocks below `fork` from one chain and the rest from another.
MCSnapshots ==
  {[h \in lo..hi |-> IF h < fork THEN c[h] ELSE d[h]] :
     lo \in Heights, hi \in 0..MaxHeight, fork \in Heights, c \in Chains, d \in Chains}
=============================================================================
