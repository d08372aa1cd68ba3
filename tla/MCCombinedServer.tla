-------------------------- MODULE MCCombinedServer --------------------------
\* Three chains of four blocks.  Blocks 3 and 13 differ and leave the tree at the same
\* size, block 23 does not; block 13 alone has more nullifiers than the table keeps, and
\* block 23 just as many.
EXTENDS CombinedServer
MCChains == { <<1, 2, 3, 4>>, <<1, 12, 13, 14>>, <<1, 2, 23, 24>> }
MCTreeSizeAfter ==
  [x \in Hashes |-> IF x = 23 THEN 5 ELSE IF x = 24 THEN 6 ELSE x % 10]
MCNullifierCount == [x \in Hashes |-> IF x = 13 THEN 3 ELSE IF x = 23 THEN 2 ELSE 1]
=============================================================================
