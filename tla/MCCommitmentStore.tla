------------------------- MODULE MCCommitmentStore -------------------------
\* Sub-shards of two leaves, shards of two sub-shards, a window of two shards:
\* three blocks of four leaves outgrow it.
EXTENDS CommitmentStore
CONSTANTS a, b
MCLeaves == {a, b}
MCBlocks == {[hash |-> 1, cms |-> <<>>], [hash |-> 2, cms |-> <<a>>],
             [hash |-> 3, cms |-> <<b>>], [hash |-> 4, cms |-> <<a, b, b, a>>]}
MCSubtreeRoots == {<<>>, <<"root">>}
=============================================================================
