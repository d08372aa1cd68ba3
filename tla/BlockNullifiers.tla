-------------------------- MODULE BlockNullifiers --------------------------
(***************************************************************************)
(* What the nullifier table promises: it is a map from block heights to    *)
(* that block's hash and nullifiers.  Blocks come one at a time, leave     *)
(* from either end, and a restart brings back the map that was saved last. *)
(***************************************************************************)
EXTENDS Integers

CONSTANTS Nullifiers, BlockHashes, TableHeights

VARIABLES
  held,         \* height |-> [hash, nfs]
  kept          \* the same, as of the last save

Keep(f, heights) == [h \in DOMAIN f \cap heights |-> f[h]]
Nothing == [h \in {} |-> 0]

Init == held = Nothing /\ kept = Nothing

\* A block with nullifiers that no held block has is added.
Add ==
  \E h \in TableHeights \ DOMAIN held, hash \in BlockHashes, nfs \in SUBSET Nullifiers :
    /\ \A g \in DOMAIN held : held[g].hash # hash /\ held[g].nfs \cap nfs = {}
    /\ held' = [g \in DOMAIN held \cup {h} |->
                  IF g = h THEN [hash |-> hash, nfs |-> nfs] ELSE held[g]]
    /\ UNCHANGED kept

\* A reorg drops the blocks above a height.
DropNewest ==
  \E r \in TableHeights : held' = Keep(held, 0..r) /\ UNCHANGED kept

\* Eviction drops the blocks below a height, or all of them.
DropOldest ==
  \E hs \in SUBSET DOMAIN held :
    /\ \A h \in hs, g \in DOMAIN held \ hs : h < g
    /\ held' = Keep(held, DOMAIN held \ hs)
    /\ UNCHANGED kept

Save == kept' = held /\ UNCHANGED held
Restart == held' = kept /\ UNCHANGED kept

Next == Add \/ DropNewest \/ DropOldest \/ Save \/ Restart
Spec == Init /\ [][Next]_<<held, kept>>
=============================================================================
