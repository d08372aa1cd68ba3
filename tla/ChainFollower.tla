--------------------------- MODULE ChainFollower ---------------------------
(***************************************************************************)
(* What the ingest pipeline promises a store: the blocks it holds are at   *)
(* every moment the start of one chain of the network, and they change     *)
(* only by one child block at the end or by dropping blocks from the end,  *)
(* never more than MaxDrop of them at once.                                *)
(***************************************************************************)
EXTENDS Integers, Sequences

CONSTANTS Chains, MaxDrop

VARIABLE held      \* the hashes of the blocks held, lowest first

PrefixOf(c) == {SubSeq(c, 1, n) : n \in 0..Len(c)}

Init == \E c \in Chains : held \in PrefixOf(c) /\ held # <<>>

\* A child of the newest block is added.
Extend ==
  \E c \in Chains :
    /\ Len(held) < Len(c)
    /\ held = SubSeq(c, 1, Len(held))
    /\ held' = SubSeq(c, 1, Len(held) + 1)

\* The newest blocks are dropped.
Retract ==
  \E n \in 0..Len(held) :
    /\ Len(held) - n <= MaxDrop
    /\ held' = SubSeq(held, 1, n)

Next == Extend \/ Retract

Spec == Init /\ [][Next]_held
=============================================================================
