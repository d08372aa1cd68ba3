--------------------------- MODULE ConfirmedChain ---------------------------
(***************************************************************************)
(* The assumption that confirmation_depth stands for, as observer          *)
(* variables of the node: a block is confirmed once the node has shown a   *)
(* tip Depth blocks above it, and an honest network does not take it back. *)
(* Nothing in the code reads these variables.  Properties that need the    *)
(* assumption say ~deep, those that need a node without lag say ~lagged.   *)
(***************************************************************************)
EXTENDS BlockRange

VARIABLES
  peak,     \* the highest tip the node has shown
  deep,     \* the node has replaced a confirmed block
  lagged    \* the node has shown a tip below an earlier one

observerVars == <<peak, deep, lagged>>

\* The newest height that any reader of the node can have taken for confirmed.
Confirmed == MaxOf(peak - Depth, 0)

Observe ==
  /\ peak' = MaxOf(peak, tip')
  /\ deep' = (deep \/ \E h \in 1..Confirmed : best'[h] # best[h])
  /\ lagged' = (lagged \/ tip' < peak)

\* A node that may already have left chains before.
ObserverInit == peak = tip /\ deep \in BOOLEAN /\ lagged = FALSE

ChainStep == NodeStep /\ Observe

\* Are these blocks, a function from heights to hashes, confirmed blocks of the
\* network's chain?
ConfirmedBlocks(blocks) ==
  /\ \A h \in DOMAIN blocks : h <= Confirmed
  /\ ~deep => \A h \in DOMAIN blocks : blocks[h] = best[h]
=============================================================================
