------------------------------ MODULE LwdNode ------------------------------
(***************************************************************************)
(* The lightwalletd node, as the ingest code sees it through the two calls *)
(* of LwdClient: get_latest_block and get_block_range.  The node itself is *)
(* not in the repository; it is modelled from what the pipeline guards     *)
(* against.  A block is its hash, and a hash fixes the whole chain below   *)
(* it, so a chain is a sequence of hashes and two chains that hold the     *)
(* same hash hold it at the same height and agree below.                   *)
(***************************************************************************)
EXTENDS Integers, Sequences

CONSTANTS
  MaxHeight,    \* the longest chain considered
  Chains,       \* every chain the network may settle on, each MaxHeight long
  NoHash,       \* Option::None for a hash, and the parent of the block at height 1
  MaxReorgs     \* bound: how often the node may switch chain or fall back

Heights == 1..MaxHeight

Hashes == {c[h] : c \in Chains, h \in Heights}

ASSUME ChainAssumption ==
  /\ MaxHeight \in Nat \ {0}
  /\ MaxReorgs \in Nat
  /\ Chains \subseteq Seq(Hashes)
  /\ \A c \in Chains : Len(c) = MaxHeight
  /\ NoHash \notin Hashes
  /\ \A c, d \in Chains, g, h \in Heights :
       c[g] = d[h] => g = h /\ \A k \in 1..h : c[k] = d[k]

VARIABLES
  best,     \* the chain the node serves
  tip,      \* the height of its newest block
  reorgs,   \* how often it has left a chain or moved back (model bound)
  served    \* the chains it has served since it last answered the ingest task

nodeVars == <<best, tip, reorgs, served>>

PrevOf(c, h) == IF h = 1 THEN NoHash ELSE c[h - 1]

\* One CompactBlock: the fields the pipeline validates.
CompactBlock(c, h) == [height |-> h, hash |-> c[h], prev |-> PrevOf(c, h)]

(***************************************************************************)
(* What get_block_range may collect for lo..hi, when it answers now.  The  *)
(* stream ends early when the node's chain does.  Blocks below `cut` were  *)
(* streamed from a chain c that the node has left since the call began;    *)
(* c = best is an undisturbed stream.  (Bound: at most one switch per      *)
(* stream.)                                                                *)
(***************************************************************************)
Streams(lo, hi) ==
  LET last == IF hi < tip THEN hi ELSE tip
      Stream(c, cut) ==
        [i \in 1..(last - lo + 1) |->
           CompactBlock(IF lo + i - 1 < cut THEN c ELSE best, lo + i - 1)]
  IN  {Stream(c, cut) : c \in served, cut \in lo..hi}

\* The node answers a call, and the next one begins.
Answered ==
  /\ served' = {best}
  /\ UNCHANGED <<best, tip, reorgs>>

-----------------------------------------------------------------------------
NodeInit ==
  /\ best \in Chains
  /\ tip \in Heights
  /\ reorgs = 0
  /\ served = {best}

\* A block is mined on the served chain.
Mine ==
  /\ tip < MaxHeight
  /\ tip' = tip + 1
  /\ UNCHANGED <<best, reorgs, served>>

\* The node moves to another chain, or its tip moves back (a lagging replica).
Reorganise ==
  /\ reorgs < MaxReorgs
  /\ \E c \in Chains, t \in Heights :
       /\ c # best \/ t < tip
       /\ best' = c
       /\ tip' = t
       /\ served' = served \cup {c}
  /\ reorgs' = reorgs + 1

NodeStep == Mine \/ Reorganise
=============================================================================
