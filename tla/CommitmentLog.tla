--------------------------- MODULE CommitmentLog ---------------------------
(***************************************************************************)
(* What the commitment tree promises: it is a log of blocks, each with its *)
(* commitments.  Blocks are added at the end, a reorg cuts the log above a *)
(* height, and a restart brings back the log saved last, or a fresh one.   *)
(***************************************************************************)
EXTENDS Integers, SequencesExt

CONSTANTS Blocks, Fresh     \* blocks [hash, cms]; logs a bootstrap can leave

VARIABLES log, kept         \* kept: a set with the saved log, empty before the first save

Init == log \in Fresh /\ kept = {}

NextHeight == IF log = <<>> THEN 1 ELSE Last(log).height + 1

AddBlock ==
  \E b \in Blocks :
    /\ log' = Append(log, [height |-> NextHeight, hash |-> b.hash, cms |-> b.cms])
    /\ UNCHANGED kept

Cut ==
  \E n \in 0..Len(log) : log' = SubSeq(log, 1, n) /\ UNCHANGED kept

Save == kept' = {log} /\ UNCHANGED log

Restart == log' \in (IF kept = {} THEN Fresh ELSE kept) /\ UNCHANGED kept

Next == AddBlock \/ Cut \/ Save \/ Restart
Spec == Init /\ [][Next]_<<log, kept>>
=============================================================================
