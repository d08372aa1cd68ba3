---------------------------- MODULE SpendClient ----------------------------
(***************************************************************************)
(* A nullifier client (client/src/nullifier.rs) of a standalone server:    *)
(* it reads the metadata once, and then asks for its nullifiers one by     *)
(* one, while the server publishes new tables, ends and comes back.  A     *)
(* server that has published nothing answers 503, which the client returns *)
(* as an error.  A query leaves no trace at either end, so it is no step:  *)
(* the properties speak of the answer it would get in each state.  The PIR *)
(* query is abstracted to the row lookup that it hides.                    *)
(***************************************************************************)
EXTENDS NullifierServer

VARIABLE metadata     \* the cached earliest_height and latest_height, if connected

vars == <<worldVars, serverVars, metadata>>

\* rebuild_pir: the metadata of a table
Metadata(t) ==
  IF DOMAIN t = {} THEN [earliest |-> 0, latest |-> 0]
  ELSE [earliest |-> Oldest(t), latest |-> Newest(t)]

\* connect_with_transport, refresh_metadata
ReadMetadata ==
  /\ \E t \in live : metadata' = {Metadata(t)}
  /\ UNCHANGED <<worldVars, serverVars>>

\* is_spent: does the published table have the nullifier spent in block x?
IsSpent(t, x) == \E h \in DOMAIN t : t[h] = x

-----------------------------------------------------------------------------
Init == ServerInit /\ metadata = {}

Next ==
  \/ ServerNext /\ UNCHANGED metadata
  \/ ReadMetadata

Spec == Init /\ [][Next]_vars

-----------------------------------------------------------------------------
Tables == UNION {[hs -> Hashes] : hs \in SUBSET Heights}
Files == [data : Snapshots \cup {OldSnapshot, OurMarker, OtherMarker, Torn},
          where : {"disk", "cache"}] \cup {NoFile}
Spans == [earliest : 0..MaxHeight, latest : 0..MaxHeight]

\* Every variable of the server, its files and its client holds a value of its type.
TypeOK ==
  /\ best \in served /\ served \subseteq Chains
  /\ pc \in {"down", "refused", "label", "tip", "load", "sync", "save", "connect", "follow"}
  /\ \A t \in {table} \cup live : t \in Tables
  /\ {goal, range.last} \subseteq 0..MaxHeight
  /\ {range.next, bottom} \subseteq 0..(MaxHeight + 1)
  /\ unsaved \in 0..(SnapshotInterval - 1)
  /\ followed \in Seq(Hashes)
  /\ \A dir \in {disk, settled} : \A f \in Names : dir[f] \in Files
  /\ io.step \in {"idle", "create", "write", "sync", "rename"}
  /\ (io.step # "idle") = (pc \in {"label", "save"})
  /\ metadata \subseteq Spans /\ Cardinality(metadata) <= 1

\* A check reads its metadata once and each nullifier from whatever table is published
\* when its query arrives.  Still no answer is wrong: a nullifier reported as spent is in
\* a confirmed block, and one reported as unspent is in none of the blocks the metadata
\* promised, but for those evicted since; unless a lagging node made the server step back.
AnswersHold ==
  \A x \in {y \in Hashes : NullifierCount[y] > 0}, t \in live :
    IF IsSpent(t, x) THEN \E h \in 1..Confirmed : best[h] = x
    ELSE ~lagged => \A span \in metadata : \A h \in Heights \cap span.earliest..span.latest :
           best[h] = x => h < Metadata(t).earliest
=============================================================================
