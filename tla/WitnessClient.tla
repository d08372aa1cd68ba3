--------------------------- MODULE WitnessClient ---------------------------
(***************************************************************************)
(* The witness client (client/src/witness.rs) against a server that keeps  *)
(* publishing.  The broadcast is fetched once and kept; every query of a   *)
(* row is answered from the PIR state that is live when it arrives, and    *)
(* that state may have grown, lost blocks to a reorg, or been rebuilt over *)
(* another window since the broadcast was taken.  A wallet asks for several *)
(* positions at once through the async client, or through the blocking one *)
(* for FFI, which makes a call of the async client for every position.     *)
(***************************************************************************)
EXTENDS PathReconstruction, FiniteSets

CONSTANTS
  Commitments,    \* the hashes in the leaves
  Logs,           \* sequences of commitments: the chains' logs, longest form
  Offsets,        \* numbers of completed shards a tree may be prepared above
  MaxShards,      \* L0_MAX_SHARDS
  Calls,          \* sequences of positions a wallet asks for at once
  ZeroLeaf,       \* the 32 zero bytes that pad the row matrix
  MaxPublished    \* bound: PIR states published after the first

ASSUME ClientAssumption ==
  /\ EmptyLeaf # ZeroLeaf
  /\ Offsets \subseteq Nat /\ MaxShards \in Nat \ {0} /\ MaxPublished \in Nat
  /\ Logs \subseteq Seq(Commitments) /\ Calls \subseteq Seq(Nat) \ {<<>>}

\* The tree of 2 ^ 32 leaves does not fill up.
ASSUME CapacityAssumption == \A log \in Logs : Len(log) <= Pow2[TreeDepth]

VARIABLES
  live,         \* the log and offset of the tree behind live_pir
  published,    \* PIR states published since the first (model bound)
  broadcast,    \* the broadcast the client keeps, and the tree it is of
  entry,        \* the get_witnesses called last: of the "async" or the "blocking" client
  todo,         \* positions of the running get_witnesses still to do
  rows,         \* decoded_rows of it: row index |-> row, and the tree it is of
  witnesses,    \* witnesses of it, in order
  client        \* "off" before connect, "idle", "asking" inside get_witnesses

walletVars == <<broadcast, entry, todo, rows, witnesses, client>>
witnessVars == <<live, published, walletVars>>

\* The trees a server publishes: prefixes of the logs, and the completed shards below.
Published ==
  {t \in UNION {[leaves : {SubSeq(log, 1, n) : n \in 1..Len(log)}, offset : Offsets] : log \in Logs} :
     t.offset * ShardLeaves <= Len(t.leaves)}

Populated(t) == (Len(t.leaves) - 1) \div ShardLeaves + 1
InWindow(t) == Populated(t) - t.offset <= MaxShards
WindowShards(t) == IF InWindow(t) THEN Populated(t) - t.offset ELSE MaxShards

\* build_pir_db_and_broadcast of a tree: the broadcast ...
Broadcast(t) ==
  [shard_roots |-> [i \in 1..(t.offset + WindowShards(t)) |->
                      Node(t.leaves, ShardHeight, i - 1)],
   subshard_roots |-> [i \in 1..WindowShards(t) |->
                         [k \in 1..SubshardsPerShard |->
                            Node(t.leaves, SubshardHeight,
                                 (t.offset + i - 1) * SubshardsPerShard + k - 1)]],
   window_start |-> t.offset,
   window_count |-> WindowShards(t)]

\* ... and a row of the matrix; rows after the window are zero bytes.
RowOf(t, r) ==
  [j \in 1..SubshardLeaves |->
     LET p == t.offset * ShardLeaves + r * SubshardLeaves + j
     IN  IF r >= WindowShards(t) * SubshardsPerShard THEN ZeroLeaf
         ELSE IF p <= Len(t.leaves) THEN t.leaves[p] ELSE EmptyLeaf]

NoRows == [r \in {} |-> 0]

WitnessInit ==
  /\ live \in Published
  /\ published = 0
  /\ broadcast = [of |-> live, data |-> Broadcast(live)]
  /\ client = "off"
  /\ entry = "async"
  /\ todo = <<>>
  /\ rows = NoRows
  /\ witnesses = <<>>

\* The server publishes a rebuilt tree: after blocks, a reorg, or a bootstrap.
Publish ==
  /\ published < MaxPublished
  /\ live' \in Published \ {live}
  /\ published' = published + 1
  /\ UNCHANGED walletVars

\* connect_with_transport, and refresh_broadcast of a client that is not asking.
Fetch ==
  /\ client \in {"off", "idle"}
  /\ broadcast' = [of |-> live, data |-> Broadcast(live)]
  /\ client' = "idle"
  /\ witnesses' = <<>>
  /\ UNCHANGED <<live, published, entry, todo, rows>>

GetWitnesses ==
  /\ client = "idle"
  /\ entry' = "async"
  /\ todo' \in Calls
  /\ rows' = NoRows
  /\ witnesses' = <<>>
  /\ client' = "asking"
  /\ UNCHANGED <<live, published, broadcast>>

\* The batch call of WitnessClientBlocking: one get_witness after the other.
GetWitnessesBlocking ==
  /\ client = "idle"
  /\ entry' = "blocking"
  /\ todo' \in Calls
  /\ rows' = NoRows
  /\ witnesses' = <<>>
  /\ client' = "asking"
  /\ UNCHANGED <<live, published, broadcast>>

Covered(position) ==
  /\ ShardOf(position) >= broadcast.data.window_start
  /\ ShardOf(position) < broadcast.data.window_start + broadcast.data.window_count
HeadRow == RowIndex(Head(todo), broadcast.data.window_start)

\* Mutated form of NeedsRow: a row is asked for again for every position.
NeedsRowAlways(r) == r \notin DOMAIN rows \/ Len(witnesses) > 0

NeedsRow(r) == r \notin DOMAIN rows

\* The position that wanted the row gets its witness.  The row joins the others of the
\* call; decoded_rows ends with every position when get_witness is called for each.
Answer(known) ==
  /\ rows' = IF entry = "async" THEN known ELSE NoRows
  /\ witnesses' = Append(witnesses,
       [w |-> Reconstruct(Head(todo), known[HeadRow].row, broadcast.data),
        rowOf |-> known[HeadRow].of])
  /\ todo' = Tail(todo)
  /\ client' = IF Tail(todo) = <<>> THEN "idle" ELSE "asking"
  /\ UNCHANGED <<live, published, broadcast, entry>>

\* query_row: answered by the PIR state that is live now.
QueryRow ==
  /\ client = "asking" /\ Covered(Head(todo))
  /\ NeedsRow(HeadRow)
  /\ Answer([r \in DOMAIN rows \cup {HeadRow} |->
               IF r = HeadRow THEN [row |-> RowOf(live, r), of |-> live] ELSE rows[r]])

UseRow ==
  /\ client = "asking" /\ Covered(Head(todo))
  /\ ~NeedsRow(HeadRow)
  /\ Answer(rows)

\* PositionOutsideWindow, or an error of the transport: no witness is returned.
Refuse ==
  /\ client = "asking"
  /\ ~Covered(Head(todo)) \/ NeedsRow(HeadRow)
  /\ client' = "idle"
  /\ todo' = <<>>
  /\ rows' = NoRows
  /\ witnesses' = <<>>
  /\ UNCHANGED <<live, published, broadcast, entry>>

WitnessNext ==
  Publish \/ Fetch \/ GetWitnesses \/ GetWitnessesBlocking \/ QueryRow \/ UseRow \/ Refuse

WitnessSpec == WitnessInit /\ [][WitnessNext]_witnessVars

-----------------------------------------------------------------------------
Anchor == broadcast.of.leaves

\* The path of the leaf at the position, in the tree the broadcast is of, ending in its root.
Exact(w) ==
  /\ w.siblings = AuthPath(Anchor, w.position)
  /\ w.anchor_root = TreeRoot(Anchor)

\* The variables of the client hold values of their types.
WitnessTypeOK ==
  /\ live \in Published /\ published \in 0..MaxPublished
  /\ broadcast.of \in Published /\ broadcast.data = Broadcast(broadcast.of)
  /\ client \in {"off", "idle", "asking"} /\ entry \in {"async", "blocking"}
  /\ (client = "asking") = (todo # <<>>)
  /\ DOMAIN rows \subseteq 0..(MaxShards * SubshardsPerShard - 1)
  /\ \A i \in DOMAIN witnesses : witnesses[i].rowOf \in Published

\* A witness whose row and broadcast are of one and the same tree is exact, for every
\* position of the window, filled or not, as long as the tree fits the window.
SameTreeExact ==
  \A i \in DOMAIN witnesses :
    witnesses[i].rowOf = broadcast.of /\ InWindow(broadcast.of) => Exact(witnesses[i].w)

\* Growth alone does no harm to settled notes: a witness for a sub-shard that was full
\* at the broadcast is exact also when its row is of a later, longer tree.
FullSubshardExact ==
  \A i \in DOMAIN witnesses :
    LET t == witnesses[i].rowOf
        w == witnesses[i].w
    IN  /\ t.offset = broadcast.of.offset
        /\ Len(Anchor) <= Len(t.leaves) /\ Anchor = SubSeq(t.leaves, 1, Len(Anchor))
        /\ w.position \div SubshardLeaves < Len(Anchor) \div SubshardLeaves
        /\ InWindow(broadcast.of)
        => Exact(w)

\* Notes of one sub-shard asked for in one call of the async client share their root,
\* whatever the server publishes between the queries: the wallet can spend them together.
\* The blocking client asks again for every note, and so notes of one sub-shard share
\* their root only when their rows were of one and the same tree.
SameRowSameRoot ==
  \A i, j \in DOMAIN witnesses :
    /\ witnesses[i].w.position \div SubshardLeaves = witnesses[j].w.position \div SubshardLeaves
    /\ entry = "blocking" => witnesses[i].rowOf = witnesses[j].rowOf
    => witnesses[i].w.anchor_root = witnesses[j].w.anchor_root

\* "Self-verifies the witness before returning" (witness.rs), "checking it against the
\* broadcast anchor root (derived from cap shard roots)" (reconstruct.rs).
CapRoot(b) ==
  LET Tier[k \in 0..ShardHeight] ==
        IF k = 0 THEN b.shard_roots ELSE Parents(Tier[k - 1], ShardHeight + k - 1)
  IN  Tier[ShardHeight][1]
SelfVerified ==
  \A i \in DOMAIN witnesses : witnesses[i].w.anchor_root = CapRoot(broadcast.data)
=============================================================================
