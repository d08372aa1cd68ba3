---------------------------- MODULE MCP2PSession ----------------------------
\* Two requests of one type, as two queries of a wallet are; the first one is split into
\* two frames each way.
EXTENDS P2PSession
MCTypeOf == [r \in Requests |-> "NullifierQuery"]
MCFrames == [r \in Requests |-> IF r = "q1" THEN 2 ELSE 1]
=============================================================================
