-------------------------- MODULE MCWitnessClient --------------------------
\* Sub-shards of two leaves, shards of four, a tree of sixteen, a window of two shards.
\* Two logs that part after the third commitment; the first one outgrows the window.
EXTENDS WitnessClient
MCLogs == { <<1, 2, 3, 4, 5, 6, 7, 8, 9>>, <<1, 2, 3, 14, 15, 16>> }
MCCalls == { <<0>>, <<2, 3>>, <<4, 1>>, <<5, 6, 4>>, <<8>> }
=============================================================================
