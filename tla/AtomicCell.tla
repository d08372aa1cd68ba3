---------------------------- MODULE AtomicCell ----------------------------
(***************************************************************************)
(* What a snapshot file promises the server that keeps it: a cell that a   *)
(* save replaces whole.  The operating system makes a save durable at a    *)
(* time of its own; a crash brings back the last save or the last durable  *)
(* one, never anything in between.                                         *)
(***************************************************************************)
CONSTANT Values

VARIABLES
  cell,       \* what a load finds now
  durable     \* what a load may find after a crash instead

Init == cell \in Values /\ durable = cell

Save == cell' \in Values /\ UNCHANGED durable
Settle == durable' = cell /\ UNCHANGED cell
Crash == cell' \in {cell, durable} /\ durable' = cell'

Next == Save \/ Settle \/ Crash
Spec == Init /\ [][Next]_<<cell, durable>>
=============================================================================
