-------------------------- MODULE MotionAdapterMC --------------------------
(* Small instances of MotionAdapter: two candidates far outside the        *)
(* envelope that pull in opposite directions on every axis.                *)
EXTENDS MotionAdapter

ForwardRight == [x |-> 40, y |-> -40, yaw |-> -2]
BackAndTurn == [x |-> -40, y |-> 2, yaw |-> 40]
MCTwists == {ForwardRight, BackAndTurn}
=============================================================================
