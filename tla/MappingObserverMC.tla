-------------------------- MODULE MappingObserverMC --------------------------
(* A bag of two ticks on a robot that drives on, or starts late; a         *)
(* correction that turns the map moves it only far from the origin.        *)
EXTENDS MappingObserver

MCTracks == {[t \in 0..Horizon |-> 2 * t], [t \in 0..Horizon |-> IF t < 2 THEN 0 ELSE 2]}
MCPoses == {[y |-> 0, yaw |-> 0], [y |-> 0, yaw |-> 1]}
=============================================================================
