-------------------------- MODULE ExternalReplayMC --------------------------
(* Instances of ExternalReplay: recordings of two clouds and four poses    *)
(* over three seconds of two ticks.  They differ in where the robot moves, *)
(* whether two poses share a second, and in the sequence numbers; one has  *)
(* a message of another topic, one too few messages.                       *)
EXTENDS ExternalReplay

Received(topic, time, seq, x) ==
  [topic |-> topic, time |-> time, seq |-> seq, x |-> x]
Cloud(time, seq) == Received("rt/cloud", time, seq, 0)
Pose(time, seq, x) == Received("rt/odom", time, seq, x)
Other(time, seq) == Received("rt/other", time, seq, 0)

MCSources == {
  <<Other(0, 1), Pose(1, 1, 0), Cloud(2, 2), Pose(2, 3, 0), Pose(3, 4, 5),
    Cloud(4, 5), Pose(5, 6, 7)>>,
  <<Pose(0, 1, 0), Cloud(1, 2), Pose(2, 3, 2), Cloud(4, 4), Pose(4, 5, 4),
    Pose(6, 6, 6)>>,
  <<Pose(0, 1, 0), Cloud(2, 2), Pose(2, 1, 9), Cloud(3, 3), Pose(4, 4, 9),
    Pose(6, 5, 9)>>,
  <<Pose(0, 1, 0), Cloud(0, 2), Pose(2, 3, 1)>>}
=============================================================================
