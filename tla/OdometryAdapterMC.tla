------------------------- MODULE OdometryAdapterMC -------------------------
(* Small instances of OdometryAdapter: four poses, of which one is a       *)
(* translation jump and one a yaw jump away from the first.                *)
EXTENDS OdometryAdapter

At(x, heading) == [x |-> x, heading |-> heading]
MCPoses == {At(0, 0), At(1, 7), At(3, 0), At(1, 3)}
=============================================================================
