---------------------------- MODULE PreflightMC ----------------------------
(* A run of four seconds with a start-up grace of one: as long as a loss    *)
(* that is noticed, a loss that is not, and a topic that falls silent.     *)
EXTENDS Preflight

MCPositions == {0, 1, 5}
=============================================================================
