----------------------------- MODULE FaultRunMC -----------------------------
(* Every kind of fault alone, and two matrices of two scenarios.  A unit   *)
(* is an eighth of the adapter's 100 ms but for the nanosecond: a tick has *)
(* four, a second eighty.                                                  *)
EXTENDS FaultRun

MCMatrices ==
  {<<k>> : k \in Kinds}
    \cup {<<"process_exit", "tf_loss">>, <<"launch_failure", "empty_cloud">>}
=============================================================================
