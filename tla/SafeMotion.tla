----------------------------- MODULE SafeMotion -----------------------------
(***************************************************************************)
(* What the motion adapter promises to whoever executes its requests: a    *)
(* stream of requests in which every Move stays in an envelope, and every  *)
(* Move is either renewed or followed by a StopMove, not before Timeout    *)
(* ticks of silence and not after Deadline ticks.  Where the Moves come    *)
(* from, and how they are limited, is not said.                            *)
(***************************************************************************)
EXTENDS Integers

CONSTANTS
  SafeCommands,    (* The commands a Move may carry.                       *)
  Rest,            (* What a request that is not a Move carries.           *)
  Timeout,         (* Silence that must pass before a StopMove.            *)
  Deadline         (* Silence that no Move survives.                       *)

VARIABLES
  request,         (* The last request: its kind and its command.          *)
  silence          (* Ticks since the last Move, while it is in force.     *)

safeVars == <<request, silence>>

SafeInit ==
  /\ request = [api |-> "none", command |-> Rest]
  /\ silence = 0

SafeMove ==
  /\ request' = [api |-> "move", command |-> request'.command]
  /\ request'.command \in SafeCommands
  /\ silence' = 0

SafeStop ==
  /\ request.api = "move"
  /\ silence > Timeout
  /\ request' = [api |-> "stop", command |-> Rest]
  /\ silence' = 0

SafeElapse ==
  /\ request.api = "move"
  /\ silence < Deadline
  /\ silence' = silence + 1
  /\ UNCHANGED request

SafeNext == SafeMove \/ SafeStop \/ SafeElapse

SafeSpec == SafeInit /\ [][SafeNext]_safeVars
=============================================================================
