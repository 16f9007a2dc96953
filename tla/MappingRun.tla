----------------------------- MODULE MappingRun -----------------------------
(***************************************************************************)
(* The mapping acceptance of go2_validation.  One run of the runner maps   *)
(* the stationary bag and, when that passed and the external bag is        *)
(* available, the external one.  A variant launches the mapping graph,     *)
(* starts a paused player, resumes it, waits for its end, lets             *)
(* slam_toolbox save and serialize into a partial directory, validates the *)
(* files, has the pose graph read back and renames the directory to        *)
(* artifacts.  Whatever happens, the partial directory is removed and the  *)
(* two process groups are stopped: SIGINT to the leader, then SIGTERM and  *)
(* SIGKILL to the group.  Then the variant is judged and its result, and   *)
(* at the end the summary, written.                                        *)
(*                                                                         *)
(* The runner waits with deadlines on a wall clock; here a wait may time   *)
(* out in any state, and an answer that comes after the time-out is still  *)
(* carried out by slam_toolbox.  The leaders, their nodes and slam_toolbox *)
(* act on their own.  A user may interrupt the runner, which unwinds       *)
(* through the same finally blocks.  What the streams and the TF graph     *)
(* showed is one Boolean of the verdict; the nodes of the launch live and  *)
(* die together.                                                           *)
(***************************************************************************)
EXTENDS Integers

CONSTANT
  MaxInterrupts  (* Bound: how often the user interrupts the runner.       *)

Variants == {"stationary", "external"}
Roles == {"player", "launch"}
SavedFiles == {"image", "yaml"}
Files == SavedFiles \cup {"portableYaml", "poseGraph"}
Complete == {"image", "portableYaml", "poseGraph"}
NoDirectory == {"absent"}  (* What no directory contains.                  *)

ASSUME InterruptAssumption == MaxInterrupts \in Nat

VARIABLES
  conversion,  (* Status in the document of the external conversion.       *)
  unusable,    (* Variants whose bag or run directory is refused.          *)
  pc,          (* Where the runner is.                                     *)
  variant,     (* The variant it runs.                                     *)
  error,       (* The exception in flight: none, one main handles, or an   *)
               (* interrupt, which main lets through.                      *)
  target,      (* The process stop_owned_process works on.                 *)
  escalation,  (* The last signal it sent.                                 *)
  leader,      (* Per variant and role: state of the group's leader.       *)
  nodes,       (* Per variant: the nodes the launch started.               *)
  request,     (* The service call slam_toolbox has not carried out.       *)
  reply,       (* Its answer to the latest call.                           *)
  partial,     (* Per variant: content of the partial directory.           *)
  artifacts,   (* Per variant: content of the artifacts directory.         *)
  result,      (* Per variant: status in result.json.                      *)
  summary,     (* overall in the summary.                                  *)
  interrupts,  (* Interrupts so far.                                       *)
  signalled,   (* History: per variant, roles sent a signal.               *)
  cut          (* History: an interrupt hit the teardown.                  *)

environment == <<conversion, unusable>>
stop == <<target, escalation>>
processes == <<leader, nodes, signalled>>
slam == <<request, reply>>
documents == <<result, summary>>
history == <<interrupts, cut>>
vars == <<conversion, unusable, pc, variant, error, target, escalation,
          leader, nodes, request, reply, partial, artifacts, result, summary,
          interrupts, signalled, cut>>

Running(v, role) == leader[v][role] = "running"

-----------------------------------------------------------------------------
(* Exceptions.  Which finally block a raise reaches depends on the place.  *)

InTry == {"launching", "awaitGraph", "awaitServices", "startPlayer",
          "awaitPlayer", "awaitResume", "playing", "settle"}
InPartial == {"awaitSave", "awaitSerialize", "check", "awaitReload",
              "promote"}

(* The runner leaves its place for the enclosing handler.                  *)
Raise(kind) ==
  /\ error' = kind
  /\ \/ pc \in InTry /\ pc' = "stop"
     \/ pc \in InPartial /\ pc' = "discard"
     \/ /\ pc \notin InTry \cup InPartial
        /\ pc' = IF kind = "failure" THEN "report" ELSE "over"

(* A step of a wait that may instead time out or fail in any state.        *)
Fail ==
  /\ pc \in (InTry \cup InPartial) \ {"playing"}
  /\ Raise("failure")
  /\ UNCHANGED <<environment, variant, stop, processes, slam, partial,
                 artifacts, documents, history>>

Interrupt ==
  /\ pc # "over"
  /\ interrupts < MaxInterrupts
  /\ interrupts' = interrupts + 1
  /\ \/ /\ pc \notin {"discard", "stop"}
        /\ Raise("interrupt")
        /\ UNCHANGED <<partial, cut>>
     \/ /\ pc = "discard"
        /\ error' = "interrupt" /\ pc' = "stop" /\ cut' = TRUE
        /\ \/ partial[variant] = NoDirectory /\ UNCHANGED partial
           \/ /\ partial[variant] # NoDirectory
              /\ \E rest \in SUBSET partial[variant] :
                   partial' = [partial EXCEPT ![variant] = rest]
     \/ /\ pc = "stop"
        /\ error' = "interrupt" /\ pc' = "over" /\ cut' = TRUE
        /\ UNCHANGED partial
  /\ UNCHANGED <<environment, variant, stop, processes, slam, artifacts,
                 documents>>

-----------------------------------------------------------------------------
(* The runner: main and execute_mapping_acceptance up to a variant's start,*)
(* then run_mapping_variant to the resumed player.                         *)

Init ==
  /\ conversion \in {"passed", "deferred", "conflict", "inconsistent"}
  /\ unusable \in SUBSET Variants
  /\ pc = "prepare" /\ variant = "stationary" /\ error = "none"
  /\ target = "player" /\ escalation = "none"
  /\ leader = [v \in Variants |-> [role \in Roles |-> "absent"]]
  /\ nodes = [v \in Variants |-> "absent"]
  /\ request = "none" /\ reply = "none"
  /\ partial = [v \in Variants |-> NoDirectory]
  /\ artifacts = [v \in Variants |-> NoDirectory]
  /\ result = [v \in Variants |-> "none"] /\ summary = "none"
  /\ interrupts = 0 /\ cut = FALSE
  /\ signalled = [v \in Variants |-> {}]

(* The environment, the bag and the run directory are as required, or not. *)
Prepare ==
  /\ pc = "prepare"
  /\ \/ variant \notin unusable /\ pc' = "launching" /\ UNCHANGED error
     \/ Raise("failure")
  /\ UNCHANGED <<environment, variant, stop, processes, slam, partial,
                 artifacts, documents, history>>

(* The process is started and its object assigned in one step.  In the     *)
(* code an interrupt inside subprocess.Popen, after the fork and before    *)
(* the assignment, would leave a process that no finally knows of: that    *)
(* window belongs to the library and is left out.                          *)
Popen(role) == leader' = [leader EXCEPT ![variant][role] = "running"]

Launch ==
  /\ pc = "launching"
  /\ Popen("launch") /\ pc' = "awaitGraph"
  /\ UNCHANGED <<environment, variant, error, stop, nodes, signalled, slam,
                 partial, artifacts, documents, history>>

(* ready_for_player, after which the launch must still run.                *)
GraphReady ==
  /\ pc = "awaitGraph"
  /\ nodes[variant] = "running" /\ Running(variant, "launch")
  /\ pc' = "awaitServices"
  /\ UNCHANGED <<environment, variant, error, stop, processes, slam, partial,
                 artifacts, documents, history>>

ServicesReady ==
  /\ pc = "awaitServices" /\ nodes[variant] = "running"
  /\ pc' = "startPlayer"
  /\ UNCHANGED <<environment, variant, error, stop, processes, slam, partial,
                 artifacts, documents, history>>

StartPlayer ==
  /\ pc = "startPlayer"
  /\ Popen("player") /\ pc' = "awaitPlayer"
  /\ UNCHANGED <<environment, variant, error, stop, nodes, signalled, slam,
                 partial, artifacts, documents, history>>

PlayerReady ==
  /\ pc = "awaitPlayer" /\ pc' = "awaitResume"
  /\ UNCHANGED <<environment, variant, error, stop, processes, slam, partial,
                 artifacts, documents, history>>

Resumed ==
  /\ pc = "awaitResume" /\ pc' = "playing"
  /\ UNCHANGED <<environment, variant, error, stop, processes, slam, partial,
                 artifacts, documents, history>>

-----------------------------------------------------------------------------
(* Playback, saving and promotion.                                         *)

(* Mutant: the deadline of the playback ends it like the player's end.     *)
PlayedOrTimedOut ==
  /\ pc = "playing"
  /\ \/ pc' = "settle" /\ UNCHANGED error
     \/ Raise("failure")
  /\ UNCHANGED <<environment, variant, stop, processes, slam, partial,
                 artifacts, documents, history>>

(* The player ended with exit code 0; otherwise it ended with another one, *)
(* the deadline passed while it ran, or the clock stalled.                 *)
Played ==
  /\ pc = "playing"
  /\ \/ leader[variant]["player"] = "clean" /\ pc' = "settle"
        /\ UNCHANGED error
     \/ Raise("failure")
  /\ UNCHANGED <<environment, variant, stop, processes, slam, partial,
                 artifacts, documents, history>>

Request(service) == request' = service /\ reply' = "none"

(* The last callbacks were served and a map was seen: the partial          *)
(* directory is made and save_map called.                                  *)
Save ==
  /\ pc = "settle"
  /\ partial' = [partial EXCEPT ![variant] = {}]
  /\ Request("save") /\ pc' = "awaitSave"
  /\ UNCHANGED <<environment, variant, error, stop, processes, artifacts,
                 documents, history>>

Saved ==
  /\ pc = "awaitSave" /\ reply = "success"
  /\ Request("serialize") /\ pc' = "awaitSerialize"
  /\ UNCHANGED <<environment, variant, error, stop, processes, partial,
                 artifacts, documents, history>>

Serialized ==
  /\ pc = "awaitSerialize" /\ reply = "success"
  /\ pc' = "check"
  /\ UNCHANGED <<environment, variant, error, stop, processes, slam, partial,
                 artifacts, documents, history>>

(* The occupancy document with its image reference cut to a name.          *)
Normalized(files) ==
  IF "yaml" \in files THEN (files \ {"yaml"}) \cup {"portableYaml"} ELSE files

(* Mutant: the files are only normalised.                                  *)
CheckNormalizes ==
  /\ pc = "check"
  /\ partial' = [partial EXCEPT ![variant] = Normalized(@)]
  /\ Request("deserialize") /\ pc' = "awaitReload"
  /\ UNCHANGED <<environment, variant, error, stop, processes, artifacts,
                 documents, history>>

(* Normalise, require every file, and call deserialize_map on them.        *)
Check ==
  /\ pc = "check"
  /\ Complete \subseteq Normalized(partial[variant])
  /\ partial' = [partial EXCEPT ![variant] = Normalized(@)]
  /\ Request("deserialize") /\ pc' = "awaitReload"
  /\ UNCHANGED <<environment, variant, error, stop, processes, artifacts,
                 documents, history>>

(* deserialize_map has no result code: any answer will do.                 *)
Reloaded ==
  /\ pc = "awaitReload" /\ reply # "none"
  /\ pc' = "promote"
  /\ UNCHANGED <<environment, variant, error, stop, processes, slam, partial,
                 artifacts, documents, history>>

Promote ==
  /\ pc = "promote" /\ artifacts[variant] = NoDirectory
  /\ artifacts' = [artifacts EXCEPT ![variant] = partial[variant]]
  /\ partial' = [partial EXCEPT ![variant] = NoDirectory]
  /\ pc' = "discard"
  /\ UNCHANGED <<environment, variant, error, stop, processes, slam,
                 documents, history>>

(* The finally block of the partial directory: rmtree, which fails when    *)
(* slam_toolbox writes into it meanwhile; its error replaces the first.    *)
Discard ==
  /\ pc = "discard" /\ pc' = "stop"
  /\ \/ /\ partial' = [partial EXCEPT ![variant] = NoDirectory]
        /\ UNCHANGED <<error, slam>>
     \/ /\ partial[variant] # NoDirectory
        /\ request \in {"save", "serialize"} /\ nodes[variant] = "running"
        /\ \E files \in SUBSET (SavedFiles \cup {"poseGraph"}) \ {{}} :
             partial' = [partial EXCEPT ![variant] = files]
        /\ error' = "failure"
        /\ request' = "none" /\ UNCHANGED reply
  /\ UNCHANGED <<environment, variant, stop, processes, artifacts, documents,
                 history>>

-----------------------------------------------------------------------------
(* stop_owned_process for the player, then for the launch.                 *)

(* What the runner does once both are stopped, or were never started.      *)
AfterTeardown ==
  IF error = "none" THEN "assess"
  ELSE IF error = "failure" THEN "report" ELSE "over"

(* Mutant: the launch inherits the escalation of the player.               *)
StopNextEscalated ==
  /\ UNCHANGED escalation
  /\ \/ target = "player" /\ target' = "launch" /\ UNCHANGED pc
     \/ target = "launch" /\ target' = "player" /\ pc' = AfterTeardown

StopNext ==
  /\ escalation' = "none"
  /\ \/ target = "player" /\ target' = "launch" /\ UNCHANGED pc
     \/ target = "launch" /\ target' = "player" /\ pc' = AfterTeardown

(* Mutant: the escalation ends with the second time-out.                   *)
StoppedOrGivenUp ==
  /\ pc = "stop" /\ (~Running(variant, target) \/ escalation = "terminated")
  /\ StopNext
  /\ UNCHANGED <<environment, variant, error, processes, slam, partial,
                 artifacts, documents, history>>

(* The process is absent, or poll or wait saw its leader's end.            *)
Stopped ==
  /\ pc = "stop" /\ ~Running(variant, target)
  /\ StopNext
  /\ UNCHANGED <<environment, variant, error, processes, slam, partial,
                 artifacts, documents, history>>

Signal(next) ==
  /\ escalation' = next
  /\ signalled' = [signalled EXCEPT ![variant] = @ \cup {target}]

(* SIGINT goes to the leader alone, SIGTERM to the group; both may be      *)
(* ignored.                                                                *)
SendInt ==
  /\ pc = "stop" /\ escalation = "none" /\ Running(variant, target)
  /\ Signal("interrupted")
  /\ UNCHANGED <<environment, pc, variant, error, target, leader, nodes, slam,
                 partial, artifacts, documents, history>>

(* A wait may time out just as the leader ends.                            *)
SendTerm ==
  /\ pc = "stop" /\ escalation = "interrupted"
  /\ Signal("terminated")
  /\ UNCHANGED <<environment, pc, variant, error, target, leader, nodes, slam,
                 partial, artifacts, documents, history>>

(* Mutant: after SIGTERM the runner waits without a deadline.              *)
AwaitEnd ==
  /\ pc = "stop" /\ escalation = "terminated" /\ ~Running(variant, target)
  /\ Signal("killed")
  /\ UNCHANGED <<environment, pc, variant, error, target, leader, nodes, slam,
                 partial, artifacts, documents, history>>

(* SIGKILL ends the group: the leader, and the nodes of a launch.          *)
SendKill ==
  /\ pc = "stop" /\ escalation = "terminated"
  /\ Signal("killed")
  /\ leader' = [leader EXCEPT ![variant][target] =
                  IF @ = "running" THEN "unclean" ELSE @]
  /\ nodes' = [nodes EXCEPT ![variant] =
                 IF target = "launch" /\ @ = "running" THEN "ended" ELSE @]
  /\ UNCHANGED <<environment, pc, variant, error, target, slam, partial,
                 artifacts, documents, history>>

-----------------------------------------------------------------------------
(* The verdict and the documents.                                          *)

(* Mutant: only players are looked for.                                    *)
ResidualOfPlayer == {v \in Variants : Running(v, "player")}

(* The runs of which a node is left: the scan of /proc and the graph.      *)
Residual == {v \in Variants : nodes[v] = "running"}

(* `observed' stands for the checks of the streams and of the graph.       *)
Verdict(observed) ==
  IF /\ observed
     /\ leader[variant]["player"] = "clean"
     /\ leader[variant]["launch"] = "clean"
     /\ Residual = {}
  THEN "passed" ELSE "failed"

(* assess_mapping and the variant's result.json; reading the accounting or *)
(* writing the document may fail.                                          *)
Assess ==
  /\ pc = "assess"
  /\ \/ /\ \E observed \in BOOLEAN :
             result' = [result EXCEPT ![variant] = Verdict(observed)]
        /\ pc' = "next" /\ UNCHANGED error
     \/ Raise("failure") /\ UNCHANGED result
  /\ UNCHANGED <<environment, variant, stop, processes, slam, partial,
                 artifacts, summary, history>>

(* After a passed stationary run: the external one, its deferral, or the   *)
(* refusal of a document that contradicts itself or the bag.               *)
AfterVariant ==
  /\ pc = "next"
  /\ \/ /\ \/ variant = "external" \/ result["stationary"] # "passed"
           \/ conversion = "deferred"
        /\ pc' = "summarize" /\ UNCHANGED <<variant, error>>
     \/ /\ variant = "stationary" /\ result["stationary"] = "passed"
        /\ \/ /\ conversion = "passed"
              /\ variant' = "external" /\ pc' = "prepare" /\ UNCHANGED error
           \/ /\ conversion \in {"conflict", "inconsistent"}
              /\ Raise("failure") /\ UNCHANGED variant
  /\ UNCHANGED <<environment, stop, processes, slam, partial, artifacts,
                 documents, history>>

(* A deferred external run counts as passed.                               *)
AllPassed == \A v \in Variants : result[v] \in {"passed", "none"}

Summarize ==
  /\ pc = "summarize"
  /\ \/ /\ summary' = IF AllPassed THEN "passed" ELSE "failed"
        /\ pc' = "over" /\ UNCHANGED error
     \/ Raise("failure") /\ UNCHANGED summary
  /\ UNCHANGED <<environment, variant, stop, processes, slam, partial,
                 artifacts, result, history>>

(* main's handler; a second error escapes it.                              *)
Report ==
  /\ pc = "report" /\ pc' = "over"
  /\ summary' = "failed" \/ UNCHANGED summary
  /\ UNCHANGED <<environment, variant, error, stop, processes, slam, partial,
                 artifacts, result, history>>

-----------------------------------------------------------------------------
(* The processes and slam_toolbox.                                         *)

NodesStart(v) ==
  /\ Running(v, "launch") /\ nodes[v] = "absent"
  /\ nodes' = [nodes EXCEPT ![v] = "running"]
  /\ UNCHANGED <<environment, pc, variant, error, stop, leader, signalled,
                 slam, partial, artifacts, documents, history>>

NodesEnd(v) ==
  /\ nodes[v] = "running"
  /\ nodes' = [nodes EXCEPT ![v] = "ended"]
  /\ UNCHANGED <<environment, pc, variant, error, stop, leader, signalled,
                 slam, partial, artifacts, documents, history>>

(* With an exit code of 0 or another; its nodes may survive it.            *)
LeaderEnds(v, role) ==
  /\ Running(v, role)
  /\ \E code \in {"clean", "unclean"} :
       leader' = [leader EXCEPT ![v][role] = code]
  /\ UNCHANGED <<environment, pc, variant, error, stop, nodes, signalled,
                 slam, partial, artifacts, documents, history>>

(* What a call may write, whatever it answers.                             *)
WrittenBy ==
  [save |-> SavedFiles, serialize |-> {"poseGraph"}, deserialize |-> {}]

SlamServes ==
  /\ request # "none" /\ nodes[variant] = "running"
  /\ \E written \in SUBSET WrittenBy[request] :
       partial' = [partial EXCEPT ![variant] =
                     IF @ = NoDirectory THEN @ ELSE @ \cup written]
  /\ request' = "none" /\ reply' \in {"success", "failure"}
  /\ UNCHANGED <<environment, pc, variant, error, stop, processes, artifacts,
                 documents, history>>

-----------------------------------------------------------------------------
Runner ==
  \/ Fail \/ Prepare \/ Launch \/ GraphReady \/ ServicesReady \/ StartPlayer
  \/ PlayerReady \/ Resumed \/ Played \/ Save \/ Saved \/ Serialized \/ Check
  \/ Reloaded \/ Promote \/ Discard \/ Stopped \/ SendInt \/ SendTerm
  \/ SendKill \/ Assess \/ AfterVariant \/ Summarize \/ Report

Processes ==
  \/ \E v \in Variants :
       \/ NodesStart(v) \/ NodesEnd(v)
       \/ \E role \in Roles : LeaderEnds(v, role)
  \/ SlamServes

Next == Runner \/ Interrupt \/ Processes

(* The runner is a program that runs; nothing is asked of the others.      *)
Spec == Init /\ [][Next]_vars /\ WF_vars(Runner)

-----------------------------------------------------------------------------
Content == {NoDirectory} \cup SUBSET Files

(* Every variable has its type, and outside the teardown no process is     *)
(* left half stopped: the next one starts with SIGINT again.               *)
TypeOK ==
  /\ conversion \in {"passed", "deferred", "conflict", "inconsistent"}
  /\ unusable \subseteq Variants
  /\ pc \in InTry \cup InPartial \cup {"prepare", "discard", "stop", "assess",
                                      "next", "summarize", "report", "over"}
  /\ variant \in Variants
  /\ error \in {"none", "failure", "interrupt"}
  /\ target \in Roles
  /\ escalation \in {"none", "interrupted", "terminated", "killed"}
  /\ pc \notin {"stop", "over"} => target = "player" /\ escalation = "none"
  /\ leader \in [Variants ->
                   [Roles -> {"absent", "running", "clean", "unclean"}]]
  /\ nodes \in [Variants -> {"absent", "running", "ended"}]
  /\ request \in {"none", "save", "serialize", "deserialize"}
  /\ reply \in {"none", "success", "failure"}
  /\ partial \in [Variants -> Content]
  /\ artifacts \in [Variants -> Content]
  /\ result \in [Variants -> {"none", "passed", "failed"}]
  /\ summary \in {"none", "passed", "failed"}
  /\ interrupts \in 0..MaxInterrupts
  /\ signalled \in [Variants -> SUBSET Roles]
  /\ cut \in BOOLEAN

(* A directory called artifacts holds the whole validated set and nothing  *)
(* else, and no call that could still touch it is open: a failed, late or  *)
(* incomplete save never reaches it.                                       *)
PromotedComplete ==
  \A v \in Variants : artifacts[v] # NoDirectory =>
    artifacts[v] = Complete /\ (variant = v => request = "none")

(* The variant was mapped to the end: the player ended by itself with 0,   *)
(* the launch ended with 0, nothing of it runs, its artifacts are there.   *)
Mapped(v) ==
  /\ result[v] = "passed" /\ artifacts[v] = Complete
  /\ leader[v]["player"] = "clean" /\ "player" \notin signalled[v]
  /\ leader[v]["launch"] = "clean" /\ nodes[v] # "running"

(* The summary says passed only of a run in which both variants were       *)
(* mapped to the end, or the external one was deferred and never started.  *)
SummaryTruthful ==
  summary = "passed" =>
    /\ Mapped("stationary")
    /\ \/ Mapped("external")
       \/ conversion = "deferred" /\ leader["external"]["launch"] = "absent"

(* The external launch never shares the domain with the stationary one:    *)
(* it starts after the stationary run was mapped to the end, when nothing  *)
(* of it runs.                                                             *)
CleanStart ==
  leader["external"]["launch"] # "absent" => Mapped("stationary")

(* Unless the teardown itself was interrupted, no process the runner       *)
(* started (see Popen) outlives it, and a partial directory that is left   *)
(* belongs to a variant without artifacts and without a result.            *)
NothingLeft ==
  pc = "over" /\ ~cut =>
    \A v \in Variants :
      /\ \A role \in Roles : ~Running(v, role)
      /\ partial[v] # NoDirectory =>
           artifacts[v] = NoDirectory /\ result[v] = "none"

(* The runner comes to its end whatever the processes do: no wait and no   *)
(* stop is without a deadline.                                             *)
Terminates == <>(pc = "over")

=============================================================================
