--------------------------- MODULE MotionAdapter ---------------------------
(***************************************************************************)
(* The motion adapter of go2_control: it turns the planar velocity         *)
(* candidates of the navigation stack into Sport requests (Move, StopMove) *)
(* for the robot.  Candidates are clamped to a velocity envelope and rate  *)
(* limited against the previous command; a 50 ms watchdog replaces a       *)
(* silent command source by one StopMove.  Every request goes to the       *)
(* preview topic, and to the robot only when both approvals were given     *)
(* when the node was constructed.                                          *)
(*                                                                         *)
(* Time is discrete.  `age' is the monotonic clock minus                   *)
(* _last_command_time_ns; it saturates at MaxAge, which is exact because   *)
(* a rate limit over MaxAge ticks already allows any change within the     *)
(* envelope (AgeAssumption).  A velocity is an integer number of the       *)
(* smallest step that the acceleration limits allow per tick.              *)
(*                                                                         *)
(* The node runs in a single-threaded executor: a callback is one atomic   *)
(* action.  WatchdogLag bounds how late the executor may call the timer.   *)
(***************************************************************************)
EXTENDS Integers, Sequences

CONSTANTS
  Twists,              (* Finite candidates: the targets a source may ask. *)
  NonFinite,           (* A candidate with a NaN or infinite component.    *)
  MaxForward, MaxReverse, MaxLateral, MaxYaw,   (* Velocity envelope.      *)
  LinearAcceleration, YawAcceleration,          (* Change per tick.        *)
  Timeout,             (* command_timeout_ms, in ticks.                    *)
  FirstElapsed,        (* Elapsed time assumed for the first command.      *)
  WatchdogPeriod,      (* Period of the watchdog timer, in ticks.          *)
  WatchdogLag,         (* How late the executor may call it, in ticks.     *)
  QueueDepth,          (* Depth of the candidate subscription.             *)
  MaxAge               (* Where the two ages saturate.                     *)

Axes == {"x", "y", "yaw"}
Upper == [x |-> MaxForward, y |-> MaxLateral, yaw |-> MaxYaw]
Lower == [x |-> MaxReverse, y |-> MaxLateral, yaw |-> MaxYaw]
Acceleration ==
  [x |-> LinearAcceleration, y |-> LinearAcceleration, yaw |-> YawAcceleration]

ASSUME TwistAssumption ==
  /\ Twists \subseteq [Axes -> Int]
  /\ NonFinite \notin Twists
ASSUME LimitAssumption ==
  /\ MaxForward \in Nat /\ MaxReverse \in Nat
  /\ MaxLateral \in Nat /\ MaxYaw \in Nat
  /\ LinearAcceleration \in Nat \ {0} /\ YawAcceleration \in Nat \ {0}
ASSUME TimeAssumption ==
  /\ Timeout \in Nat /\ FirstElapsed \in Nat
  /\ WatchdogPeriod \in Nat \ {0} /\ WatchdogLag \in Nat
  /\ QueueDepth \in Nat \ {0}
ASSUME AgeAssumption ==
  /\ MaxAge \in Nat
  /\ MaxAge > Timeout + WatchdogPeriod + WatchdogLag
  /\ \A a \in Axes : MaxAge * Acceleration[a] >= Upper[a] + Lower[a]

VARIABLES
  outputEnabled, physicalValidationApproved,  (* Read once, at start.      *)
  pending,             (* Candidates the middleware holds for the node.    *)
  previousCommand,     (* _previous_command.                               *)
  commanded,           (* _last_command_time_ns is not None.               *)
  age,                 (* now - _last_command_time_ns, once commanded.     *)
  stopSent,            (* _stop_sent.                                      *)
  preview,             (* Last request published on the preview topic.     *)
  control,             (* Last request published on the control topic.     *)
  sinceRequest,        (* Ticks since a request was last published.        *)
  sinceWatchdog        (* Ticks since the watchdog callback last ran.      *)

gate == <<outputEnabled, physicalValidationApproved>>
vars == <<outputEnabled, physicalValidationApproved, pending,
          previousCommand, commanded, age, stopSent, preview, control,
          sinceRequest, sinceWatchdog>>

-----------------------------------------------------------------------------
(* The contract: motion_contract.py and sport_request.py.                  *)

MinOf(i, j) == IF i <= j THEN i ELSE j
MaxOf(i, j) == IF i >= j THEN i ELSE j

Commands == [Axes -> Int]
Envelope == {c \in Commands : \A a \in Axes : -Lower[a] <= c[a] /\ c[a] <= Upper[a]}
Standstill == [a \in Axes |-> 0]

GateOpen == outputEnabled /\ physicalValidationApproved

VelocityLimited(twist) ==
  [a \in Axes |-> MinOf(MaxOf(twist[a], -Lower[a]), Upper[a])]

(* Mutant: slowing down is not limited.                                    *)
MoveTowardUpOnly(current, target, delta) == MinOf(target, current + delta)

MoveToward(current, target, delta) ==
  MinOf(MaxOf(target, current - delta), current + delta)

AccelerationLimited(target, elapsed) ==
  [a \in Axes |->
     MoveToward(previousCommand[a], target[a], elapsed * Acceleration[a])]

(* Mutant: stale one tick early.                                           *)
IsStaleAtTimeout(commandAge) == commandAge >= Timeout
IsStale(commandAge) == commandAge > Timeout

NoRequest == [api |-> "none", command |-> Standstill]
MoveRequest(command) == [api |-> "move", command |-> command]
StopRequest == [api |-> "stop", command |-> Standstill]

Requests == [api : {"none", "move", "stop"}, command : Commands]

-----------------------------------------------------------------------------
(* The node: motion_adapter_node.py.                                       *)

Init ==
  /\ outputEnabled \in BOOLEAN
  /\ physicalValidationApproved \in BOOLEAN
  /\ pending = <<>>
  /\ previousCommand = Standstill
  /\ commanded = FALSE
  /\ age = 0
  /\ stopSent = FALSE
  /\ preview = NoRequest
  /\ control = NoRequest
  /\ sinceRequest = 0
  /\ sinceWatchdog = 0

(* A request is always previewed; the robot gets it when the gate is open. *)
Emit(request) ==
  /\ preview' = request
  /\ control' = IF GateOpen THEN request ELSE control
  /\ sinceRequest' = 0

(* Mutant: the subscription keeps every candidate.                         *)
ReceiveTwistKeepAll(twist) ==
  /\ pending' = Append(pending, twist)
  /\ UNCHANGED <<gate, previousCommand, commanded, age, stopSent, preview,
                 control, sinceRequest, sinceWatchdog>>

(* The middleware queues a candidate; a full queue loses its oldest one.   *)
ReceiveTwist(twist) ==
  /\ pending' = IF Len(pending) < QueueDepth
                THEN Append(pending, twist)
                ELSE Append(Tail(pending), twist)
  /\ UNCHANGED <<gate, previousCommand, commanded, age, stopSent, preview,
                 control, sinceRequest, sinceWatchdog>>

Elapsed == IF commanded THEN age ELSE FirstElapsed

(* Mutant: a non-finite candidate counts as a sign of life.                *)
RejectTwistRefreshing ==
  /\ pending # <<>>
  /\ Head(pending) = NonFinite
  /\ pending' = Tail(pending)
  /\ age' = 0
  /\ UNCHANGED <<gate, previousCommand, commanded, stopSent, preview,
                 control, sinceRequest, sinceWatchdog>>

(* _on_twist, non-finite candidate: counted and dropped, nothing else.     *)
RejectTwist ==
  /\ pending # <<>>
  /\ Head(pending) = NonFinite
  /\ pending' = Tail(pending)
  /\ UNCHANGED <<gate, previousCommand, commanded, age, stopSent, preview,
                 control, sinceRequest, sinceWatchdog>>

(* Mutant: the latch of the watchdog is not reset.                         *)
AcceptTwistLatched ==
  /\ pending # <<>>
  /\ Head(pending) # NonFinite
  /\ LET command == AccelerationLimited(VelocityLimited(Head(pending)), Elapsed)
     IN  /\ Emit(MoveRequest(command))
         /\ previousCommand' = command
  /\ pending' = Tail(pending)
  /\ commanded' = TRUE
  /\ age' = 0
  /\ UNCHANGED <<gate, stopSent, sinceWatchdog>>

(* _on_twist, finite candidate: it is handled as if it were just made.     *)
AcceptTwist ==
  /\ pending # <<>>
  /\ Head(pending) # NonFinite
  /\ LET command == AccelerationLimited(VelocityLimited(Head(pending)), Elapsed)
     IN  /\ Emit(MoveRequest(command))
         /\ previousCommand' = command
  /\ pending' = Tail(pending)
  /\ commanded' = TRUE
  /\ age' = 0
  /\ stopSent' = FALSE
  /\ UNCHANGED <<gate, sinceWatchdog>>

(* _on_watchdog when there is nothing to stop.                             *)
WatchdogQuiet ==
  /\ sinceWatchdog > 0
  /\ ~commanded \/ stopSent \/ ~IsStale(age)
  /\ sinceWatchdog' = 0
  /\ UNCHANGED <<gate, pending, previousCommand, commanded, age, stopSent,
                 preview, control, sinceRequest>>

(* _on_watchdog after a silence longer than the timeout.                   *)
WatchdogStop ==
  /\ sinceWatchdog > 0
  /\ commanded /\ ~stopSent
  /\ IsStale(age)
  /\ Emit(StopRequest)
  /\ previousCommand' = Standstill
  /\ stopSent' = TRUE
  /\ sinceWatchdog' = 0
  /\ UNCHANGED <<gate, pending, commanded, age>>

(* The clock advances; the executor serves its timer within its lag.  A    *)
(* late call does not shift the timer's phase, so a call may follow the    *)
(* previous one by less than a period, never by more than period + lag.    *)
Tick ==
  /\ sinceWatchdog < WatchdogPeriod + WatchdogLag
  /\ sinceWatchdog' = sinceWatchdog + 1
  /\ age' = IF commanded THEN MinOf(age + 1, MaxAge) ELSE age
  /\ sinceRequest' = MinOf(sinceRequest + 1, MaxAge)
  /\ UNCHANGED <<gate, pending, previousCommand, commanded, stopSent,
                 preview, control>>

Next ==
  \/ \E twist \in Twists \cup {NonFinite} : ReceiveTwist(twist)
  \/ RejectTwist
  \/ AcceptTwist
  \/ WatchdogQuiet
  \/ WatchdogStop
  \/ Tick

Spec == Init /\ [][Next]_vars

(* The executor keeps serving its timer and its subscription, and time     *)
(* passes.  Nothing obliges a source to send candidates.                   *)
Fairness ==
  /\ WF_vars(Tick)
  /\ WF_vars(WatchdogQuiet \/ WatchdogStop)
  /\ WF_vars(RejectTwist \/ AcceptTwist)

FairSpec == Spec /\ Fairness

-----------------------------------------------------------------------------
(* Properties.                                                             *)

(* The type of every variable, and that an age never passes its cap.       *)
TypeOK ==
  /\ outputEnabled \in BOOLEAN /\ physicalValidationApproved \in BOOLEAN
  /\ pending \in Seq(Twists \cup {NonFinite})
  /\ Len(pending) <= QueueDepth
  /\ previousCommand \in Commands
  /\ commanded \in BOOLEAN /\ stopSent \in BOOLEAN
  /\ age \in 0..MaxAge
  /\ preview \in Requests /\ control \in Requests
  /\ sinceRequest \in 0..MaxAge
  /\ sinceWatchdog \in 0..(WatchdogPeriod + WatchdogLag)

(* Rate limiting starts from the previous command, so the clamp alone does *)
(* not bound what is sent: whatever the candidates and the times between   *)
(* them, no Move ever asks the robot to leave the velocity envelope.       *)
WithinEnvelope ==
  /\ preview.command \in Envelope
  /\ control.command \in Envelope

(* The robot sees exactly the previewed requests when both approvals were  *)
(* given at start, and nothing at all when either is missing.              *)
GateConsistent ==
  control = IF outputEnabled /\ physicalValidationApproved
            THEN preview ELSE NoRequest

Deadline == Timeout + WatchdogPeriod + WatchdogLag

(* A Move outlives its candidate by a bounded time: after the timeout, one *)
(* watchdog period and the executor's lag since it was published, the last *)
(* request is not a Move, however many non-finite candidates arrive.       *)
StopDeadline ==
  preview.api = "move" => sinceRequest <= Deadline

(* The watchdog's latch agrees with what was sent: it is set exactly while *)
(* the last request is the StopMove, so the next Move starts from rest.    *)
StopLatch ==
  /\ stopSent <=> preview.api = "stop"
  /\ commanded <=> preview.api # "none"
  /\ previousCommand = preview.command

(* One silence gives one StopMove: while the last request is a StopMove no *)
(* other is published (the time since the last request never restarts).    *)
NoSecondStop ==
  preview.api = "stop" /\ preview'.api = "stop" => sinceRequest' >= sinceRequest
OneStopPerSilence == [][NoSecondStop]_vars

Differs(c, d, a) == MaxOf(c[a] - d[a], d[a] - c[a])

(* Between two Moves with no StopMove between them, a velocity changes by  *)
(* no more than the acceleration limit allows for the time that passed,    *)
(* non-finite candidates in between notwithstanding.                       *)
SmoothMove ==
  preview.api = "move" /\ preview'.api = "move" =>
    \A a \in Axes :
      Differs(preview'.command, preview.command, a)
        <= sinceRequest * Acceleration[a]
SmoothMoves == [][SmoothMove]_vars

(* The same for every request that follows a request, StopMove included:   *)
(* "fast change is bounded by acceleration envelope".                      *)
SmoothRequests ==
  [][preview.api # "none" =>
       \A a \in Axes :
         preview'.api = "move" =>
           Differs(preview'.command, preview.command, a)
             <= sinceRequest * Acceleration[a]]_vars

(* The adapter implements the abstract stream of safe requests, as the     *)
(* preview topic shows it: envelope, no early stop, no late stop, no       *)
(* second stop, and no request out of nowhere.                             *)
Silence == IF preview.api = "move" THEN sinceRequest ELSE 0
Safe == INSTANCE SafeMotion WITH
          SafeCommands <- Envelope, Rest <- Standstill,
          request <- preview, silence <- Silence
ImplementsSafeMotion == Safe!SafeSpec

(* When no further finite candidate is handled, the Moves end: a flood of  *)
(* non-finite candidates does not keep the robot moving.                   *)
SilenceStops ==
  <>[][~AcceptTwist]_vars => <>[](preview.api # "move")
=============================================================================
