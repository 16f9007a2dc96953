------------------------ MODULE MotionAdapterProofs ------------------------
(* Proofs about MotionAdapter for every envelope, rate limit, timeout,     *)
(* watchdog lag, queue depth and set of candidates.                        *)
EXTENDS MotionAdapter, TLAPS

(* Limits and rates are naturals on every axis.                            *)
LEMMA LimitTypes ==
  \A a \in Axes : Upper[a] \in Nat /\ Lower[a] \in Nat /\ Acceleration[a] \in Nat
  BY LimitAssumption DEF Axes, Upper, Lower, Acceleration

(* At rest the robot is within its envelope.                               *)
LEMMA StandstillInEnvelope == Standstill \in Envelope
  BY LimitTypes DEF Standstill, Envelope, Commands

(* A product of naturals is a natural.                                     *)
LEMMA NatProduct ==
  ASSUME NEW m \in Nat, NEW n \in Nat
  PROVE  m * n \in Nat
  BY SMT

(* Clamping any finite candidate gives a command of the envelope.          *)
LEMMA ClampInEnvelope ==
  ASSUME NEW twist \in Commands
  PROVE  VelocityLimited(twist) \in Envelope
<1>1. ASSUME NEW a \in Axes
      PROVE  LET v == MinOf(MaxOf(twist[a], -Lower[a]), Upper[a])
             IN  v \in Int /\ -Lower[a] <= v /\ v <= Upper[a]
  <2>1. twist[a] \in Int /\ Lower[a] \in Nat /\ Upper[a] \in Nat
    BY <1>1, LimitTypes DEF Commands
  <2>2. QED BY <2>1 DEF MinOf, MaxOf
<1>2. QED BY <1>1 DEF VelocityLimited, Envelope, Commands

(* One step of the limiter from a command of the envelope: it stays in the *)
(* envelope and changes each velocity by at most rate times elapsed time.  *)
LEMMA LimiterStep ==
  ASSUME previousCommand \in Envelope,
         NEW target \in Envelope, NEW elapsed \in Nat
  PROVE  LET c == AccelerationLimited(target, elapsed)
         IN  /\ c \in Envelope
             /\ \A a \in Axes :
                  Differs(c, previousCommand, a) <= elapsed * Acceleration[a]
<1> DEFINE c == AccelerationLimited(target, elapsed)
<1>1. ASSUME NEW a \in Axes
      PROVE  /\ c[a] \in Int /\ -Lower[a] <= c[a] /\ c[a] <= Upper[a]
             /\ Differs(c, previousCommand, a) <= elapsed * Acceleration[a]
  <2> DEFINE delta == elapsed * Acceleration[a]
             lo == -Lower[a]
             hi == Upper[a]
  <2>1. /\ previousCommand[a] \in Int /\ target[a] \in Int
        /\ lo <= previousCommand[a] /\ previousCommand[a] <= hi
        /\ lo <= target[a] /\ target[a] <= hi
        /\ lo \in Int /\ hi \in Int
    BY <1>1, LimitTypes DEF Envelope, Commands
  <2>2. delta \in Nat
    BY <1>1, LimitTypes, NatProduct
  <2>3. c[a] = MoveToward(previousCommand[a], target[a], delta)
    BY <1>1 DEF AccelerationLimited
  <2> HIDE DEF c, delta, lo, hi
  <2>4. /\ c[a] \in Int /\ lo <= c[a] /\ c[a] <= hi
        /\ c[a] - previousCommand[a] <= delta
        /\ previousCommand[a] - c[a] <= delta
    BY <2>1, <2>2, <2>3 DEF MoveToward, MinOf, MaxOf
  <2>5. Differs(c, previousCommand, a) <= delta
    BY <2>1, <2>2, <2>4 DEF Differs, MaxOf
  <2>6. QED BY <2>4, <2>5 DEF delta, lo, hi
<1>2. c \in Commands
  <2>1. c = [a \in Axes |-> c[a]]
    BY DEF AccelerationLimited
  <2> HIDE DEF c
  <2>2. QED BY <2>1, <1>1 DEF Commands
<1> HIDE DEF c
<1>3. c \in Envelope /\ \A a \in Axes :
        Differs(c, previousCommand, a) <= elapsed * Acceleration[a]
  BY <1>1, <1>2 DEF Envelope
<1>4. QED BY <1>3 DEF c

-----------------------------------------------------------------------------
(* Type correctness.                                                       *)

(* Elapsed times handed to the limiter are naturals.                       *)
LEMMA ElapsedType == TypeOK => Elapsed \in Nat
  BY TimeAssumption, AgeAssumption DEF TypeOK, Elapsed

(* The initial state is well typed.                                        *)
LEMMA InitTypeOK == Init => TypeOK
<1> SUFFICES ASSUME Init PROVE TypeOK
  OBVIOUS
<1> USE DEF Init
<1>1. Standstill \in Commands
  BY DEF Standstill, Commands
<1>2. preview \in Requests /\ control \in Requests /\ previousCommand \in Commands
  BY <1>1 DEF Requests, NoRequest
<1>3. pending \in Seq(Twists \cup {NonFinite}) /\ Len(pending) <= QueueDepth
  BY TimeAssumption
<1>4. /\ outputEnabled \in BOOLEAN /\ physicalValidationApproved \in BOOLEAN
      /\ commanded \in BOOLEAN /\ stopSent \in BOOLEAN
  BY Zenon
<1>5. /\ age \in 0..MaxAge /\ sinceRequest \in 0..MaxAge
      /\ sinceWatchdog \in 0..(WatchdogPeriod + WatchdogLag)
  BY TimeAssumption, AgeAssumption
<1>6. QED BY <1>2, <1>3, <1>4, <1>5 DEF TypeOK

(* The command an accepted candidate leads to is a function on the axes.   *)
LEMMA LimitedIsCommand ==
  ASSUME NEW twist \in Commands, previousCommand \in Envelope, TypeOK
  PROVE  AccelerationLimited(VelocityLimited(twist), Elapsed) \in Envelope
  BY ClampInEnvelope, LimiterStep, ElapsedType

(* The inductive invariant: types, the envelope of what the limiter starts *)
(* from, the watchdog's latch, and that an overdue Move has only been      *)
(* overdue since the last watchdog call.                                   *)
Overdue ==
  preview.api = "move" => age <= Timeout + sinceWatchdog

MotionInv ==
  /\ TypeOK
  /\ previousCommand \in Envelope
  /\ WithinEnvelope
  /\ GateConsistent
  /\ StopLatch
  /\ Overdue

(* The invariant holds at the start.                                       *)
LEMMA InitMotionInv == Init => MotionInv
<1> SUFFICES ASSUME Init PROVE MotionInv
  OBVIOUS
<1>1. TypeOK
  BY InitTypeOK
<1>2. previousCommand \in Envelope /\ WithinEnvelope
  BY StandstillInEnvelope DEF Init, NoRequest, WithinEnvelope
<1>3. GateConsistent
  BY DEF Init, GateConsistent
<1>4. StopLatch
  BY DEF Init, StopLatch, NoRequest
<1>5. Overdue
  BY DEF Init, Overdue, NoRequest
<1>6. QED BY <1>1, <1>2, <1>3, <1>4, <1>5 DEF MotionInv

(* Receiving and dropping candidates touch only the queue.                 *)
LEMMA QueueSteps ==
  ASSUME MotionInv,
         (\E twist \in Twists \cup {NonFinite} : ReceiveTwist(twist)) \/ RejectTwist
  PROVE  MotionInv'
<1> DEFINE T == Twists \cup {NonFinite}
<1>1. pending' \in Seq(T) /\ Len(pending') <= QueueDepth
  <2>1. pending \in Seq(T) /\ Len(pending) <= QueueDepth /\ QueueDepth \in Nat \ {0}
    BY TimeAssumption DEF MotionInv, TypeOK
  <2>2. CASE \E twist \in T : ReceiveTwist(twist)
    <3>1. PICK twist \in T : ReceiveTwist(twist)
      BY <2>2
    <3> HIDE DEF T
    <3>2. CASE Len(pending) < QueueDepth
      BY <2>1, <3>1, <3>2 DEF ReceiveTwist
    <3>3. CASE ~(Len(pending) < QueueDepth)
      <4>1. pending # <<>>
        BY <2>1, <3>3
      <4>2. Tail(pending) \in Seq(T) /\ Len(Tail(pending)) = Len(pending) - 1
        BY <2>1, <4>1
      <4>3. pending' = Append(Tail(pending), twist)
        BY <3>1, <3>3 DEF ReceiveTwist
      <4>4. QED BY <2>1, <4>2, <4>3
    <3>4. QED BY <3>2, <3>3
  <2>3. CASE RejectTwist
    <3> HIDE DEF T
    <3>1. QED BY <2>1, <2>3 DEF RejectTwist
  <2>4. QED BY <2>2, <2>3
<1>2. UNCHANGED <<gate, previousCommand, commanded, age, stopSent, preview,
                  control, sinceRequest, sinceWatchdog>>
  BY DEF ReceiveTwist, RejectTwist
<1>3. TypeOK'
  BY <1>1, <1>2 DEF MotionInv, TypeOK, gate
<1>4. /\ previousCommand' \in Envelope /\ WithinEnvelope' /\ GateConsistent'
      /\ StopLatch' /\ Overdue'
  BY <1>2 DEF MotionInv, WithinEnvelope, GateConsistent, GateOpen, StopLatch,
              Overdue, gate
<1>5. QED BY <1>3, <1>4 DEF MotionInv

(* Accepting a candidate: the limiter keeps the command in the envelope.   *)
LEMMA AcceptStep ==
  ASSUME MotionInv, AcceptTwist
  PROVE  MotionInv'
<1> DEFINE twist == Head(pending)
           c == AccelerationLimited(VelocityLimited(twist), Elapsed)
<1>1. /\ pending \in Seq(Twists \cup {NonFinite}) /\ pending # <<>>
      /\ twist # NonFinite
  BY DEF AcceptTwist, MotionInv, TypeOK
<1>2. twist \in Commands
  BY <1>1, TwistAssumption DEF Commands
<1>3. c \in Envelope
  BY <1>2, LimitedIsCommand DEF MotionInv
<1>4. /\ previousCommand' = c /\ preview' = MoveRequest(c)
      /\ control' = IF GateOpen THEN MoveRequest(c) ELSE control
      /\ pending' = Tail(pending) /\ commanded' = TRUE /\ age' = 0
      /\ stopSent' = FALSE /\ sinceRequest' = 0
      /\ UNCHANGED <<outputEnabled, physicalValidationApproved, sinceWatchdog>>
  BY DEF AcceptTwist, Emit, gate
<1> HIDE DEF twist, c
<1>5. MoveRequest(c) \in Requests /\ c \in Commands
  BY <1>3 DEF MoveRequest, Requests, Envelope
<1>6. TypeOK'
  <2>1. pending' \in Seq(Twists \cup {NonFinite}) /\ Len(pending') <= QueueDepth
    BY <1>1, <1>4, TimeAssumption DEF MotionInv, TypeOK
  <2>2. preview' \in Requests /\ control' \in Requests /\ previousCommand' \in Commands
    BY <1>4, <1>5 DEF MotionInv, TypeOK
  <2>3. /\ outputEnabled' \in BOOLEAN /\ physicalValidationApproved' \in BOOLEAN
        /\ commanded' \in BOOLEAN /\ stopSent' \in BOOLEAN
    BY <1>4, Zenon DEF MotionInv, TypeOK
  <2>4. /\ age' \in 0..MaxAge /\ sinceRequest' \in 0..MaxAge
        /\ sinceWatchdog' \in 0..(WatchdogPeriod + WatchdogLag)
    BY <1>4, AgeAssumption DEF MotionInv, TypeOK
  <2>5. QED BY <2>1, <2>2, <2>3, <2>4 DEF TypeOK
<1>7. previousCommand' \in Envelope /\ WithinEnvelope'
  BY <1>3, <1>4 DEF MotionInv, WithinEnvelope, MoveRequest
<1>8. GateConsistent'
  BY <1>4 DEF MotionInv, GateConsistent, GateOpen
<1>9. StopLatch'
  BY <1>4 DEF StopLatch, MoveRequest
<1>10. Overdue'
  BY <1>4, TimeAssumption DEF Overdue, MotionInv, TypeOK
<1>11. QED BY <1>6, <1>7, <1>8, <1>9, <1>10 DEF MotionInv

(* A watchdog call with nothing to stop: no Move can be overdue.           *)
LEMMA QuietStep ==
  ASSUME MotionInv, WatchdogQuiet
  PROVE  MotionInv'
<1>1. /\ sinceWatchdog' = 0
      /\ UNCHANGED <<outputEnabled, physicalValidationApproved, pending,
                     previousCommand, commanded, age, stopSent, preview,
                     control, sinceRequest>>
  BY DEF WatchdogQuiet, gate
<1>2. TypeOK'
  BY <1>1, TimeAssumption DEF MotionInv, TypeOK
<1>3. Overdue'
  <2>1. age \in Nat /\ Timeout \in Nat
    BY TimeAssumption DEF MotionInv, TypeOK
  <2>2. preview.api = "move" => ~IsStale(age)
    BY DEF MotionInv, StopLatch, WatchdogQuiet
  <2>3. QED BY <1>1, <2>1, <2>2 DEF Overdue, IsStale
<1>4. QED
  BY <1>1, <1>2, <1>3 DEF MotionInv, WithinEnvelope, GateConsistent, GateOpen,
                          StopLatch

(* The watchdog's StopMove leaves the robot at rest and the latch set.     *)
LEMMA StopStep ==
  ASSUME MotionInv, WatchdogStop
  PROVE  MotionInv'
<1>1. /\ previousCommand' = Standstill /\ preview' = StopRequest
      /\ control' = IF GateOpen THEN StopRequest ELSE control
      /\ stopSent' = TRUE /\ sinceWatchdog' = 0 /\ sinceRequest' = 0
      /\ UNCHANGED <<outputEnabled, physicalValidationApproved, pending,
                     commanded, age>>
      /\ commanded
  BY DEF WatchdogStop, Emit, gate
<1>2. StopRequest \in Requests /\ Standstill \in Commands
  BY StandstillInEnvelope DEF StopRequest, Requests, Envelope
<1>3. TypeOK'
  <2>1. preview' \in Requests /\ control' \in Requests /\ previousCommand' \in Commands
    BY <1>1, <1>2 DEF MotionInv, TypeOK
  <2>2. /\ outputEnabled' \in BOOLEAN /\ physicalValidationApproved' \in BOOLEAN
        /\ commanded' \in BOOLEAN /\ stopSent' \in BOOLEAN
    BY <1>1, Zenon DEF MotionInv, TypeOK
  <2>3. /\ sinceRequest' \in 0..MaxAge
        /\ sinceWatchdog' \in 0..(WatchdogPeriod + WatchdogLag)
    BY <1>1, TimeAssumption, AgeAssumption
  <2>4. QED BY <1>1, <2>1, <2>2, <2>3 DEF MotionInv, TypeOK
<1>4. previousCommand' \in Envelope /\ WithinEnvelope'
  BY <1>1, StandstillInEnvelope DEF MotionInv, WithinEnvelope, StopRequest
<1>5. GateConsistent'
  BY <1>1 DEF MotionInv, GateConsistent, GateOpen
<1>6. StopLatch'
  BY <1>1 DEF StopLatch, StopRequest
<1>7. Overdue'
  BY <1>1 DEF Overdue, StopRequest
<1>8. QED BY <1>3, <1>4, <1>5, <1>6, <1>7 DEF MotionInv

(* Time makes a Move at most one tick more overdue, and counts that tick.  *)
LEMMA TickStep ==
  ASSUME MotionInv, Tick
  PROVE  MotionInv'
<1>1. /\ sinceWatchdog' = sinceWatchdog + 1
      /\ age' = IF commanded THEN MinOf(age + 1, MaxAge) ELSE age
      /\ sinceRequest' = MinOf(sinceRequest + 1, MaxAge)
      /\ UNCHANGED <<outputEnabled, physicalValidationApproved, pending,
                     previousCommand, commanded, stopSent, preview, control>>
      /\ sinceWatchdog < WatchdogPeriod + WatchdogLag
  BY DEF Tick, gate
<1>2. /\ age \in 0..MaxAge /\ sinceRequest \in 0..MaxAge
      /\ sinceWatchdog \in 0..(WatchdogPeriod + WatchdogLag)
  BY DEF MotionInv, TypeOK
<1>3. /\ age' \in 0..MaxAge /\ age' <= age + 1
      /\ sinceRequest' \in 0..MaxAge
      /\ sinceWatchdog' \in 0..(WatchdogPeriod + WatchdogLag)
  BY <1>1, <1>2, TimeAssumption, AgeAssumption DEF MinOf
<1>4. TypeOK'
  BY <1>1, <1>3 DEF MotionInv, TypeOK
<1>5. Overdue'
  BY <1>1, <1>2, <1>3, TimeAssumption DEF MotionInv, Overdue
<1>6. QED
  BY <1>1, <1>4, <1>5 DEF MotionInv, WithinEnvelope, GateConsistent, GateOpen,
                          StopLatch

(* Every step keeps the invariant.                                         *)
LEMMA NextMotionInv == MotionInv /\ [Next]_vars => MotionInv'
<1> SUFFICES ASSUME MotionInv, [Next]_vars PROVE MotionInv'
  OBVIOUS
<1>1. CASE UNCHANGED vars
  BY <1>1 DEF vars, MotionInv, TypeOK, WithinEnvelope, GateConsistent, GateOpen,
              StopLatch, Overdue
<1>2. CASE Next
  BY <1>2, QueueSteps, AcceptStep, QuietStep, StopStep, TickStep DEF Next
<1>3. QED BY <1>1, <1>2

(* The invariant holds in every reachable state.                           *)
THEOREM MotionInvariant == Spec => []MotionInv
  BY InitMotionInv, NextMotionInv, PTL DEF Spec

(* Every variable keeps its type and every age stays below its cap.        *)
THEOREM TypeCorrect == Spec => []TypeOK
<1>1. MotionInv => TypeOK
  BY DEF MotionInv
<1>2. QED BY <1>1, MotionInvariant, PTL

(* No request ever leaves the velocity envelope.                           *)
THEOREM EnvelopeKept == Spec => []WithinEnvelope
<1>1. MotionInv => WithinEnvelope
  BY DEF MotionInv
<1>2. QED BY <1>1, MotionInvariant, PTL

(* The robot sees the previewed requests or, gate closed, none.            *)
THEOREM GateKept == Spec => []GateConsistent
<1>1. MotionInv => GateConsistent
  BY DEF MotionInv
<1>2. QED BY <1>1, MotionInvariant, PTL

-----------------------------------------------------------------------------
(* Action properties.                                                      *)

(* While a Move is in force, it is as old as the candidate it came from.   *)
SameAge == preview.api = "move" => age = sinceRequest

(* The two ages of a Move agree in every reachable state.                  *)
THEOREM AgesAgree == Spec => []SameAge
<1>1. Init => SameAge
  BY DEF Init, SameAge, NoRequest
<1>2. MotionInv /\ SameAge /\ [Next]_vars => SameAge'
  <2> SUFFICES ASSUME MotionInv, SameAge, [Next]_vars PROVE SameAge'
    OBVIOUS
  <2>1. CASE AcceptTwist
    BY <2>1 DEF AcceptTwist, Emit, SameAge
  <2>2. CASE WatchdogStop
    BY <2>2 DEF WatchdogStop, Emit, SameAge, StopRequest
  <2>3. CASE Tick
    BY <2>3 DEF Tick, SameAge, MotionInv, StopLatch
  <2>4. CASE UNCHANGED <<age, preview, sinceRequest>>
    BY <2>4 DEF SameAge
  <2>5. QED
    BY <2>1, <2>2, <2>3, <2>4
    DEF Next, vars, ReceiveTwist, RejectTwist, WatchdogQuiet
<1>3. QED BY <1>1, <1>2, MotionInvariant, PTL DEF Spec

(* No Move outlives the timeout by more than a watchdog period and a lag.  *)
LEMMA InvDeadline == MotionInv /\ SameAge => StopDeadline
  BY TimeAssumption
  DEF MotionInv, TypeOK, Overdue, SameAge, StopDeadline, Deadline

(* The stop deadline holds in every reachable state.                       *)
THEOREM StopInTime == Spec => []StopDeadline
  BY InvDeadline, MotionInvariant, AgesAgree, PTL

(* Only an accepted candidate publishes a Move, only the watchdog a stop.  *)
LEMMA WhoPublishes ==
  ASSUME [Next]_vars
  PROVE  \/ AcceptTwist
         \/ WatchdogStop
         \/ Tick
         \/ UNCHANGED <<preview, age, sinceRequest>>
  BY DEF Next, vars, ReceiveTwist, RejectTwist, WatchdogQuiet

(* A silence is answered by at most one StopMove.                          *)
THEOREM StopOnce == Spec => OneStopPerSilence
<1>1. MotionInv /\ [Next]_vars => [NoSecondStop]_vars
  <2> SUFFICES ASSUME MotionInv, [Next]_vars PROVE NoSecondStop
    OBVIOUS
  <2>0. sinceRequest \in 0..MaxAge
    BY DEF MotionInv, TypeOK
  <2>1. CASE AcceptTwist
    BY <2>1 DEF AcceptTwist, Emit, MoveRequest, NoSecondStop
  <2>2. CASE WatchdogStop
    BY <2>2 DEF WatchdogStop, MotionInv, StopLatch, NoSecondStop
  <2>3. CASE Tick
    BY <2>0, <2>3, AgeAssumption DEF Tick, MinOf, NoSecondStop
  <2>4. CASE UNCHANGED <<preview, age, sinceRequest>>
    BY <2>0, <2>4 DEF NoSecondStop
  <2>5. QED BY <2>1, <2>2, <2>3, <2>4, WhoPublishes
<1>2. QED BY <1>1, MotionInvariant, PTL DEF Spec, OneStopPerSilence

(* Two successive Moves differ by at most rate times elapsed time.         *)
THEOREM MovesAreSmooth == Spec => SmoothMoves
<1>1. MotionInv /\ SameAge /\ [Next]_vars => [SmoothMove]_vars
  <2> SUFFICES ASSUME MotionInv, SameAge, [Next]_vars,
                      preview.api = "move", preview'.api = "move",
                      NEW a \in Axes
               PROVE  Differs(preview'.command, preview.command, a)
                        <= sinceRequest * Acceleration[a]
    BY DEF SmoothMove
  <2>1. CASE AcceptTwist
    <3> DEFINE c == AccelerationLimited(VelocityLimited(Head(pending)), Elapsed)
    <3>1. preview' = MoveRequest(c)
      BY <2>1 DEF AcceptTwist, Emit
    <3>2. Elapsed = sinceRequest /\ Elapsed \in Nat
      BY ElapsedType DEF MotionInv, StopLatch, SameAge, Elapsed
    <3>3. Head(pending) \in Commands
      BY <2>1, TwistAssumption DEF AcceptTwist, MotionInv, TypeOK, Commands
    <3>4. Differs(c, previousCommand, a) <= Elapsed * Acceleration[a]
      BY <3>2, <3>3, ClampInEnvelope, LimiterStep DEF MotionInv
    <3>5. preview.command = previousCommand /\ preview'.command = c
      BY <3>1 DEF MotionInv, StopLatch, MoveRequest
    <3> HIDE DEF c
    <3>6. QED BY <3>2, <3>4, <3>5
  <2>2. CASE WatchdogStop
    BY <2>2 DEF WatchdogStop, Emit, StopRequest
  <2>3. CASE UNCHANGED preview
    <3>1. preview.command[a] \in Int /\ sinceRequest \in Nat
      BY AgeAssumption DEF MotionInv, TypeOK, Requests, Commands
    <3>2. sinceRequest * Acceleration[a] \in Nat
      BY <3>1, LimitTypes, NatProduct
    <3>3. QED BY <2>3, <3>1, <3>2 DEF Differs, MaxOf
  <2>4. QED BY <2>1, <2>2, <2>3, WhoPublishes DEF Tick
<1>2. QED BY <1>1, MotionInvariant, AgesAgree, PTL DEF Spec, SmoothMoves

-----------------------------------------------------------------------------
(* The adapter implements the abstract stream of safe requests.            *)

(* Initial states map to the abstract initial state.                       *)
LEMMA InitRefines == Init => Safe!SafeInit
  BY DEF Init, Safe!SafeInit, NoRequest, Silence

(* Every step is an abstract Move, stop or tick of silence, or a stutter.  *)
LEMMA StepRefines ==
  MotionInv /\ SameAge /\ StopDeadline' /\ [Next]_vars
    => [Safe!SafeNext]_(Safe!safeVars)
<1> SUFFICES ASSUME MotionInv, SameAge, StopDeadline', [Next]_vars
             PROVE  Safe!SafeNext \/ UNCHANGED <<preview, Silence>>
  BY DEF Safe!safeVars
<1>1. CASE AcceptTwist
  <2>0. Head(pending) \in Commands
    BY <1>1, TwistAssumption DEF AcceptTwist, MotionInv, TypeOK, Commands
  <2>1. /\ preview' = [api |-> "move", command |-> preview'.command]
        /\ preview'.command \in Envelope /\ Silence' = 0
    BY <1>1, <2>0, LimitedIsCommand
    DEF AcceptTwist, Emit, MoveRequest, MotionInv, Silence
  <2>2. QED BY <2>1 DEF Safe!SafeNext, Safe!SafeMove
<1>2. CASE WatchdogStop
  <2>1. preview.api = "move"
    BY <1>2 DEF WatchdogStop, MotionInv, StopLatch, TypeOK, Requests
  <2>2. Silence > Timeout
    BY <1>2, <2>1 DEF WatchdogStop, IsStale, Silence, SameAge
  <2>3. preview' = [api |-> "stop", command |-> Standstill] /\ Silence' = 0
    BY <1>2 DEF WatchdogStop, Emit, StopRequest, Silence
  <2>4. QED BY <2>1, <2>2, <2>3 DEF Safe!SafeNext, Safe!SafeStop
<1>3. CASE Tick
  <2>1. UNCHANGED preview
    BY <1>3 DEF Tick
  <2>2. CASE preview.api = "move"
    <3>0. Deadline < MaxAge /\ Deadline \in Nat
      BY TimeAssumption, AgeAssumption DEF Deadline
    <3>1. sinceRequest' <= Deadline
      BY <2>1, <2>2 DEF StopDeadline, Deadline
    <3>2. /\ sinceRequest' = MinOf(sinceRequest + 1, MaxAge)
          /\ sinceRequest \in 0..MaxAge
      BY <1>3, <2>2 DEF Tick, MotionInv, TypeOK
    <3>3. sinceRequest' = sinceRequest + 1 /\ sinceRequest < Deadline
      BY <3>0, <3>1, <3>2, AgeAssumption DEF MinOf
    <3>4. Silence = sinceRequest /\ Silence' = sinceRequest'
      BY <2>1, <2>2 DEF Silence
    <3>5. QED BY <2>1, <2>2, <3>3, <3>4 DEF Safe!SafeNext, Safe!SafeElapse
  <2>3. CASE preview.api # "move"
    BY <2>1, <2>3 DEF Silence
  <2>4. QED BY <2>2, <2>3
<1>4. CASE UNCHANGED <<preview, age, sinceRequest>>
  BY <1>4 DEF Silence
<1>5. QED BY <1>1, <1>2, <1>3, <1>4, WhoPublishes

(* Whatever the candidates, the preview topic is a safe request stream.    *)
THEOREM Implements == Spec => ImplementsSafeMotion
  BY InitRefines, StepRefines, MotionInvariant, AgesAgree, StopInTime, PTL
  DEF Spec, ImplementsSafeMotion, Safe!SafeSpec
=============================================================================
