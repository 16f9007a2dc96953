-------------------------- MODULE PreflightProofs --------------------------
(* Proofs about Preflight for every duration, grace, limit and set of      *)
(* positions.  The heart of it is why a report that is not a failure knows *)
(* of every node that was away for too long although the graph timer sees  *)
(* the nodes once a second only: the streak of a node is never shorter     *)
(* than its absence at a served timer, and one second shorter at one that  *)
(* is due.                                                                 *)
EXTENDS Preflight, TLAPS

GraphTypes ==
  [seen : SUBSET Nodes, lost : SUBSET Nodes, streak : [Nodes -> Nat],
   commanders : Nat, future : {"none", "asked", "answered", "failed"},
   gates : (BOOLEAN \X BOOLEAN) \cup {Unknown}]
TopicTypes ==
  [received : Nat, published : BOOLEAN, invalid : BOOLEAN, regressed : BOOLEAN,
   otherFrame : BOOLEAN, first : Nat, last : Nat, gap : Int, stamp : Int,
   firstX : Int, lastX : Int, step : Int]

(* Types that need nothing but themselves.                                 *)
ProcessTypes ==
  /\ stage \in {"idle", "starting", "waiting", "sigint", "sigterm", "stopping",
                "assessing", "over"}
  /\ telemetry \in {"none", "running", "ended"}
  /\ launch \in {"none", "running", "ended"}
  /\ observer \in {"none", "observing", "ended"}
  /\ result \in {"none", "PASS", "WARN", "FAIL"} /\ exit \in {0, 1, 2, 130}
  /\ report \in {"none", "PASS", "WARN", "FAIL"}
  /\ odd \in 0..MaxOdd
BooleanTypes == clean \in BOOLEAN /\ checkDue \in BOOLEAN /\ commanded \in BOOLEAN
DataTypes ==
  /\ time \in 0..(Duration + 1)
  /\ gates \in BOOLEAN \X BOOLEAN
  /\ graph \in GraphTypes /\ topic \in TopicTypes
  /\ absent \in [Nodes -> Nat] /\ longest \in Nat /\ heard \in 0..time

(* What the places of the runner say of the processes.                     *)
Places ==
  /\ stage \in {"idle", "starting"} =>
       /\ launch = "none" /\ observer = "none" /\ report = "none"
       /\ time = 0 /\ ~checkDue /\ longest = 0
       /\ graph = NoGraph /\ topic = NoTopic
  /\ stage \in {"stopping", "assessing"} => launch = "ended"
  /\ stage = "assessing" => telemetry = "ended"
  /\ observer = "observing" => report = "none"
  /\ result # "none" => stage = "over"

(* The nodes, and what the observer knows of them and of the gates.        *)
NodesKnown ==
  /\ present \subseteq everUp /\ graph.seen \subseteq everUp /\ everUp \subseteq Nodes
  /\ graph.gates # Unknown => graph.gates = gates /\ graph.future = "answered"
  /\ commanded => gates = <<TRUE, TRUE>>

(* The messages: at most one a second.                                     *)
TopicBounded ==
  /\ topic.received <= topic.last + 1 /\ topic.first <= topic.last
  /\ topic.last <= time

(* No absence before the grace has passed, none of a node that is there.   *)
AbsenceBounded ==
  /\ longest <= time
  /\ \A n \in Nodes : /\ absent[n] <= time
                      /\ n \in present \/ time <= Grace => absent[n] = 0

Owed == IF checkDue THEN 1 ELSE 0

(* The streak of a node follows its absence, and the lost nodes keep it.   *)
StreakFollows ==
  /\ \A n \in Nodes : graph.streak[n] + Owed <= time \/ graph.streak[n] = 0
  /\ observer = "observing" =>
       /\ \A n \in Nodes : /\ absent[n] <= graph.streak[n] + Owed
                           /\ graph.streak[n] + Owed <= time
                           /\ graph.streak[n] >= MissingLimit => n \in graph.lost
       /\ longest > MissingLimit => graph.lost # {}

(* What a report that is not a failure says.                               *)
ReportTruthful ==
  report \in {"PASS", "WARN"} =>
    gates = <<FALSE, FALSE>> /\ everUp = Nodes /\ longest <= MissingLimit

PreflightInv ==
  /\ ProcessTypes /\ BooleanTypes /\ DataTypes
  /\ Places /\ NodesKnown /\ TopicBounded /\ AbsenceBounded /\ StreakFollows
  /\ ReportTruthful /\ ResultTruthful

LEMMA ConstantTypes ==
  /\ Duration \in Nat \ {0} /\ MissingLimit \in Nat \ {0} /\ Grace \in Nat /\ MaxOdd \in Nat
  /\ Positions \subseteq Int /\ 0 \in Positions
  BY TimeAssumption, PositionAssumption

(* The invariant says what TypeOK says.                                    *)
LEMMA TypesFollow == PreflightInv => TypeOK
<1> SUFFICES ASSUME PreflightInv PROVE TypeOK
  OBVIOUS
<1>1. /\ clean \in BOOLEAN /\ commanded \in BOOLEAN
  BY Zenon DEF PreflightInv, BooleanTypes
<1>2. time \in 0..(Duration + 1) /\ time \in Nat /\ Duration \in Nat
  BY ConstantTypes DEF PreflightInv, DataTypes
<1>3. /\ topic.received \in 0..(Duration + 2) /\ topic.first <= topic.last
  BY <1>2 DEF PreflightInv, DataTypes, TopicTypes, TopicBounded
<1>4. \A n \in Nodes : graph.streak[n] \in 0..(Duration + 2)
  <2> TAKE n \in Nodes
  <2>1. graph.streak[n] \in Nat
    BY DEF PreflightInv, DataTypes, GraphTypes
  <2>2. graph.streak[n] <= time
    BY <1>2, <2>1 DEF PreflightInv, StreakFollows, Owed
  <2>3. QED BY <1>2, <2>1, <2>2
<1>5. {absent[n] : n \in Nodes} \cup {longest, heard} \subseteq 0..(Duration + 1)
  BY <1>2 DEF PreflightInv, DataTypes, AbsenceBounded
<1>6. QED
  BY <1>1, <1>2, <1>3, <1>4, <1>5 DEF PreflightInv, ProcessTypes, NodesKnown, TypeOK

(* The invariant holds at the start.                                       *)
LEMMA InitPreflightInv == Init => PreflightInv
<1> SUFFICES ASSUME Init PROVE PreflightInv
  OBVIOUS
<1>1. ProcessTypes /\ BooleanTypes
  <2>1. ProcessTypes
    BY ConstantTypes DEF Init, ProcessTypes
  <2>2. BooleanTypes
    BY Zenon DEF Init, BooleanTypes
  <2>3. QED BY <2>1, <2>2
<1>2. DataTypes
  <2>1. graph \in GraphTypes
    BY DEF Init, NoGraph, GraphTypes
  <2>2. topic \in TopicTypes
    BY DEF Init, NoTopic, TopicTypes
  <2>3. QED BY <2>1, <2>2, ConstantTypes DEF Init, DataTypes
<1>3. Places
  BY DEF Init, Places
<1>4. NodesKnown
  BY DEF Init, NodesKnown, NoGraph
<1>5. TopicBounded
  BY DEF Init, TopicBounded, NoTopic
<1>6. AbsenceBounded /\ StreakFollows
  BY ConstantTypes DEF Init, AbsenceBounded, StreakFollows, NoGraph, Owed
<1>7. ReportTruthful /\ ResultTruthful
  BY DEF Init, ReportTruthful, ResultTruthful, Passed
<1>8. QED BY <1>1, <1>2, <1>3, <1>4, <1>5, <1>6, <1>7 DEF PreflightInv

-----------------------------------------------------------------------------
(* What actions of one kind leave in place.                                *)

(* Nothing the observer relates has changed.                               *)
LEMMA WatchKept ==
  ASSUME PreflightInv,
         UNCHANGED <<time, gates, stack, observer, checkDue, graph, topic, history>>
  PROVE  DataTypes' /\ NodesKnown' /\ TopicBounded' /\ AbsenceBounded' /\ StreakFollows'
<1>1. DataTypes'
  BY DEF PreflightInv, DataTypes, history
<1>2. NodesKnown'
  BY DEF PreflightInv, NodesKnown, stack, history
<1>3. TopicBounded' /\ AbsenceBounded' /\ StreakFollows'
  BY DEF PreflightInv, TopicBounded, AbsenceBounded, StreakFollows, Owed, stack, history
<1>4. QED BY <1>1, <1>2, <1>3

(* The observer ends, and nodes with it or not.                            *)
LEMMA WatchEnds ==
  ASSUME PreflightInv, ObserverEnds, UNCHANGED <<time, gates, everUp, history>>,
         present' \subseteq present
  PROVE  /\ DataTypes' /\ NodesKnown' /\ TopicBounded' /\ AbsenceBounded' /\ StreakFollows'
         /\ observer' = "ended" /\ ~checkDue' /\ checkDue' \in BOOLEAN
<1>1. observer' = "ended" /\ checkDue' = FALSE /\ graph' = NoGraph /\ topic' = NoTopic
  BY DEF ObserverEnds
<1>2. DataTypes'
  <2>1. NoGraph \in GraphTypes
    BY DEF NoGraph, GraphTypes
  <2>2. NoTopic \in TopicTypes
    BY DEF NoTopic, TopicTypes
  <2>3. QED BY <1>1, <2>1, <2>2 DEF PreflightInv, DataTypes, history
<1>3. NodesKnown'
  BY <1>1 DEF PreflightInv, NodesKnown, history, NoGraph
<1>4. TopicBounded'
  BY <1>1 DEF PreflightInv, DataTypes, TopicBounded, NoTopic
<1>5. AbsenceBounded'
  BY DEF PreflightInv, AbsenceBounded, history
<1>6. StreakFollows'
  BY <1>1 DEF StreakFollows, NoGraph
<1>7. QED BY <1>1, <1>2, <1>3, <1>4, <1>5, <1>6

(* The run goes on: its place and its result stay.                         *)
LEMMA PlacesKept ==
  ASSUME PreflightInv, launch = "running" \/ observer = "observing",
         UNCHANGED <<stage, telemetry, result>>,
         launch' = launch \/ launch' = "ended",
         observer' = "observing" => observer = "observing" /\ report' = report
  PROVE  Places'
<1>1. stage \notin {"idle", "starting"}
  BY DEF PreflightInv, Places
<1>2. QED BY <1>1 DEF PreflightInv, Places

(* While anything of the run goes on there is no result.                   *)
LEMMA NoResultYet ==
  ASSUME PreflightInv,
         launch = "running" \/ observer = "observing" \/ stage # "over"
  PROVE  ~Passed
  BY DEF PreflightInv, Places, ResultTruthful, Passed

LEMMA ResultKept ==
  ASSUME PreflightInv, result' = result,
         launch = "running" \/ observer = "observing" \/ stage # "over"
  PROVE  ResultTruthful'
  BY NoResultYet DEF ResultTruthful, Passed

LEMMA ReportKept ==
  ASSUME PreflightInv, UNCHANGED <<report, gates, longest>>,
         everUp \subseteq everUp', everUp' \subseteq Nodes
  PROVE  ReportTruthful'
  BY DEF PreflightInv, ReportTruthful

(* Odd events are counted.                                                 *)
LEMMA OddFacts ==
  ASSUME PreflightInv, UNCHANGED odd \/ Odd
  PROVE  odd' \in 0..MaxOdd
  BY ConstantTypes DEF PreflightInv, ProcessTypes, Odd

-----------------------------------------------------------------------------
(* The observer.                                                           *)

(* What a look at the graph makes of what was known.                       *)
LEMMA LookFacts ==
  ASSUME PreflightInv
  PROVE  /\ GraphObserved \in GraphTypes
         /\ GraphObserved.seen = graph.seen \cup present
         /\ GraphObserved.streak =
              IF time < Grace THEN graph.streak
              ELSE [n \in Nodes |-> IF n \in present THEN 0 ELSE graph.streak[n] + 1]
         /\ GraphObserved.lost = graph.lost \cup LostBy(GraphObserved.streak)
         /\ GraphObserved.gates # Unknown =>
              GraphObserved.gates = gates /\ GraphObserved.future = "answered"
<1> DEFINE streak == IF time < Grace THEN graph.streak
                     ELSE [n \in Nodes |-> IF n \in present THEN 0 ELSE graph.streak[n] + 1]
           g == [graph EXCEPT !.seen = @ \cup present,
                              !.streak = streak,
                              !.lost = @ \cup LostBy(streak),
                              !.commanders = Later(@, Commanders)]
<1>1. GraphObserved = GateObserved(g)
  BY DEF GraphObserved
<1>2. graph \in GraphTypes /\ present \in SUBSET Nodes /\ gates \in BOOLEAN \X BOOLEAN
  BY DEF PreflightInv, DataTypes, NodesKnown
<1>3. streak \in [Nodes -> Nat]
  BY <1>2 DEF GraphTypes
<1>4. LostBy(streak) \in SUBSET Nodes
  BY DEF LostBy
<1>5. Later(graph.commanders, Commanders) \in Nat
  BY <1>2 DEF Later, Commanders, GraphTypes
<1> HIDE DEF streak
<1>6. /\ g \in GraphTypes
      /\ g.seen = graph.seen \cup present /\ g.streak = streak
      /\ g.lost = graph.lost \cup LostBy(streak)
      /\ g.gates = graph.gates /\ g.future = graph.future
  BY <1>2, <1>3, <1>4, <1>5 DEF GraphTypes
<1>7. g.gates # Unknown => g.gates = gates /\ g.future = "answered"
  BY <1>6 DEF PreflightInv, NodesKnown
<1> HIDE DEF g
<1>8. /\ GateObserved(g) \in GraphTypes
      /\ GateObserved(g).seen = g.seen /\ GateObserved(g).streak = g.streak
      /\ GateObserved(g).lost = g.lost
      /\ GateObserved(g).gates # Unknown =>
           GateObserved(g).gates = gates /\ GateObserved(g).future = "answered"
  BY <1>2, <1>6, <1>7 DEF GateObserved, GraphTypes
<1>9. QED BY <1>1, <1>6, <1>8 DEF streak

LEMMA TopicPublishedFacts ==
  ASSUME PreflightInv
  PROVE  /\ TopicPublished \in TopicTypes
         /\ TopicPublished.received = topic.received
         /\ TopicPublished.first = topic.first /\ TopicPublished.last = topic.last
<1>1. topic \in TopicTypes
  BY DEF PreflightInv, DataTypes
<1>2. (topic.published \/ "odometry" \in present) \in BOOLEAN
  OBVIOUS
<1>3. QED BY <1>1, <1>2 DEF TopicPublished, TopicTypes

(* A served timer: what was owed to the streaks is paid.                   *)
LEMMA ServeTimerStep ==
  ASSUME PreflightInv, ServeTimer
  PROVE  PreflightInv'
<1>1. /\ observer = "observing" /\ checkDue /\ checkDue' = FALSE
      /\ graph' = GraphObserved /\ topic' = TopicPublished
      /\ UNCHANGED <<processes, time, gates, stack, observer, report, odd, history>>
  BY DEF ServeTimer
<1>2. ProcessTypes' /\ BooleanTypes'
  <2>1. ProcessTypes'
    BY <1>1 DEF PreflightInv, ProcessTypes, processes
  <2>2. UNCHANGED <<clean, commanded>>
    BY <1>1 DEF processes, history
  <2>3. BooleanTypes'
    BY <1>1, <2>2, Zenon DEF PreflightInv, BooleanTypes
  <2>4. QED BY <2>1, <2>3
<1>3. DataTypes'
  BY <1>1, LookFacts, TopicPublishedFacts DEF PreflightInv, DataTypes, history
<1>4. Places' /\ ReportTruthful' /\ ResultTruthful'
  BY <1>1, PlacesKept, ReportKept, ResultKept
     DEF processes, stack, history, PreflightInv, NodesKnown
<1>5. NodesKnown'
  BY <1>1, LookFacts DEF PreflightInv, NodesKnown, stack, history
<1>6. TopicBounded'
  BY <1>1, TopicPublishedFacts DEF PreflightInv, TopicBounded
<1>7. AbsenceBounded'
  BY <1>1 DEF PreflightInv, AbsenceBounded, stack, history
<1>8. StreakFollows'
  <2>1. /\ time \in Nat /\ Grace \in Nat /\ MissingLimit \in Nat \ {0}
        /\ absent \in [Nodes -> Nat] /\ longest \in Nat
        /\ graph.streak \in [Nodes -> Nat]
    BY ConstantTypes DEF PreflightInv, DataTypes, GraphTypes
  <2>2. UNCHANGED <<time, absent, longest, present>>
    BY <1>1 DEF history, stack
  <2>3. ASSUME NEW n \in Nodes
        PROVE  /\ absent[n] <= GraphObserved.streak[n]
               /\ GraphObserved.streak[n] <= time /\ GraphObserved.streak[n] \in Nat
    <3>1. graph.streak[n] + 1 <= time /\ absent[n] <= graph.streak[n] + 1
      BY <1>1 DEF PreflightInv, StreakFollows, Owed
    <3>2. n \in present \/ time <= Grace => absent[n] = 0
      BY DEF PreflightInv, AbsenceBounded
    <3>3. GraphObserved.streak[n] =
            IF time < Grace THEN graph.streak[n]
            ELSE IF n \in present THEN 0 ELSE graph.streak[n] + 1
      BY LookFacts
    <3>4. QED BY <2>1, <3>1, <3>2, <3>3
  <2>4. \A n \in Nodes : GraphObserved.streak[n] >= MissingLimit => n \in GraphObserved.lost
    BY LookFacts DEF LostBy
  <2>5. longest > MissingLimit => GraphObserved.lost # {}
    BY <1>1, LookFacts DEF PreflightInv, StreakFollows
  <2>6. QED BY <1>1, <2>1, <2>2, <2>3, <2>4, <2>5 DEF StreakFollows, Owed
<1>9. QED BY <1>2, <1>3, <1>4, <1>5, <1>6, <1>7, <1>8 DEF PreflightInv

LEMMA AnswerGateStep ==
  ASSUME PreflightInv, AnswerGate
  PROVE  PreflightInv'
<1>1. /\ observer = "observing" /\ graph.future = "asked"
      /\ \/ graph' = [graph EXCEPT !.future = "answered"]
         \/ graph' = [graph EXCEPT !.future = "failed"]
      /\ UNCHANGED odd \/ Odd
      /\ UNCHANGED <<processes, time, gates, stack, observer, checkDue, topic, report,
                     history>>
  BY DEF AnswerGate
<1>2. /\ graph' \in GraphTypes /\ graph'.seen = graph.seen /\ graph'.lost = graph.lost
      /\ graph'.streak = graph.streak /\ graph'.gates = graph.gates
  BY <1>1 DEF PreflightInv, DataTypes, GraphTypes
<1>3. graph.gates = Unknown
  BY <1>1 DEF PreflightInv, NodesKnown
<1>4. ProcessTypes' /\ BooleanTypes'
  <2>1. ProcessTypes'
    BY <1>1, OddFacts DEF PreflightInv, ProcessTypes, processes
  <2>2. UNCHANGED <<clean, commanded, checkDue>>
    BY <1>1 DEF processes, history
  <2>3. BooleanTypes'
    BY <2>2, Zenon DEF PreflightInv, BooleanTypes
  <2>4. QED BY <2>1, <2>3
<1>5. DataTypes'
  BY <1>1, <1>2 DEF PreflightInv, DataTypes, history
<1>6. Places' /\ ReportTruthful' /\ ResultTruthful'
  BY <1>1, PlacesKept, ReportKept, ResultKept
     DEF processes, stack, history, PreflightInv, NodesKnown
<1>7. NodesKnown'
  BY <1>1, <1>2, <1>3 DEF PreflightInv, NodesKnown, stack, history
<1>8. TopicBounded' /\ AbsenceBounded' /\ StreakFollows'
  BY <1>1, <1>2 DEF PreflightInv, TopicBounded, AbsenceBounded, StreakFollows, Owed,
                    stack, history
<1>9. QED BY <1>4, <1>5, <1>6, <1>7, <1>8 DEF PreflightInv

(* A message keeps what the accumulator counts within the time passed.     *)
LEMMA ObservedFacts ==
  ASSUME PreflightInv, NEW m \in Messages
  PROVE  /\ Observed(topic, m) \in TopicTypes
         /\ Observed(topic, m).received = topic.received + 1
         /\ Observed(topic, m).first = (IF topic.received = 0 THEN time ELSE topic.first)
         /\ Observed(topic, m).last = time
<1> DEFINE invalid == topic.invalid \/ ~IsValid(m)
           otherFrame == topic.otherFrame \/ ~m.frame
           first == IF topic.received = 0 THEN time ELSE topic.first
           gap == IF topic.received = 0 THEN 0 ELSE Later(topic.gap, time - topic.last)
           timed == [topic EXCEPT !.invalid = invalid, !.otherFrame = otherFrame,
                                  !.first = first, !.gap = gap, !.last = time]
           stamped == Stamped(timed, m)
           posed == Posed(stamped, m)
<1>1. m.stamp \in Int /\ m.x \in Int
  BY ConstantTypes DEF PreflightInv, DataTypes, Messages, Plain
<1>2. topic \in TopicTypes /\ time \in Nat
  BY ConstantTypes DEF PreflightInv, DataTypes
<1>3. invalid \in BOOLEAN /\ otherFrame \in BOOLEAN
  OBVIOUS
<1>4. first \in Nat /\ gap \in Int
  BY <1>2 DEF TopicTypes, Later
<1> HIDE DEF invalid, otherFrame, first, gap
<1>5. /\ timed \in TopicTypes /\ timed.received = topic.received
      /\ timed.first = first /\ timed.last = time
  BY <1>2, <1>3, <1>4 DEF TopicTypes
<1> HIDE DEF timed
<1>6. /\ stamped \in TopicTypes /\ stamped.received = topic.received
      /\ stamped.first = first /\ stamped.last = time
  BY <1>1, <1>5 DEF Stamped, TopicTypes
<1> HIDE DEF stamped
<1>7. /\ posed \in TopicTypes /\ posed.received = topic.received
      /\ posed.first = first /\ posed.last = time
  <2> DEFINE firstX == IF stamped.received = 0 THEN m.x ELSE stamped.firstX
             step == IF stamped.received = 0 THEN 0
                     ELSE Later(stamped.step, Distance(stamped.lastX, m.x))
  <2>1. firstX \in Int /\ step \in Int
    BY <1>1, <1>6 DEF Later, Distance, TopicTypes
  <2>2. posed = [stamped EXCEPT !.firstX = firstX, !.step = step, !.lastX = m.x]
    BY DEF Posed
  <2> HIDE DEF firstX, step
  <2>3. QED BY <1>1, <1>6, <2>1, <2>2 DEF TopicTypes
<1> HIDE DEF posed
<1>8. Observed(topic, m) = [posed EXCEPT !.received = @ + 1]
  BY DEF Observed, posed, stamped, timed, invalid, otherFrame, first, gap
<1>9. QED BY <1>7, <1>8 DEF TopicTypes, first

LEMMA ReceiveMessageStep ==
  ASSUME PreflightInv, ReceiveMessage
  PROVE  PreflightInv'
<1>1. PICK m \in Messages : /\ topic' = Observed(topic, m)
                            /\ IF m = Plain THEN UNCHANGED odd ELSE Odd
  BY DEF ReceiveMessage
<1>2. /\ observer = "observing"
      /\ topic.received = 0 \/ topic.last < time
      /\ heard' = time
      /\ UNCHANGED <<processes, time, gates, stack, observer, checkDue, graph, report,
                     absent, longest, commanded>>
  BY DEF ReceiveMessage
<1>3. ProcessTypes' /\ BooleanTypes'
  <2>1. ProcessTypes'
    BY <1>1, <1>2, OddFacts DEF PreflightInv, ProcessTypes, processes
  <2>2. UNCHANGED <<clean, commanded, checkDue>>
    BY <1>2 DEF processes
  <2>3. BooleanTypes'
    BY <2>2, Zenon DEF PreflightInv, BooleanTypes
  <2>4. QED BY <2>1, <2>3
<1>4. DataTypes'
  BY <1>1, <1>2, ObservedFacts, ConstantTypes DEF PreflightInv, DataTypes
<1>5. Places' /\ ReportTruthful' /\ ResultTruthful'
  <2>1. Places' /\ ResultTruthful'
    BY <1>2, PlacesKept, ResultKept DEF processes
  <2>2. ReportTruthful'
    BY <1>2, ReportKept DEF stack, PreflightInv, NodesKnown
  <2>3. QED BY <2>1, <2>2
<1>6. NodesKnown' /\ AbsenceBounded' /\ StreakFollows'
  BY <1>2 DEF PreflightInv, NodesKnown, AbsenceBounded, StreakFollows, Owed, stack
<1>7. TopicBounded'
  <2>1. /\ topic.received \in Nat /\ topic.first \in Nat /\ topic.last \in Nat
        /\ time \in Nat
    BY ConstantTypes DEF PreflightInv, DataTypes, TopicTypes
  <2>2. QED BY <1>1, <1>2, <2>1, ObservedFacts DEF PreflightInv, TopicBounded
<1>8. QED BY <1>3, <1>4, <1>5, <1>6, <1>7 DEF PreflightInv

(* The status of a set of checks.                                          *)
LEMMA OverallFacts ==
  ASSUME NEW S
  PROVE  /\ Overall(S) \in {"PASS", "WARN", "FAIL"}
         /\ Overall(S) \in {"PASS", "WARN"} => "FAIL" \notin S
  BY DEF Overall

LEMMA GatesDiffer == <<FALSE, FALSE>> # Unknown /\ <<TRUE, TRUE>> # <<FALSE, FALSE>>
<1>1. <<FALSE, FALSE>> # Unknown
  <2>1. Len(<<FALSE, FALSE>>) = 2 /\ Len(<<>>) = 0
    OBVIOUS
  <2>2. QED BY <2>1 DEF Unknown
<1>2. <<TRUE, TRUE>> # <<FALSE, FALSE>>
  <2>1. <<TRUE, TRUE>>[1] = TRUE /\ <<FALSE, FALSE>>[1] = FALSE
    OBVIOUS
  <2>2. QED BY <2>1
<1>3. QED BY <1>1, <1>2

(* The report of a last look that finds no node lost, every node seen and  *)
(* both gates closed.                                                      *)
LEMMA FinalizeStep ==
  ASSUME PreflightInv, Finalize
  PROVE  PreflightInv'
<1>1. PICK environment \in BOOLEAN :
        /\ IF environment THEN UNCHANGED odd ELSE Odd
        /\ report' = Overall(ReportStatuses(GraphObserved, TopicPublished, environment))
  BY DEF Finalize
<1>2. /\ observer = "observing" /\ ObserverEnds
      /\ UNCHANGED <<processes, time, gates, stack, history>>
  BY DEF Finalize
<1>3. /\ DataTypes' /\ NodesKnown' /\ TopicBounded' /\ AbsenceBounded' /\ StreakFollows'
      /\ observer' = "ended" /\ ~checkDue' /\ checkDue' \in BOOLEAN
  BY <1>2, WatchEnds DEF stack
<1>4. ProcessTypes' /\ BooleanTypes'
  <2>1. report' \in {"PASS", "WARN", "FAIL"}
    BY <1>1, OverallFacts
  <2>2. ProcessTypes'
    BY <1>1, <1>2, <1>3, <2>1, OddFacts DEF PreflightInv, ProcessTypes, processes
  <2>3. UNCHANGED <<clean, commanded>>
    BY <1>2 DEF processes, history
  <2>4. BooleanTypes'
    BY <1>3, <2>3, Zenon DEF PreflightInv, BooleanTypes
  <2>5. QED BY <2>2, <2>4
<1>5. Places' /\ ResultTruthful'
  BY <1>2, <1>3, PlacesKept, ResultKept DEF processes
<1>6. ReportTruthful'
  <2>1. SUFFICES ASSUME report' \in {"PASS", "WARN"}
                 PROVE  gates = <<FALSE, FALSE>> /\ everUp = Nodes /\ longest <= MissingLimit
    BY <1>2 DEF ReportTruthful, stack, history
  <2>2. /\ GraphCheck(GraphObserved) # "FAIL"
        /\ "FAIL" \notin SafetyChecks(GraphObserved)
    BY <1>1, <2>1, OverallFacts DEF ReportStatuses
  <2>3. GraphObserved.gates = <<FALSE, FALSE>>
    BY <2>2 DEF SafetyChecks, Status
  <2>4. GraphObserved.seen = Nodes /\ GraphObserved.lost = {}
    BY <2>2 DEF GraphCheck, Status
  <2>5. gates = <<FALSE, FALSE>>
    BY <2>3, GatesDiffer, LookFacts
  <2>6. everUp = Nodes
    BY <2>4, LookFacts DEF PreflightInv, NodesKnown
  <2>7. longest <= MissingLimit
    <3>1. graph.lost = {}
      BY <2>4, LookFacts
    <3>2. ~(longest > MissingLimit)
      BY <1>2, <3>1 DEF PreflightInv, StreakFollows
    <3>3. QED BY <3>2, ConstantTypes DEF PreflightInv, DataTypes
  <2>8. QED BY <2>5, <2>6, <2>7
<1>7. QED BY <1>3, <1>4, <1>5, <1>6 DEF PreflightInv

-----------------------------------------------------------------------------
(* The stack and the launch.                                               *)

(* The longest absence is at least as long as before and as each absence.  *)
LEMMA LongestFacts ==
  ASSUME NEW f \in [Nodes -> Nat], NEW l \in Nat
  PROVE  LET k == CHOOSE k \in {l} \cup {f[n] : n \in Nodes} :
                    \A n \in Nodes : k >= l /\ k >= f[n]
         IN  k \in {l} \cup {f[n] : n \in Nodes}
<1> DEFINE Longest(k) == \A n \in Nodes : k >= l /\ k >= f[n]
           S == {l} \cup {f[n] : n \in Nodes}
<1>1. /\ f["motion"] \in Nat /\ f["odometry"] \in Nat
      /\ f["motion"] \in S /\ f["odometry"] \in S
  BY DEF Nodes
<1>2. \E k \in S : Longest(k)
  <2>1. CASE l >= f["motion"] /\ l >= f["odometry"]
    BY <2>1 DEF Nodes
  <2>2. CASE f["motion"] > l /\ f["motion"] >= f["odometry"]
    BY <1>1, <2>2 DEF Nodes
  <2>3. CASE f["odometry"] > l /\ f["odometry"] > f["motion"]
    BY <1>1, <2>3 DEF Nodes
  <2>4. QED BY <1>1, <2>1, <2>2, <2>3
<1>3. QED BY <1>2

(* A second: what a node is away is owed to its streak.                    *)
LEMMA SecondStep ==
  ASSUME PreflightInv, Second
  PROVE  PreflightInv'
<1>1. /\ launch = "running" \/ observer = "observing"
      /\ time <= Duration
      /\ ~checkDue \/ observer # "observing"
      /\ time' = time + 1 /\ checkDue' = (observer = "observing")
      /\ absent' = [n \in Nodes |-> IF n \in present \/ time < Grace THEN 0 ELSE absent[n] + 1]
      /\ commanded' = (commanded \/ (Commanders > 0 /\ observer = "observing"))
      /\ UNCHANGED <<processes, gates, stack, observer, graph, topic, report, heard, odd>>
  BY DEF Second
<1>2. /\ time \in Nat /\ time' \in 0..(Duration + 1) /\ Grace \in Nat /\ longest \in Nat
      /\ absent \in [Nodes -> Nat] /\ graph.streak \in [Nodes -> Nat]
      /\ heard \in 0..time
  BY <1>1, ConstantTypes DEF PreflightInv, DataTypes, GraphTypes
<1>3. absent' \in [Nodes -> Nat]
  BY <1>1, <1>2
<1>4. /\ observer # "observing" => longest' = longest
      /\ longest' \in {longest} \cup {absent'[n] : n \in Nodes}
  BY <1>2, <1>3, LongestFacts DEF Second
<1>5. \A n \in Nodes : absent'[n] <= absent[n] + 1 /\ absent'[n] <= time'
  BY <1>1, <1>2 DEF PreflightInv, AbsenceBounded
<1>6. ProcessTypes' /\ BooleanTypes'
  <2>1. ProcessTypes'
    BY <1>1 DEF PreflightInv, ProcessTypes, processes
  <2>2. checkDue' \in BOOLEAN /\ commanded' \in BOOLEAN
    BY <1>1, Zenon
  <2>3. clean' \in BOOLEAN
    BY <1>1, Zenon DEF PreflightInv, BooleanTypes, processes
  <2>4. QED BY <2>1, <2>2, <2>3 DEF BooleanTypes
<1>7. DataTypes'
  <2>1. longest' \in Nat
    BY <1>2, <1>3, <1>4
  <2>2. heard' \in 0..time'
    BY <1>1, <1>2
  <2>3. QED BY <1>1, <1>2, <1>3, <2>1, <2>2 DEF PreflightInv, DataTypes
<1>8. Places' /\ ResultTruthful'
  BY <1>1, PlacesKept, ResultKept DEF processes
<1>9. NodesKnown'
  <2>1. Commanders > 0 => gates = <<TRUE, TRUE>>
    <3>1. SUFFICES ASSUME gates # <<TRUE, TRUE>>
                   PROVE  ~(Commanders > 0)
      OBVIOUS
    <3>2. Commanders = 0
      BY <3>1, Zenon DEF Commanders
    <3>3. QED BY <3>2
  <2>2. commanded' => commanded \/ Commanders > 0
    BY <1>1, Zenon
  <2>3. commanded' => gates = <<TRUE, TRUE>>
    BY <2>1, <2>2, Zenon DEF PreflightInv, NodesKnown
  <2>4. UNCHANGED <<present, everUp, graph, gates>>
    BY <1>1 DEF stack
  <2>5. QED BY <2>3, <2>4 DEF PreflightInv, NodesKnown
<1>10. TopicBounded'
  BY <1>1, <1>2 DEF PreflightInv, DataTypes, TopicTypes, TopicBounded
<1>11. AbsenceBounded'
  <2>1. longest' <= time'
    BY <1>1, <1>2, <1>3, <1>4, <1>5 DEF PreflightInv, AbsenceBounded
  <2>2. \A n \in Nodes : n \in present' \/ time' <= Grace => absent'[n] = 0
    BY <1>1, <1>2 DEF stack
  <2>3. QED BY <1>5, <2>1, <2>2 DEF AbsenceBounded
<1>12. StreakFollows'
  <2>1. CASE observer # "observing"
    BY <1>1, <1>2, <2>1 DEF PreflightInv, StreakFollows, Owed
  <2>2. CASE observer = "observing"
    <3>1. ~checkDue /\ checkDue'
      BY <1>1, <2>2
    <3>2. ASSUME NEW n \in Nodes
          PROVE  /\ absent[n] <= graph.streak[n] /\ graph.streak[n] <= time
                 /\ graph.streak[n] >= MissingLimit => n \in graph.lost
                 /\ graph.streak[n] \in Nat /\ absent[n] \in Nat
      BY <1>2, <2>2, <3>1 DEF PreflightInv, StreakFollows, Owed
    <3>3. longest' > MissingLimit => graph.lost # {}
      <4>1. CASE longest' = longest
        BY <2>2, <4>1 DEF PreflightInv, StreakFollows
      <4>2. ASSUME NEW n \in Nodes, longest' = absent'[n], longest' > MissingLimit
            PROVE  n \in graph.lost
        <5>1. absent'[n] <= absent[n] + 1 /\ absent'[n] \in Nat
          BY <1>3, <1>5
        <5>2. graph.streak[n] >= MissingLimit
          BY <3>2, <4>2, <5>1, ConstantTypes
        <5>3. QED BY <3>2, <5>2
      <4>3. QED BY <1>4, <4>1, <4>2
    <3>4. \A n \in Nodes : /\ absent'[n] <= graph.streak[n] + 1
                           /\ graph.streak[n] + 1 <= time'
      BY <1>1, <1>2, <1>3, <1>5, <3>2
    <3>5. QED BY <1>1, <3>1, <3>2, <3>3, <3>4 DEF StreakFollows, Owed
  <2>3. QED BY <2>1, <2>2
<1>13. ReportTruthful'
  <2>1. report \in {"PASS", "WARN"} => observer # "observing"
    BY DEF PreflightInv, Places
  <2>2. QED BY <1>1, <1>4, <2>1 DEF PreflightInv, ReportTruthful, stack
<1>14. QED BY <1>6, <1>7, <1>8, <1>9, <1>10, <1>11, <1>12, <1>13 DEF PreflightInv

(* A node comes or goes between two looks at the graph.                    *)
LEMMA NodeStep ==
  ASSUME PreflightInv, NEW n \in Nodes, NodeUp(n) \/ NodeDown(n)
  PROVE  PreflightInv'
<1>1. /\ UNCHANGED odd \/ Odd
      /\ \/ /\ present' = present \cup {n} /\ everUp' = everUp \cup {n}
            /\ absent' = [absent EXCEPT ![n] = 0]
         \/ present' = present \ {n} /\ everUp' = everUp /\ absent' = absent
      /\ UNCHANGED <<processes, time, gates, watching, longest, heard, commanded>>
  BY DEF NodeUp, NodeDown, history
<1>2. absent \in [Nodes -> Nat] /\ time \in Nat /\ graph.streak \in [Nodes -> Nat]
  BY ConstantTypes DEF PreflightInv, DataTypes, GraphTypes
<1>3. /\ absent' \in [Nodes -> Nat]
      /\ \A i \in Nodes : absent'[i] = absent[i] \/ (i = n /\ absent'[i] = 0)
      /\ \A i \in Nodes : i \in present' => absent'[i] = 0
  BY <1>1, <1>2 DEF PreflightInv, AbsenceBounded
<1>4. ProcessTypes' /\ BooleanTypes'
  <2>1. ProcessTypes'
    BY <1>1, OddFacts DEF PreflightInv, ProcessTypes, processes, watching
  <2>2. UNCHANGED <<clean, commanded, checkDue>>
    BY <1>1 DEF processes, watching
  <2>3. BooleanTypes'
    BY <2>2, Zenon DEF PreflightInv, BooleanTypes
  <2>4. QED BY <2>1, <2>3
<1>5. DataTypes'
  BY <1>1, <1>3 DEF PreflightInv, DataTypes, watching
<1>6. Places' /\ ResultTruthful'
  <2>1. ~Passed
    <3>1. CASE NodeUp(n)
      BY <3>1, NoResultYet DEF NodeUp
    <3>2. CASE NodeDown(n)
      BY <3>2 DEF NodeDown, PreflightInv, ResultTruthful
    <3>3. QED BY <3>1, <3>2
  <2>2. ResultTruthful'
    BY <1>1, <2>1 DEF ResultTruthful, Passed, processes
  <2>3. Places'
    BY <1>1 DEF PreflightInv, Places, processes, watching
  <2>4. QED BY <2>2, <2>3
<1>7. NodesKnown'
  BY <1>1 DEF PreflightInv, NodesKnown, watching
<1>8. ReportTruthful'
  BY <1>1, <1>7, ReportKept DEF watching, NodesKnown
<1>9. TopicBounded'
  BY <1>1 DEF PreflightInv, TopicBounded, watching
<1>10. AbsenceBounded'
  BY <1>1, <1>2, <1>3 DEF PreflightInv, AbsenceBounded
<1>11. StreakFollows'
  <2>1. /\ UNCHANGED <<time, checkDue, graph, observer, longest>>
        /\ \A i \in Nodes : absent'[i] <= absent[i] /\ absent[i] \in Nat
    BY <1>1, <1>2, <1>3 DEF watching
  <2>2. \A i \in Nodes : absent[i] <= graph.streak[i] + Owed
                         => absent'[i] <= graph.streak[i] + Owed
    BY <1>2, <1>3, <2>1 DEF Owed
  <2>3. QED BY <2>1, <2>2 DEF PreflightInv, StreakFollows, Owed
<1>12. QED BY <1>4, <1>5, <1>6, <1>7, <1>8, <1>9, <1>10, <1>11 DEF PreflightInv

LEMMA NodesLeftFacts ==
  ASSUME PreflightInv, NodesLeft
  PROVE  present' \subseteq present /\ odd' \in 0..MaxOdd
  BY OddFacts DEF NodesLeft

(* The observer's process ends.                                            *)
LEMMA ObserverDiesStep ==
  ASSUME PreflightInv, ObserverDies
  PROVE  PreflightInv'
<1>1. /\ observer = "observing" /\ Odd /\ ObserverEnds
      /\ UNCHANGED <<processes, time, gates, stack, report, history>>
  BY DEF ObserverDies
<1>2. /\ DataTypes' /\ NodesKnown' /\ TopicBounded' /\ AbsenceBounded' /\ StreakFollows'
      /\ observer' = "ended" /\ ~checkDue' /\ checkDue' \in BOOLEAN
  BY <1>1, WatchEnds DEF stack
<1>3. ProcessTypes' /\ BooleanTypes'
  <2>1. ProcessTypes'
    BY <1>1, <1>2, OddFacts DEF PreflightInv, ProcessTypes, processes
  <2>2. UNCHANGED <<clean, commanded>>
    BY <1>1 DEF processes, history
  <2>3. BooleanTypes'
    BY <1>2, <2>2, Zenon DEF PreflightInv, BooleanTypes
  <2>4. QED BY <2>1, <2>3
<1>4. Places' /\ ResultTruthful'
  BY <1>1, <1>2, PlacesKept, ResultKept DEF processes
<1>5. ReportTruthful'
  BY <1>1, ReportKept DEF stack, history, PreflightInv, NodesKnown
<1>6. QED BY <1>2, <1>3, <1>4, <1>5 DEF PreflightInv

(* The launch's leader ends alone: by itself, or killed as the last resort.*)
LEMMA LeaderEndsStep ==
  ASSUME PreflightInv, LaunchDies \/ SigtermTimeout
  PROVE  PreflightInv'
<1>1. /\ launch = "running" /\ launch' = "ended"
      /\ stage' = stage \/ stage' = "stopping"
      /\ UNCHANGED odd \/ Odd
      /\ UNCHANGED <<telemetry, clean, result, exit, time, gates, stack, watching, history>>
  BY DEF LaunchDies, SigtermTimeout, notRunner
<1>2. stage \notin {"idle", "starting"} /\ (stage' = "stopping" => result = "none")
  <2>1. stage \notin {"idle", "starting"}
    BY <1>1 DEF PreflightInv, Places
  <2>2. CASE LaunchDies
    BY <2>1, <2>2 DEF LaunchDies, PreflightInv, Places
  <2>3. CASE SigtermTimeout
    BY <2>1, <2>3 DEF SigtermTimeout, PreflightInv, Places
  <2>4. QED BY <2>1, <2>2, <2>3
<1>3. ProcessTypes' /\ BooleanTypes'
  <2>1. ProcessTypes'
    BY <1>1, OddFacts DEF PreflightInv, ProcessTypes, watching
  <2>2. UNCHANGED <<clean, commanded, checkDue>>
    BY <1>1 DEF history, watching
  <2>3. BooleanTypes'
    BY <2>2, Zenon DEF PreflightInv, BooleanTypes
  <2>4. QED BY <2>1, <2>3
<1>4. DataTypes' /\ NodesKnown' /\ TopicBounded' /\ AbsenceBounded' /\ StreakFollows'
  BY <1>1, WatchKept DEF watching
<1>5. Places'
  BY <1>1, <1>2 DEF PreflightInv, Places, watching
<1>6. ResultTruthful'
  BY <1>1, ResultKept
<1>7. ReportTruthful'
  BY <1>1, ReportKept DEF stack, watching, history, PreflightInv, NodesKnown
<1>8. QED BY <1>3, <1>4, <1>5, <1>6, <1>7 DEF PreflightInv

(* The launch ends after its observer.                                     *)
LEMMA LaunchEndsStep ==
  ASSUME PreflightInv, LaunchEnds
  PROVE  PreflightInv'
<1>1. /\ launch = "running" /\ observer = "ended" /\ launch' = "ended"
      /\ clean' = (stage = "waiting")
      /\ NodesLeft
      /\ UNCHANGED <<stage, telemetry, result, exit, time, gates, everUp, watching, history>>
  BY DEF LaunchEnds
<1>2. ProcessTypes' /\ BooleanTypes'
  <2>1. ProcessTypes'
    BY <1>1, NodesLeftFacts DEF PreflightInv, ProcessTypes, watching
  <2>2. UNCHANGED <<commanded, checkDue>> /\ clean' \in BOOLEAN
    BY <1>1 DEF history, watching
  <2>3. BooleanTypes'
    BY <2>2, Zenon DEF PreflightInv, BooleanTypes
  <2>4. QED BY <2>1, <2>3
<1>3. DataTypes' /\ TopicBounded' /\ StreakFollows'
  BY <1>1 DEF PreflightInv, DataTypes, TopicBounded, StreakFollows, Owed, watching, history
<1>4. NodesKnown' /\ AbsenceBounded'
  BY <1>1, NodesLeftFacts DEF PreflightInv, NodesKnown, AbsenceBounded, watching, history
<1>5. Places' /\ ResultTruthful'
  BY <1>1, PlacesKept, ResultKept DEF watching
<1>6. ReportTruthful'
  BY <1>1, ReportKept DEF watching, history, PreflightInv, NodesKnown
<1>7. QED BY <1>2, <1>3, <1>4, <1>5, <1>6 DEF PreflightInv

(* The launch obeys a signal, with its group.                              *)
LEMMA GroupEndsStep ==
  ASSUME PreflightInv, GroupEnds
  PROVE  PreflightInv'
<1>1. /\ stage \in {"sigint", "sigterm"} /\ launch' = "ended" /\ ObserverEnds
      /\ present' \subseteq present /\ odd' \in 0..MaxOdd
      /\ UNCHANGED <<stage, telemetry, clean, result, exit, time, gates, history, everUp,
                     report>>
  BY NodesLeftFacts DEF GroupEnds, notRunner
<1>2. /\ DataTypes' /\ NodesKnown' /\ TopicBounded' /\ AbsenceBounded' /\ StreakFollows'
      /\ observer' = "ended" /\ ~checkDue' /\ checkDue' \in BOOLEAN
  BY <1>1, WatchEnds
<1>3. ProcessTypes' /\ BooleanTypes'
  <2>1. ProcessTypes'
    BY <1>1, <1>2 DEF PreflightInv, ProcessTypes
  <2>2. UNCHANGED <<clean, commanded>>
    BY <1>1 DEF history
  <2>3. BooleanTypes'
    BY <1>2, <2>2, Zenon DEF PreflightInv, BooleanTypes
  <2>4. QED BY <2>1, <2>3
<1>4. Places' /\ ResultTruthful'
  BY <1>1, <1>2, ResultKept DEF PreflightInv, Places
<1>5. ReportTruthful'
  BY <1>1, ReportKept DEF history, PreflightInv, NodesKnown
<1>6. QED BY <1>2, <1>3, <1>4, <1>5 DEF PreflightInv

-----------------------------------------------------------------------------
(* The runner.                                                             *)

(* Steps of the runner that leave the observer alone and write no result.  *)
LEMMA RunnerKept ==
  ASSUME PreflightInv, stage # "over", UNCHANGED <<clean, result, notRunner, stack, watching>>,
         ProcessTypes', Places'
  PROVE  PreflightInv'
<1>1. BooleanTypes'
  <2>1. UNCHANGED <<clean, commanded, checkDue>>
    BY DEF notRunner, history, watching
  <2>2. QED BY <2>1, Zenon DEF PreflightInv, BooleanTypes
<1>2. DataTypes' /\ NodesKnown' /\ TopicBounded' /\ AbsenceBounded' /\ StreakFollows'
  BY WatchKept DEF notRunner, watching
<1>3. ReportTruthful'
  BY ReportKept DEF notRunner, history, watching, stack, PreflightInv, NodesKnown
<1>4. ResultTruthful'
  BY ResultKept
<1>5. QED BY <1>1, <1>2, <1>3, <1>4 DEF PreflightInv

LEMMA RunnerEndsEarly ==
  ASSUME PreflightInv, Refuse \/ StartLaunchFails \/ Interrupt \/ JournalHangs
  PROVE  PreflightInv'
<1>1. /\ stage # "over" /\ stage' = "over" /\ exit' \in {1, 2, 130}
      /\ Odd /\ telemetry' \in {telemetry, "ended"}
      /\ UNCHANGED <<launch, clean, result, notRunner, stack, watching>>
  BY DEF Refuse, StartLaunchFails, Interrupt, JournalHangs, Over
<1>2. ProcessTypes'
  BY <1>1, OddFacts DEF PreflightInv, ProcessTypes, watching
<1>3. Places'
  BY <1>1 DEF PreflightInv, Places, watching
<1>4. QED BY <1>1, <1>2, <1>3, RunnerKept

LEMMA RunnerGoesOn ==
  ASSUME PreflightInv,
         StartTelemetry \/ AwaitLaunch \/ WaitTimeout \/ SigintTimeout \/ StopTelemetry
  PROVE  PreflightInv'
<1>1. /\ stage # "over"
      /\ UNCHANGED <<launch, clean, result, exit, notRunner, stack, watching, odd>>
  BY DEF StartTelemetry, AwaitLaunch, WaitTimeout, SigintTimeout, StopTelemetry
<1>2. ProcessTypes' /\ Places'
  <2>1. CASE StartTelemetry
    BY <1>1, <2>1 DEF StartTelemetry, PreflightInv, ProcessTypes, Places, watching,
                      notRunner, history
  <2>2. CASE AwaitLaunch
    BY <1>1, <2>2 DEF AwaitLaunch, PreflightInv, ProcessTypes, Places, watching
  <2>3. CASE WaitTimeout
    BY <1>1, <2>3 DEF WaitTimeout, PreflightInv, ProcessTypes, Places, watching
  <2>4. CASE SigintTimeout
    BY <1>1, <2>4 DEF SigintTimeout, PreflightInv, ProcessTypes, Places, watching
  <2>5. CASE StopTelemetry
    BY <1>1, <2>5 DEF StopTelemetry, PreflightInv, ProcessTypes, Places, watching
  <2>6. QED BY <2>1, <2>2, <2>3, <2>4, <2>5
<1>3. QED BY <1>1, <1>2, RunnerKept

(* The observer starts with nothing seen and nothing owed.                 *)
LEMMA StartLaunchStep ==
  ASSUME PreflightInv, StartLaunch
  PROVE  PreflightInv'
<1>1. /\ stage = "starting" /\ stage' = "waiting" /\ launch' = "running"
      /\ observer' = "observing"
      /\ UNCHANGED <<telemetry, clean, result, exit, time, gates, history, stack, checkDue,
                     graph, topic, report, odd>>
  BY DEF StartLaunch, notRunner
<1>2. /\ report = "none" /\ time = 0 /\ ~checkDue /\ longest = 0 /\ graph = NoGraph
  BY <1>1 DEF PreflightInv, Places
<1>3. ProcessTypes' /\ BooleanTypes'
  <2>1. ProcessTypes'
    BY <1>1 DEF PreflightInv, ProcessTypes
  <2>2. UNCHANGED <<clean, commanded, checkDue>>
    BY <1>1 DEF history
  <2>3. BooleanTypes'
    BY <2>2, Zenon DEF PreflightInv, BooleanTypes
  <2>4. QED BY <2>1, <2>3
<1>4. DataTypes' /\ TopicBounded'
  BY <1>1 DEF PreflightInv, DataTypes, TopicBounded, history
<1>5. NodesKnown' /\ AbsenceBounded'
  BY <1>1 DEF PreflightInv, NodesKnown, AbsenceBounded, history, stack
<1>6. Places'
  BY <1>1, <1>2 DEF PreflightInv, Places
<1>7. StreakFollows'
  <2>1. \A n \in Nodes : graph.streak[n] = 0 /\ absent[n] = 0
    <3>1. \A n \in Nodes : absent[n] = 0
      BY <1>2, ConstantTypes DEF PreflightInv, AbsenceBounded
    <3>2. QED BY <1>2, <3>1 DEF NoGraph
  <2>2. UNCHANGED <<time, absent, longest, graph, checkDue>>
    BY <1>1 DEF history
  <2>3. QED BY <1>2, <2>1, <2>2, ConstantTypes DEF StreakFollows, Owed
<1>8. ReportTruthful' /\ ResultTruthful'
  BY <1>1, ReportKept, ResultKept DEF history, stack, PreflightInv, NodesKnown
<1>9. QED BY <1>3, <1>4, <1>5, <1>6, <1>7, <1>8 DEF PreflightInv

(* The result fails with the report, with anything left running and with a *)
(* launch that did not end cleanly.                                        *)
LEMMA WriteResultStep ==
  ASSUME PreflightInv, WriteResult
  PROVE  PreflightInv'
<1>1. /\ stage = "assessing" /\ stage' = "over"
      /\ UNCHANGED <<telemetry, launch, clean, notRunner, stack, watching, odd>>
  BY DEF WriteResult, Over
<1>2. \/ result' = result /\ exit' = 2
      \/ \E lines, kernel, trip :
           /\ result' = Overall({report, trip} \cup TeardownChecks
                                \cup ResourceChecks(Parsed(lines), kernel))
           /\ exit' = IF result' = "FAIL" THEN 1 ELSE 0
  BY DEF WriteResult, Over
<1>3. result' \in {"none", "PASS", "WARN", "FAIL"} /\ exit' \in {0, 1, 2, 130}
  BY <1>2, OverallFacts DEF PreflightInv, ProcessTypes
<1>4. ProcessTypes' /\ Places'
  BY <1>1, <1>3 DEF PreflightInv, ProcessTypes, Places, watching
<1>5. BooleanTypes'
  <2>1. UNCHANGED <<clean, commanded, checkDue>>
    BY <1>1 DEF notRunner, history, watching
  <2>2. QED BY <2>1, Zenon DEF PreflightInv, BooleanTypes
<1>6. DataTypes' /\ NodesKnown' /\ TopicBounded' /\ AbsenceBounded' /\ StreakFollows'
  BY <1>1, WatchKept DEF notRunner, watching
<1>7. ReportTruthful'
  BY <1>1, ReportKept DEF notRunner, history, watching, stack, PreflightInv, NodesKnown
<1>8. ResultTruthful'
  <2>1. SUFFICES ASSUME Passed' PROVE ResultTruthful'
    BY DEF ResultTruthful
  <2>2. result # result'
    BY <1>1, <2>1, NoResultYet DEF Passed
  <2>3. PICK lines, kernel, trip :
          /\ result' = Overall({report, trip} \cup TeardownChecks
                               \cup ResourceChecks(Parsed(lines), kernel))
          /\ exit' = IF result' = "FAIL" THEN 1 ELSE 0
    BY <1>2, <2>2
  <2>4. /\ report # "FAIL" /\ "FAIL" \notin TeardownChecks
        /\ report # "none"
    <3>1. report # "FAIL" /\ "FAIL" \notin TeardownChecks
      BY <2>1, <2>3, OverallFacts DEF Passed
    <3>2. report # "none"
      BY <2>2 DEF WriteResult, Over
    <3>3. QED BY <3>1, <3>2
  <2>5. report \in {"PASS", "WARN"}
    BY <2>4 DEF PreflightInv, ProcessTypes
  <2>6. present = {} /\ observer # "observing"
    BY <2>4 DEF TeardownChecks, Status
  <2>7. launch = "ended" /\ telemetry = "ended"
    BY <1>1 DEF PreflightInv, Places
  <2>8. exit' = 0
    BY <2>1, <2>3 DEF Passed
  <2>9. gates = <<FALSE, FALSE>> /\ everUp = Nodes /\ longest <= MissingLimit
    BY <2>5 DEF PreflightInv, ReportTruthful
  <2>10. ~commanded
    BY <2>9, GatesDiffer DEF PreflightInv, NodesKnown
  <2>11. QED
    BY <1>1, <2>5, <2>6, <2>7, <2>8, <2>9, <2>10
       DEF ResultTruthful, notRunner, history, watching, stack
<1>9. QED BY <1>4, <1>5, <1>6, <1>7, <1>8 DEF PreflightInv

-----------------------------------------------------------------------------
LEMMA StutterStep ==
  ASSUME PreflightInv, UNCHANGED vars
  PROVE  PreflightInv'
<1>1. UNCHANGED <<processes, time, gates, stack, watching, odd, history>>
  BY DEF vars
<1>2. ProcessTypes' /\ Places'
  BY <1>1 DEF PreflightInv, ProcessTypes, Places, processes, watching, history
<1>3. BooleanTypes'
  <2>1. UNCHANGED <<clean, commanded, checkDue>>
    BY <1>1 DEF processes, history, watching
  <2>2. QED BY <2>1, Zenon DEF PreflightInv, BooleanTypes
<1>4. DataTypes' /\ NodesKnown' /\ TopicBounded' /\ AbsenceBounded' /\ StreakFollows'
  BY <1>1, WatchKept DEF watching
<1>5. ReportTruthful'
  BY <1>1, ReportKept DEF history, watching, stack, PreflightInv, NodesKnown
<1>6. ResultTruthful'
  BY <1>1 DEF PreflightInv, ResultTruthful, Passed, processes, stack, watching, history
<1>7. QED BY <1>2, <1>3, <1>4, <1>5, <1>6 DEF PreflightInv

(* The inductive invariant of the preflight.                               *)
THEOREM PreflightInvariant == Spec => []PreflightInv
<1>1. Init => PreflightInv
  BY InitPreflightInv
<1>2. PreflightInv /\ [Next]_vars => PreflightInv'
  <2>1. SUFFICES ASSUME PreflightInv, [Next]_vars PROVE PreflightInv'
    OBVIOUS
  <2>2. CASE Observer
    BY <2>1, <2>2, ServeTimerStep, ReceiveMessageStep, FinalizeStep DEF Observer
  <2>3. CASE World
    BY <2>1, <2>3, SecondStep, AnswerGateStep, ObserverDiesStep, LaunchEndsStep,
       LeaderEndsStep, GroupEndsStep, NodeStep DEF World
  <2>4. CASE RunnerStep
    BY <2>1, <2>4, RunnerEndsEarly, RunnerGoesOn, StartLaunchStep, LeaderEndsStep,
       WriteResultStep DEF RunnerStep
  <2>5. CASE UNCHANGED vars
    BY <2>1, <2>5, StutterStep
  <2>6. QED BY <2>1, <2>2, <2>3, <2>4, <2>5 DEF Next
<1>3. QED BY <1>1, <1>2, PTL DEF Spec

(* Every variable of the preflight keeps its type; a streak and the counts *)
(* of messages are never longer than the run, and the gates are known only *)
(* from an answer.                                                         *)
THEOREM TypeCorrect == Spec => []TypeOK
<1>1. QED BY PreflightInvariant, TypesFollow, PTL

(* A result that is not a failure is true of the run                       *)
(* (preflight_observer_node.py:104, preflight_runner_node.py:99).          *)
THEOREM ResultIsTruthful == Spec => []ResultTruthful
<1>1. PreflightInv => ResultTruthful
  BY DEF PreflightInv
<1>2. QED BY <1>1, PreflightInvariant, PTL

(* No absence beyond the missing limit escapes an observer that reports:   *)
(* a node that was away for longer is among the lost ones                  *)
(* (preflight_observer_node.py:119).                                       *)
THEOREM AbsenceIsNoticed ==
  Spec => [](observer = "observing" /\ longest > MissingLimit => graph.lost # {})
<1>1. PreflightInv => (observer = "observing" /\ longest > MissingLimit => graph.lost # {})
  BY DEF PreflightInv, StreakFollows
<1>2. QED BY <1>1, PreflightInvariant, PTL
=============================================================================
