-------------------------- MODULE MappingRunProofs --------------------------
(***************************************************************************)
(* What holds of the mapping acceptance however the processes, slam_toolbox*)
(* and the user behave and however often the user interrupts.              *)
(***************************************************************************)
EXTENDS MappingRun, TLAPS

Working == InTry \cup InPartial
Closing == {"assess", "next", "summarize"}

(* Nothing of the variant was started or written.                          *)
Fresh(v) ==
  /\ \A role \in Roles : leader[v][role] = "absent"
  /\ nodes[v] = "absent" /\ signalled[v] = {}
  /\ partial[v] = NoDirectory /\ artifacts[v] = NoDirectory
  /\ result[v] = "none"

(* The variants follow each other: the external one is untouched until the *)
(* stationary one was mapped to the end.                                   *)
SequenceInv ==
  /\ variant = "stationary" => Fresh("external")
  /\ variant = "external" => Mapped("stationary")
  /\ pc \in {"prepare", "launching"} => Fresh(variant)

(* Where an exception may be in flight, and where the summary is written.  *)
ErrorInv ==
  /\ pc \in {"prepare"} \cup Working \cup Closing => error = "none"
  /\ summary # "none" => pc = "over"

(* What the two directories hold at each place, and which call may still   *)
(* write: an answer ends its call, so a new call finds no older one.       *)
FilesInv ==
  /\ reply # "none" => request = "none"
  /\ pc \in {"prepare"} \cup InTry => partial[variant] = NoDirectory
  /\ pc \in {"prepare"} \cup Working => artifacts[variant] = NoDirectory
  /\ pc = "awaitReload" =>
       partial[variant] = Complete /\ request \in {"deserialize", "none"}
  /\ pc = "promote" => partial[variant] = Complete /\ request = "none"
  /\ \A v \in Variants : artifacts[v] # NoDirectory =>
       artifacts[v] = Complete /\ partial[v] = NoDirectory
  /\ artifacts[variant] # NoDirectory => request = "none"
  /\ pc \in {"discard", "stop"} \cup Closing /\ error = "none" =>
       artifacts[variant] = Complete

(* The player is signalled in the teardown only, and never when it ended   *)
(* by itself with 0, which every step after the playback relies on.        *)
PlayerInv ==
  /\ pc \in {"prepare", "discard"} \cup Working => signalled[variant] = {}
  /\ pc = "stop" /\ escalation # "none" => target \in signalled[variant]
  /\ pc \in {"settle"} \cup InPartial => leader[variant]["player"] = "clean"
  /\ pc \in {"discard", "stop", "assess"} /\ error = "none" =>
       /\ leader[variant]["player"] = "clean"
       /\ "player" \notin signalled[variant]

(* stop_owned_process does not return before the leader ended, and every   *)
(* way out of a variant leads through it, unless it is interrupted.        *)
TeardownInv ==
  /\ pc = "stop" /\ target = "launch" => ~Running(variant, "player")
  /\ pc \in Closing \cup {"report"} \/ (pc = "over" /\ ~cut) =>
       \A v \in Variants, role \in Roles : ~Running(v, role)

(* A result is written after the teardown of its variant and stays true.   *)
ResultInv ==
  /\ \A v \in Variants : result[v] = "passed" => Mapped(v)
  /\ \A v \in Variants : result[v] # "none" => partial[v] = NoDirectory
  /\ pc \notin {"next", "summarize", "report", "over"} =>
       result[variant] = "none"
  /\ pc \in {"next", "summarize"} => result[variant] # "none"
  /\ pc = "summarize" => \/ variant = "external"
                         \/ result["stationary"] # "passed"
                         \/ conversion = "deferred"
  /\ SummaryTruthful

MappingInv ==
  /\ SequenceInv /\ ErrorInv /\ FilesInv
  /\ PlayerInv /\ TeardownInv /\ ResultInv

-----------------------------------------------------------------------------

(* The types.                                                              *)
LEMMA TypeStep ==
  ASSUME TypeOK, [Next]_vars
  PROVE TypeOK'
<1> USE DEF environment, stop, processes, slam, documents, history,
        InTry, InPartial, Working, Closing, Variants, Roles
<1>1. CASE Fail
  BY <1>1, InterruptAssumption DEF Fail, Raise, TypeOK
<1>2. CASE Prepare
  BY <1>2, InterruptAssumption DEF Prepare, Raise, TypeOK
<1>3. CASE Launch
  BY <1>3, InterruptAssumption DEF Launch, Popen, TypeOK
<1>4. CASE GraphReady
  BY <1>4, InterruptAssumption DEF GraphReady, TypeOK
<1>5. CASE ServicesReady
  BY <1>5, InterruptAssumption DEF ServicesReady, TypeOK
<1>6. CASE StartPlayer
  BY <1>6, InterruptAssumption DEF StartPlayer, Popen, TypeOK
<1>7. CASE PlayerReady
  BY <1>7, InterruptAssumption DEF PlayerReady, TypeOK
<1>8. CASE Resumed
  BY <1>8, InterruptAssumption DEF Resumed, TypeOK
<1>9. CASE Played
  BY <1>9, InterruptAssumption DEF Played, Raise, TypeOK
<1>10. CASE Save
  BY <1>10, InterruptAssumption DEF Save, Request, TypeOK, Content, Files,
    SavedFiles, NoDirectory
<1>11. CASE Saved
  BY <1>11, InterruptAssumption DEF Saved, Request, TypeOK
<1>12. CASE Serialized
  BY <1>12, InterruptAssumption DEF Serialized, TypeOK
<1>13. CASE Check
  BY <1>13, InterruptAssumption DEF Check, Request, Normalized, TypeOK,
    Content, Files, SavedFiles, NoDirectory, Complete
<1>14. CASE Reloaded
  BY <1>14, InterruptAssumption DEF Reloaded, TypeOK
<1>15. CASE Promote
  BY <1>15, InterruptAssumption DEF Promote, TypeOK, Content, Files,
    SavedFiles, NoDirectory
<1>16. CASE Discard
  <2> USE DEF Content, Files, SavedFiles, NoDirectory
  <2>1. partial' \in [Variants -> Content]
    <3>1. CASE partial' = [partial EXCEPT ![variant] = NoDirectory]
      BY <1>16, <3>1 DEF TypeOK
    <3>2. ASSUME NEW files \in SUBSET (SavedFiles \cup {"poseGraph"}),
                 partial' = [partial EXCEPT ![variant] = files]
          PROVE partial' \in [Variants -> Content]
      BY <1>16, <3>2 DEF TypeOK
    <3> QED BY <1>16, <3>1, <3>2 DEF Discard
  <2> QED BY <1>16, <2>1 DEF Discard, TypeOK
<1>17. CASE Stopped
  BY <1>17, InterruptAssumption DEF Stopped, StopNext, AfterTeardown, Running,
    TypeOK
<1>18. CASE SendInt
  BY <1>18, InterruptAssumption DEF SendInt, Signal, Running, TypeOK
<1>19. CASE SendTerm
  BY <1>19, InterruptAssumption DEF SendTerm, Signal, TypeOK
<1>20. CASE SendKill
  BY <1>20, InterruptAssumption DEF SendKill, Signal, TypeOK
<1>21. CASE Assess
  BY <1>21, InterruptAssumption DEF Assess, Raise, Verdict, Residual, TypeOK
<1>22. CASE AfterVariant
  BY <1>22, InterruptAssumption DEF AfterVariant, Raise, TypeOK
<1>23. CASE Summarize
  BY <1>23, InterruptAssumption DEF Summarize, Raise, AllPassed, TypeOK
<1>24. CASE Report
  BY <1>24, InterruptAssumption DEF Report, TypeOK
<1>25. CASE Interrupt
  <2>1. partial' \in [Variants -> Content]
    <3>1. ASSUME NEW rest \in SUBSET partial[variant],
                 partial[variant] # NoDirectory,
                 partial' = [partial EXCEPT ![variant] = rest]
          PROVE partial' \in [Variants -> Content]
      BY <3>1 DEF TypeOK, Content
    <3> QED BY <1>25, <3>1 DEF Interrupt, TypeOK
  <2>2. interrupts' \in 0..MaxInterrupts
    BY <1>25, InterruptAssumption DEF Interrupt, TypeOK
  <2>4. error' = "interrupt"
    BY <1>25 DEF Interrupt, Raise
  <2>5. cut' \in BOOLEAN
    BY <1>25, Zenon DEF Interrupt, TypeOK
  <2>3. /\ pc' \in Working \cup {"prepare", "discard", "stop", "assess", "next",
                               "summarize", "report", "over"}
        /\ pc' \notin {"stop", "over"} =>
             target = "player" /\ escalation = "none"
    BY <1>25 DEF Interrupt, Raise, TypeOK
  <2> QED BY <1>25, <2>1, <2>2, <2>3, <2>4, <2>5 DEF Interrupt, TypeOK
<1>26. CASE SlamServes
  BY <1>26, InterruptAssumption DEF SlamServes, WrittenBy, TypeOK, Content,
    Files, SavedFiles, NoDirectory
<1>27. ASSUME NEW v \in Variants, NodesStart(v) PROVE TypeOK'
  BY <1>27, InterruptAssumption DEF NodesStart, Running, TypeOK
<1>28. ASSUME NEW v \in Variants, NodesEnd(v) PROVE TypeOK'
  BY <1>28, InterruptAssumption DEF NodesEnd, Running, TypeOK
<1>29. ASSUME NEW v \in Variants, NEW role \in Roles, LeaderEnds(v, role)
  PROVE TypeOK'
  BY <1>29, InterruptAssumption DEF LeaderEnds, Running, TypeOK
<1>30. CASE UNCHANGED vars
  BY <1>30, InterruptAssumption DEF vars, TypeOK
<1> QED
  BY <1>1, <1>2, <1>3, <1>4, <1>5, <1>6, <1>7, <1>8, <1>9, <1>10, <1>11,
    <1>12, <1>13, <1>14, <1>15, <1>16, <1>17, <1>18, <1>19, <1>20, <1>21,
    <1>22, <1>23, <1>24, <1>25, <1>26, <1>27, <1>28, <1>29, <1>30 DEF Next,
    Runner, Processes

(* SequenceInv is kept.                                                    *)
LEMMA SequenceStep ==
  ASSUME TypeOK, MappingInv, [Next]_vars
  PROVE SequenceInv'
<1> USE DEF environment, stop, processes, slam, documents, history,
        InTry, InPartial, Working, Closing, Variants, Roles
<1>1. CASE Fail
  BY <1>1 DEF Fail, Raise, SequenceInv, Fresh, Mapped, TypeOK, MappingInv
<1>2. CASE Prepare
  BY <1>2 DEF Prepare, Raise, SequenceInv, Fresh, Mapped, TypeOK, MappingInv
<1>3. CASE Launch
  BY <1>3 DEF Launch, Popen, SequenceInv, Fresh, Mapped, TypeOK, MappingInv
<1>4. CASE GraphReady
  BY <1>4 DEF GraphReady, SequenceInv, Fresh, Mapped, TypeOK, MappingInv
<1>5. CASE ServicesReady
  BY <1>5 DEF ServicesReady, SequenceInv, Fresh, Mapped, TypeOK, MappingInv
<1>6. CASE StartPlayer
  BY <1>6 DEF StartPlayer, Popen, SequenceInv, Fresh, Mapped, TypeOK,
    MappingInv
<1>7. CASE PlayerReady
  BY <1>7 DEF PlayerReady, SequenceInv, Fresh, Mapped, TypeOK, MappingInv
<1>8. CASE Resumed
  BY <1>8 DEF Resumed, SequenceInv, Fresh, Mapped, TypeOK, MappingInv
<1>9. CASE Played
  BY <1>9 DEF Played, Raise, SequenceInv, Fresh, Mapped, TypeOK, MappingInv
<1>10. CASE Save
  BY <1>10 DEF Save, Request, SequenceInv, Fresh, Mapped, TypeOK, MappingInv
<1>11. CASE Saved
  BY <1>11 DEF Saved, Request, SequenceInv, Fresh, Mapped, TypeOK, MappingInv
<1>12. CASE Serialized
  BY <1>12 DEF Serialized, SequenceInv, Fresh, Mapped, TypeOK, MappingInv
<1>13. CASE Check
  BY <1>13 DEF Check, Request, Normalized, SequenceInv, Fresh, Mapped, TypeOK,
    MappingInv
<1>14. CASE Reloaded
  BY <1>14 DEF Reloaded, SequenceInv, Fresh, Mapped, TypeOK, MappingInv
<1>15. CASE Promote
  BY <1>15 DEF Promote, SequenceInv, Fresh, Mapped, TypeOK, MappingInv
<1>16. CASE Discard
  BY <1>16 DEF Discard, SequenceInv, Fresh, Mapped, TypeOK, MappingInv
<1>17. CASE Stopped
  BY <1>17 DEF Stopped, StopNext, AfterTeardown, Running, SequenceInv, Fresh,
    Mapped, TypeOK, MappingInv
<1>18. CASE SendInt
  BY <1>18 DEF SendInt, Signal, Running, SequenceInv, Fresh, Mapped, TypeOK,
    MappingInv
<1>19. CASE SendTerm
  BY <1>19 DEF SendTerm, Signal, SequenceInv, Fresh, Mapped, TypeOK,
    MappingInv
<1>20. CASE SendKill
  BY <1>20 DEF SendKill, Signal, SequenceInv, Fresh, Mapped, TypeOK,
    MappingInv
<1>21. CASE Assess
  BY <1>21 DEF Assess, Raise, Verdict, Residual, SequenceInv, Fresh, Mapped,
    TypeOK, MappingInv
<1>22. CASE AfterVariant
  BY <1>22 DEF AfterVariant, Raise, SequenceInv, Fresh, Mapped, TypeOK,
    MappingInv, ResultInv
<1>23. CASE Summarize
  BY <1>23 DEF Summarize, Raise, AllPassed, SequenceInv, Fresh, Mapped,
    TypeOK, MappingInv
<1>24. CASE Report
  BY <1>24 DEF Report, SequenceInv, Fresh, Mapped, TypeOK, MappingInv
<1>25. CASE Interrupt
  BY <1>25 DEF Interrupt, Raise, SequenceInv, Fresh, Mapped, TypeOK,
    MappingInv
<1>26. CASE SlamServes
  BY <1>26 DEF SlamServes, WrittenBy, SequenceInv, Fresh, Mapped, TypeOK,
    MappingInv
<1>27. ASSUME NEW v \in Variants, NodesStart(v) PROVE SequenceInv'
  BY <1>27 DEF NodesStart, Running, SequenceInv, Fresh, Mapped, TypeOK,
    MappingInv
<1>28. ASSUME NEW v \in Variants, NodesEnd(v) PROVE SequenceInv'
  BY <1>28 DEF NodesEnd, Running, SequenceInv, Fresh, Mapped, TypeOK,
    MappingInv
<1>29. ASSUME NEW v \in Variants, NEW role \in Roles, LeaderEnds(v, role)
  PROVE SequenceInv'
  BY <1>29 DEF LeaderEnds, Running, SequenceInv, Fresh, Mapped, TypeOK,
    MappingInv
<1>30. CASE UNCHANGED vars
  BY <1>30 DEF vars, SequenceInv, Fresh, Mapped, TypeOK, MappingInv
<1> QED
  BY <1>1, <1>2, <1>3, <1>4, <1>5, <1>6, <1>7, <1>8, <1>9, <1>10, <1>11,
    <1>12, <1>13, <1>14, <1>15, <1>16, <1>17, <1>18, <1>19, <1>20, <1>21,
    <1>22, <1>23, <1>24, <1>25, <1>26, <1>27, <1>28, <1>29, <1>30 DEF Next,
    Runner, Processes

(* ErrorInv is kept.                                                       *)
LEMMA ErrorStep ==
  ASSUME TypeOK, MappingInv, [Next]_vars
  PROVE ErrorInv'
<1> USE DEF environment, stop, processes, slam, documents, history,
        InTry, InPartial, Working, Closing, Variants, Roles
<1>1. CASE Fail
  BY <1>1 DEF Fail, Raise, ErrorInv, TypeOK, MappingInv
<1>2. CASE Prepare
  BY <1>2 DEF Prepare, Raise, ErrorInv, TypeOK, MappingInv
<1>3. CASE Launch
  BY <1>3 DEF Launch, Popen, ErrorInv, TypeOK, MappingInv
<1>4. CASE GraphReady
  BY <1>4 DEF GraphReady, ErrorInv, TypeOK, MappingInv
<1>5. CASE ServicesReady
  BY <1>5 DEF ServicesReady, ErrorInv, TypeOK, MappingInv
<1>6. CASE StartPlayer
  BY <1>6 DEF StartPlayer, Popen, ErrorInv, TypeOK, MappingInv
<1>7. CASE PlayerReady
  BY <1>7 DEF PlayerReady, ErrorInv, TypeOK, MappingInv
<1>8. CASE Resumed
  BY <1>8 DEF Resumed, ErrorInv, TypeOK, MappingInv
<1>9. CASE Played
  BY <1>9 DEF Played, Raise, ErrorInv, TypeOK, MappingInv
<1>10. CASE Save
  BY <1>10 DEF Save, Request, ErrorInv, TypeOK, MappingInv
<1>11. CASE Saved
  BY <1>11 DEF Saved, Request, ErrorInv, TypeOK, MappingInv
<1>12. CASE Serialized
  BY <1>12 DEF Serialized, ErrorInv, TypeOK, MappingInv
<1>13. CASE Check
  BY <1>13 DEF Check, Request, Normalized, ErrorInv, TypeOK, MappingInv
<1>14. CASE Reloaded
  BY <1>14 DEF Reloaded, ErrorInv, TypeOK, MappingInv
<1>15. CASE Promote
  BY <1>15 DEF Promote, ErrorInv, TypeOK, MappingInv
<1>16. CASE Discard
  BY <1>16 DEF Discard, ErrorInv, TypeOK, MappingInv
<1>17. CASE Stopped
  BY <1>17 DEF Stopped, StopNext, AfterTeardown, Running, ErrorInv, TypeOK,
    MappingInv
<1>18. CASE SendInt
  BY <1>18 DEF SendInt, Signal, Running, ErrorInv, TypeOK, MappingInv
<1>19. CASE SendTerm
  BY <1>19 DEF SendTerm, Signal, ErrorInv, TypeOK, MappingInv
<1>20. CASE SendKill
  BY <1>20 DEF SendKill, Signal, ErrorInv, TypeOK, MappingInv
<1>21. CASE Assess
  BY <1>21 DEF Assess, Raise, Verdict, Residual, ErrorInv, TypeOK, MappingInv
<1>22. CASE AfterVariant
  BY <1>22 DEF AfterVariant, Raise, ErrorInv, TypeOK, MappingInv
<1>23. CASE Summarize
  BY <1>23 DEF Summarize, Raise, AllPassed, ErrorInv, TypeOK, MappingInv
<1>24. CASE Report
  BY <1>24 DEF Report, ErrorInv, TypeOK, MappingInv
<1>25. CASE Interrupt
  BY <1>25 DEF Interrupt, Raise, ErrorInv, TypeOK, MappingInv
<1>26. CASE SlamServes
  BY <1>26 DEF SlamServes, WrittenBy, ErrorInv, TypeOK, MappingInv
<1>27. ASSUME NEW v \in Variants, NodesStart(v) PROVE ErrorInv'
  BY <1>27 DEF NodesStart, Running, ErrorInv, TypeOK, MappingInv
<1>28. ASSUME NEW v \in Variants, NodesEnd(v) PROVE ErrorInv'
  BY <1>28 DEF NodesEnd, Running, ErrorInv, TypeOK, MappingInv
<1>29. ASSUME NEW v \in Variants, NEW role \in Roles, LeaderEnds(v, role)
  PROVE ErrorInv'
  BY <1>29 DEF LeaderEnds, Running, ErrorInv, TypeOK, MappingInv
<1>30. CASE UNCHANGED vars
  BY <1>30 DEF vars, ErrorInv, TypeOK, MappingInv
<1> QED
  BY <1>1, <1>2, <1>3, <1>4, <1>5, <1>6, <1>7, <1>8, <1>9, <1>10, <1>11,
    <1>12, <1>13, <1>14, <1>15, <1>16, <1>17, <1>18, <1>19, <1>20, <1>21,
    <1>22, <1>23, <1>24, <1>25, <1>26, <1>27, <1>28, <1>29, <1>30 DEF Next,
    Runner, Processes

(* FilesInv is kept.                                                       *)
LEMMA FilesStep ==
  ASSUME TypeOK, MappingInv, [Next]_vars
  PROVE FilesInv'
<1> USE DEF environment, stop, processes, slam, documents, history,
        InTry, InPartial, Working, Closing, Variants, Roles
<1>1. CASE Fail
  BY <1>1 DEF Fail, Raise, FilesInv, TypeOK, MappingInv
<1>2. CASE Prepare
  BY <1>2 DEF Prepare, Raise, FilesInv, TypeOK, MappingInv
<1>3. CASE Launch
  BY <1>3 DEF Launch, Popen, FilesInv, TypeOK, MappingInv
<1>4. CASE GraphReady
  BY <1>4 DEF GraphReady, FilesInv, TypeOK, MappingInv
<1>5. CASE ServicesReady
  BY <1>5 DEF ServicesReady, FilesInv, TypeOK, MappingInv
<1>6. CASE StartPlayer
  BY <1>6 DEF StartPlayer, Popen, FilesInv, TypeOK, MappingInv
<1>7. CASE PlayerReady
  BY <1>7 DEF PlayerReady, FilesInv, TypeOK, MappingInv
<1>8. CASE Resumed
  BY <1>8 DEF Resumed, FilesInv, TypeOK, MappingInv
<1>9. CASE Played
  BY <1>9 DEF Played, Raise, FilesInv, TypeOK, MappingInv
<1>10. CASE Save
  BY <1>10 DEF Save, Request, FilesInv, TypeOK, MappingInv
<1>11. CASE Saved
  BY <1>11 DEF Saved, Request, FilesInv, TypeOK, MappingInv
<1>12. CASE Serialized
  BY <1>12 DEF Serialized, FilesInv, TypeOK, MappingInv
<1>13. CASE Check
  <2>1. Normalized(partial[variant]) = Complete
    BY <1>13 DEF Check, Normalized, Complete, NoDirectory, Content, Files,
      SavedFiles, FilesInv, TypeOK, MappingInv
  <2>2. partial' = [partial EXCEPT ![variant] = Complete]
    BY <1>13, <2>1 DEF Check
  <2> QED BY <1>13, <2>2 DEF Check, Request, FilesInv, TypeOK, MappingInv
<1>14. CASE Reloaded
  BY <1>14 DEF Reloaded, FilesInv, TypeOK, MappingInv
<1>15. CASE Promote
  BY <1>15 DEF Promote, FilesInv, TypeOK, MappingInv
<1>16. CASE Discard
  BY <1>16 DEF Discard, FilesInv, TypeOK, MappingInv
<1>17. CASE Stopped
  BY <1>17 DEF Stopped, StopNext, AfterTeardown, Running, FilesInv, TypeOK,
    MappingInv
<1>18. CASE SendInt
  BY <1>18 DEF SendInt, Signal, Running, FilesInv, TypeOK, MappingInv
<1>19. CASE SendTerm
  BY <1>19 DEF SendTerm, Signal, FilesInv, TypeOK, MappingInv
<1>20. CASE SendKill
  BY <1>20 DEF SendKill, Signal, FilesInv, TypeOK, MappingInv
<1>21. CASE Assess
  BY <1>21 DEF Assess, Raise, Verdict, Residual, FilesInv, TypeOK, MappingInv
<1>22. CASE AfterVariant
  BY <1>22 DEF AfterVariant, Raise, FilesInv, TypeOK, MappingInv, SequenceInv,
    Fresh
<1>23. CASE Summarize
  BY <1>23 DEF Summarize, Raise, AllPassed, FilesInv, TypeOK, MappingInv
<1>24. CASE Report
  BY <1>24 DEF Report, FilesInv, TypeOK, MappingInv
<1>25. CASE Interrupt
  BY <1>25 DEF Interrupt, Raise, FilesInv, TypeOK, MappingInv
<1>26. CASE SlamServes
  BY <1>26 DEF SlamServes, WrittenBy, FilesInv, TypeOK, MappingInv
<1>27. ASSUME NEW v \in Variants, NodesStart(v) PROVE FilesInv'
  BY <1>27 DEF NodesStart, Running, FilesInv, TypeOK, MappingInv
<1>28. ASSUME NEW v \in Variants, NodesEnd(v) PROVE FilesInv'
  BY <1>28 DEF NodesEnd, Running, FilesInv, TypeOK, MappingInv
<1>29. ASSUME NEW v \in Variants, NEW role \in Roles, LeaderEnds(v, role)
  PROVE FilesInv'
  BY <1>29 DEF LeaderEnds, Running, FilesInv, TypeOK, MappingInv
<1>30. CASE UNCHANGED vars
  BY <1>30 DEF vars, FilesInv, TypeOK, MappingInv
<1> QED
  BY <1>1, <1>2, <1>3, <1>4, <1>5, <1>6, <1>7, <1>8, <1>9, <1>10, <1>11,
    <1>12, <1>13, <1>14, <1>15, <1>16, <1>17, <1>18, <1>19, <1>20, <1>21,
    <1>22, <1>23, <1>24, <1>25, <1>26, <1>27, <1>28, <1>29, <1>30 DEF Next,
    Runner, Processes

(* PlayerInv is kept.                                                      *)
LEMMA PlayerStep ==
  ASSUME TypeOK, MappingInv, [Next]_vars
  PROVE PlayerInv'
<1> USE DEF environment, stop, processes, slam, documents, history,
        InTry, InPartial, Working, Closing, Variants, Roles
<1>1. CASE Fail
  BY <1>1 DEF Fail, Raise, PlayerInv, TypeOK, MappingInv
<1>2. CASE Prepare
  BY <1>2 DEF Prepare, Raise, PlayerInv, TypeOK, MappingInv
<1>3. CASE Launch
  BY <1>3 DEF Launch, Popen, PlayerInv, TypeOK, MappingInv
<1>4. CASE GraphReady
  BY <1>4 DEF GraphReady, PlayerInv, TypeOK, MappingInv
<1>5. CASE ServicesReady
  BY <1>5 DEF ServicesReady, PlayerInv, TypeOK, MappingInv
<1>6. CASE StartPlayer
  BY <1>6 DEF StartPlayer, Popen, PlayerInv, TypeOK, MappingInv
<1>7. CASE PlayerReady
  BY <1>7 DEF PlayerReady, PlayerInv, TypeOK, MappingInv
<1>8. CASE Resumed
  BY <1>8 DEF Resumed, PlayerInv, TypeOK, MappingInv
<1>9. CASE Played
  BY <1>9 DEF Played, Raise, PlayerInv, TypeOK, MappingInv
<1>10. CASE Save
  BY <1>10 DEF Save, Request, PlayerInv, TypeOK, MappingInv
<1>11. CASE Saved
  BY <1>11 DEF Saved, Request, PlayerInv, TypeOK, MappingInv
<1>12. CASE Serialized
  BY <1>12 DEF Serialized, PlayerInv, TypeOK, MappingInv
<1>13. CASE Check
  BY <1>13 DEF Check, Request, Normalized, PlayerInv, TypeOK, MappingInv
<1>14. CASE Reloaded
  BY <1>14 DEF Reloaded, PlayerInv, TypeOK, MappingInv
<1>15. CASE Promote
  BY <1>15 DEF Promote, PlayerInv, TypeOK, MappingInv
<1>16. CASE Discard
  BY <1>16 DEF Discard, PlayerInv, TypeOK, MappingInv
<1>17. CASE Stopped
  BY <1>17 DEF Stopped, StopNext, AfterTeardown, Running, PlayerInv, TypeOK,
    MappingInv
<1>18. CASE SendInt
  BY <1>18 DEF SendInt, Signal, Running, PlayerInv, TypeOK, MappingInv
<1>19. CASE SendTerm
  BY <1>19 DEF SendTerm, Signal, PlayerInv, TypeOK, MappingInv
<1>20. CASE SendKill
  BY <1>20 DEF SendKill, Signal, PlayerInv, TypeOK, MappingInv
<1>21. CASE Assess
  BY <1>21 DEF Assess, Raise, Verdict, Residual, PlayerInv, TypeOK, MappingInv
<1>22. CASE AfterVariant
  BY <1>22 DEF AfterVariant, Raise, PlayerInv, TypeOK, MappingInv,
    SequenceInv, Fresh
<1>23. CASE Summarize
  BY <1>23 DEF Summarize, Raise, AllPassed, PlayerInv, TypeOK, MappingInv
<1>24. CASE Report
  BY <1>24 DEF Report, PlayerInv, TypeOK, MappingInv
<1>25. CASE Interrupt
  BY <1>25 DEF Interrupt, Raise, PlayerInv, TypeOK, MappingInv
<1>26. CASE SlamServes
  BY <1>26 DEF SlamServes, WrittenBy, PlayerInv, TypeOK, MappingInv
<1>27. ASSUME NEW v \in Variants, NodesStart(v) PROVE PlayerInv'
  BY <1>27 DEF NodesStart, Running, PlayerInv, TypeOK, MappingInv
<1>28. ASSUME NEW v \in Variants, NodesEnd(v) PROVE PlayerInv'
  BY <1>28 DEF NodesEnd, Running, PlayerInv, TypeOK, MappingInv
<1>29. ASSUME NEW v \in Variants, NEW role \in Roles, LeaderEnds(v, role)
  PROVE PlayerInv'
  BY <1>29 DEF LeaderEnds, Running, PlayerInv, TypeOK, MappingInv
<1>30. CASE UNCHANGED vars
  BY <1>30 DEF vars, PlayerInv, TypeOK, MappingInv
<1> QED
  BY <1>1, <1>2, <1>3, <1>4, <1>5, <1>6, <1>7, <1>8, <1>9, <1>10, <1>11,
    <1>12, <1>13, <1>14, <1>15, <1>16, <1>17, <1>18, <1>19, <1>20, <1>21,
    <1>22, <1>23, <1>24, <1>25, <1>26, <1>27, <1>28, <1>29, <1>30 DEF Next,
    Runner, Processes

(* TeardownInv is kept.                                                    *)
LEMMA TeardownStep ==
  ASSUME TypeOK, MappingInv, [Next]_vars
  PROVE TeardownInv'
<1> USE DEF environment, stop, processes, slam, documents, history,
        InTry, InPartial, Working, Closing, Variants, Roles
<1>1. CASE Fail
  BY <1>1 DEF Fail, Raise, TeardownInv, Running, TypeOK, MappingInv
<1>2. CASE Prepare
  BY <1>2 DEF Prepare, Raise, TeardownInv, Running, TypeOK, MappingInv,
    SequenceInv, Fresh, Mapped
<1>3. CASE Launch
  BY <1>3 DEF Launch, Popen, TeardownInv, Running, TypeOK, MappingInv
<1>4. CASE GraphReady
  BY <1>4 DEF GraphReady, TeardownInv, Running, TypeOK, MappingInv
<1>5. CASE ServicesReady
  BY <1>5 DEF ServicesReady, TeardownInv, Running, TypeOK, MappingInv
<1>6. CASE StartPlayer
  BY <1>6 DEF StartPlayer, Popen, TeardownInv, Running, TypeOK, MappingInv
<1>7. CASE PlayerReady
  BY <1>7 DEF PlayerReady, TeardownInv, Running, TypeOK, MappingInv
<1>8. CASE Resumed
  BY <1>8 DEF Resumed, TeardownInv, Running, TypeOK, MappingInv
<1>9. CASE Played
  BY <1>9 DEF Played, Raise, TeardownInv, Running, TypeOK, MappingInv
<1>10. CASE Save
  BY <1>10 DEF Save, Request, TeardownInv, Running, TypeOK, MappingInv
<1>11. CASE Saved
  BY <1>11 DEF Saved, Request, TeardownInv, Running, TypeOK, MappingInv
<1>12. CASE Serialized
  BY <1>12 DEF Serialized, TeardownInv, Running, TypeOK, MappingInv
<1>13. CASE Check
  BY <1>13 DEF Check, Request, Normalized, TeardownInv, Running, TypeOK,
    MappingInv
<1>14. CASE Reloaded
  BY <1>14 DEF Reloaded, TeardownInv, Running, TypeOK, MappingInv
<1>15. CASE Promote
  BY <1>15 DEF Promote, TeardownInv, Running, TypeOK, MappingInv
<1>16. CASE Discard
  BY <1>16 DEF Discard, TeardownInv, Running, TypeOK, MappingInv
<1>17. CASE Stopped
  BY <1>17 DEF Stopped, StopNext, AfterTeardown, Running, TeardownInv,
    Running, TypeOK, MappingInv, SequenceInv, Fresh, Mapped
<1>18. CASE SendInt
  BY <1>18 DEF SendInt, Signal, Running, TeardownInv, Running, TypeOK,
    MappingInv
<1>19. CASE SendTerm
  BY <1>19 DEF SendTerm, Signal, TeardownInv, Running, TypeOK, MappingInv
<1>20. CASE SendKill
  BY <1>20 DEF SendKill, Signal, TeardownInv, Running, TypeOK, MappingInv
<1>21. CASE Assess
  BY <1>21 DEF Assess, Raise, Verdict, Residual, TeardownInv, Running, TypeOK,
    MappingInv
<1>22. CASE AfterVariant
  BY <1>22 DEF AfterVariant, Raise, TeardownInv, Running, TypeOK, MappingInv
<1>23. CASE Summarize
  BY <1>23 DEF Summarize, Raise, AllPassed, TeardownInv, Running, TypeOK,
    MappingInv
<1>24. CASE Report
  BY <1>24 DEF Report, TeardownInv, Running, TypeOK, MappingInv
<1>25. CASE Interrupt
  BY <1>25 DEF Interrupt, Raise, TeardownInv, Running, TypeOK, MappingInv,
    SequenceInv, Fresh, Mapped
<1>26. CASE SlamServes
  BY <1>26 DEF SlamServes, WrittenBy, TeardownInv, Running, TypeOK, MappingInv
<1>27. ASSUME NEW v \in Variants, NodesStart(v) PROVE TeardownInv'
  BY <1>27 DEF NodesStart, Running, TeardownInv, Running, TypeOK, MappingInv
<1>28. ASSUME NEW v \in Variants, NodesEnd(v) PROVE TeardownInv'
  BY <1>28 DEF NodesEnd, Running, TeardownInv, Running, TypeOK, MappingInv
<1>29. ASSUME NEW v \in Variants, NEW role \in Roles, LeaderEnds(v, role)
  PROVE TeardownInv'
  BY <1>29 DEF LeaderEnds, Running, TeardownInv, Running, TypeOK, MappingInv
<1>30. CASE UNCHANGED vars
  BY <1>30 DEF vars, TeardownInv, Running, TypeOK, MappingInv
<1> QED
  BY <1>1, <1>2, <1>3, <1>4, <1>5, <1>6, <1>7, <1>8, <1>9, <1>10, <1>11,
    <1>12, <1>13, <1>14, <1>15, <1>16, <1>17, <1>18, <1>19, <1>20, <1>21,
    <1>22, <1>23, <1>24, <1>25, <1>26, <1>27, <1>28, <1>29, <1>30 DEF Next,
    Runner, Processes

(* ResultInv is kept.                                                      *)
LEMMA ResultStep ==
  ASSUME TypeOK, MappingInv, [Next]_vars
  PROVE ResultInv'
<1> USE DEF environment, stop, processes, slam, documents, history,
        InTry, InPartial, Working, Closing, Variants, Roles
<1>1. CASE Fail
  BY <1>1 DEF Fail, Raise, ResultInv, SummaryTruthful, Mapped, TypeOK,
    MappingInv
<1>2. CASE Prepare
  BY <1>2 DEF Prepare, Raise, ResultInv, SummaryTruthful, Mapped, TypeOK,
    MappingInv
<1>3. CASE Launch
  BY <1>3 DEF Launch, Popen, ResultInv, SummaryTruthful, Mapped, TypeOK,
    MappingInv, ErrorInv
<1>4. CASE GraphReady
  BY <1>4 DEF GraphReady, ResultInv, SummaryTruthful, Mapped, TypeOK,
    MappingInv
<1>5. CASE ServicesReady
  BY <1>5 DEF ServicesReady, ResultInv, SummaryTruthful, Mapped, TypeOK,
    MappingInv
<1>6. CASE StartPlayer
  BY <1>6 DEF StartPlayer, Popen, ResultInv, SummaryTruthful, Mapped, TypeOK,
    MappingInv
<1>7. CASE PlayerReady
  BY <1>7 DEF PlayerReady, ResultInv, SummaryTruthful, Mapped, TypeOK,
    MappingInv
<1>8. CASE Resumed
  BY <1>8 DEF Resumed, ResultInv, SummaryTruthful, Mapped, TypeOK, MappingInv
<1>9. CASE Played
  BY <1>9 DEF Played, Raise, ResultInv, SummaryTruthful, Mapped, TypeOK,
    MappingInv
<1>10. CASE Save
  BY <1>10 DEF Save, Request, ResultInv, SummaryTruthful, Mapped, TypeOK,
    MappingInv
<1>11. CASE Saved
  BY <1>11 DEF Saved, Request, ResultInv, SummaryTruthful, Mapped, TypeOK,
    MappingInv
<1>12. CASE Serialized
  BY <1>12 DEF Serialized, ResultInv, SummaryTruthful, Mapped, TypeOK,
    MappingInv
<1>13. CASE Check
  BY <1>13 DEF Check, Request, Normalized, ResultInv, SummaryTruthful, Mapped,
    TypeOK, MappingInv
<1>14. CASE Reloaded
  BY <1>14 DEF Reloaded, ResultInv, SummaryTruthful, Mapped, TypeOK,
    MappingInv
<1>15. CASE Promote
  BY <1>15 DEF Promote, ResultInv, SummaryTruthful, Mapped, TypeOK, MappingInv
<1>16. CASE Discard
  BY <1>16 DEF Discard, ResultInv, SummaryTruthful, Mapped, TypeOK, MappingInv
<1>17. CASE Stopped
  BY <1>17 DEF Stopped, StopNext, AfterTeardown, Running, ResultInv,
    SummaryTruthful, Mapped, TypeOK, MappingInv
<1>18. CASE SendInt
  BY <1>18 DEF SendInt, Signal, Running, ResultInv, SummaryTruthful, Mapped,
    TypeOK, MappingInv
<1>19. CASE SendTerm
  BY <1>19 DEF SendTerm, Signal, ResultInv, SummaryTruthful, Mapped, TypeOK,
    MappingInv
<1>20. CASE SendKill
  BY <1>20 DEF SendKill, Signal, ResultInv, SummaryTruthful, Mapped, TypeOK,
    MappingInv
<1>21. CASE Assess
  <2>1. CASE Raise("failure") /\ UNCHANGED result
    BY <1>21, <2>1 DEF Assess, Raise, ResultInv, SummaryTruthful, Mapped,
      ErrorInv, TypeOK, MappingInv
  <2>2. ASSUME NEW observed \in BOOLEAN, pc' = "next", UNCHANGED error,
               result' = [result EXCEPT ![variant] = Verdict(observed)]
        PROVE ResultInv'
    <3>1. Verdict(observed) \in {"passed", "failed"}
      BY Zenon DEF Verdict
    <3>2. Verdict(observed) = "passed" =>
            /\ leader[variant]["player"] = "clean"
            /\ leader[variant]["launch"] = "clean"
            /\ nodes[variant] # "running"
      BY DEF Verdict, Residual, TypeOK
    <3>3. /\ error = "none" /\ summary = "none"
          /\ artifacts[variant] = Complete /\ partial[variant] = NoDirectory
          /\ "player" \notin signalled[variant]
      BY <1>21 DEF Assess, FilesInv, PlayerInv, ErrorInv, TypeOK, MappingInv,
        Complete, NoDirectory
    <3>4. \A v \in Variants : result'[v] = "passed" => Mapped(v)'
      BY <1>21, <2>2, <3>1, <3>2, <3>3 DEF Assess, ResultInv, Mapped, TypeOK,
        MappingInv
    <3> QED BY <1>21, <2>2, <3>1, <3>3, <3>4 DEF Assess, ResultInv,
      SummaryTruthful, TypeOK, MappingInv
  <2> QED BY <1>21, <2>1, <2>2 DEF Assess
<1>22. CASE AfterVariant
  BY <1>22 DEF AfterVariant, Raise, ResultInv, SummaryTruthful, Mapped,
    TypeOK, MappingInv, ErrorInv, SequenceInv, Fresh
<1>23. CASE Summarize
  <2>1. Fresh("external") \/ variant = "external"
    BY DEF SequenceInv, TypeOK, MappingInv
  <2>2. SummaryTruthful'
    BY <1>23, <2>1 DEF Summarize, Raise, AllPassed, ResultInv, SequenceInv,
      ErrorInv, SummaryTruthful, Mapped, Fresh, TypeOK, MappingInv
  <2> QED BY <1>23, <2>2 DEF Summarize, Raise, ResultInv, SummaryTruthful,
    Mapped, ErrorInv, TypeOK, MappingInv
<1>24. CASE Report
  BY <1>24 DEF Report, ResultInv, SummaryTruthful, Mapped, TypeOK, MappingInv
<1>25. CASE Interrupt
  BY <1>25 DEF Interrupt, Raise, ResultInv, SummaryTruthful, Mapped, TypeOK,
    MappingInv
<1>26. CASE SlamServes
  BY <1>26 DEF SlamServes, WrittenBy, ResultInv, SummaryTruthful, Mapped,
    TypeOK, MappingInv
<1>27. ASSUME NEW v \in Variants, NodesStart(v) PROVE ResultInv'
  BY <1>27 DEF NodesStart, Running, ResultInv, SummaryTruthful, Mapped,
    TypeOK, MappingInv
<1>28. ASSUME NEW v \in Variants, NodesEnd(v) PROVE ResultInv'
  BY <1>28 DEF NodesEnd, Running, ResultInv, SummaryTruthful, Mapped, TypeOK,
    MappingInv
<1>29. ASSUME NEW v \in Variants, NEW role \in Roles, LeaderEnds(v, role)
  PROVE ResultInv'
  BY <1>29 DEF LeaderEnds, Running, ResultInv, SummaryTruthful, Mapped,
    TypeOK, MappingInv
<1>30. CASE UNCHANGED vars
  BY <1>30 DEF vars, ResultInv, SummaryTruthful, Mapped, TypeOK, MappingInv
<1> QED
  BY <1>1, <1>2, <1>3, <1>4, <1>5, <1>6, <1>7, <1>8, <1>9, <1>10, <1>11,
    <1>12, <1>13, <1>14, <1>15, <1>16, <1>17, <1>18, <1>19, <1>20, <1>21,
    <1>22, <1>23, <1>24, <1>25, <1>26, <1>27, <1>28, <1>29, <1>30 DEF Next,
    Runner, Processes

(* The invariant holds at the start.                                       *)
LEMMA MappingStart == Init => TypeOK /\ MappingInv
<1> SUFFICES ASSUME Init PROVE TypeOK /\ MappingInv
  OBVIOUS
<1> USE DEF Init, Working, Closing, InTry, InPartial, Variants, Roles
<1>1. TypeOK
  <2>1. NoDirectory \in Content
    BY DEF Content
  <2>2. partial \in [Variants -> Content] /\ artifacts \in [Variants -> Content]
    BY <2>1
  <2>3. interrupts \in 0..MaxInterrupts
    BY InterruptAssumption
  <2>4. /\ leader \in [Variants ->
                      [Roles -> {"absent", "running", "clean", "unclean"}]]
        /\ signalled \in [Variants -> SUBSET Roles]
    OBVIOUS
  <2> QED BY <2>2, <2>3, <2>4 DEF TypeOK
<1>2. SequenceInv /\ ErrorInv
  BY DEF SequenceInv, ErrorInv, Fresh
<1>3. FilesInv /\ PlayerInv
  BY DEF FilesInv, PlayerInv
<1>4. TeardownInv /\ ResultInv
  BY DEF TeardownInv, ResultInv, SummaryTruthful, Running
<1> QED BY <1>1, <1>2, <1>3, <1>4 DEF MappingInv

(* Types and the inductive invariant hold in every state.                  *)
THEOREM MappingInvariant == Spec => [](TypeOK /\ MappingInv)
<1>1. TypeOK /\ MappingInv /\ [Next]_vars => (TypeOK /\ MappingInv)'
  BY TypeStep, SequenceStep, ErrorStep, FilesStep, PlayerStep, TeardownStep,
    ResultStep DEF MappingInv
<1> QED BY <1>1, MappingStart, PTL DEF Spec

(* Every variable of the mapping run keeps its type, and every stop starts *)
(* with SIGINT.                                                            *)
THEOREM TypeCorrect == Spec => []TypeOK
BY MappingInvariant, PTL

(* Only the whole validated set is ever called artifacts, with no call     *)
(* open: save_serialize_reload and the rename after it.                    *)
THEOREM PromotedIsComplete == Spec => []PromotedComplete
<1>1. TypeOK /\ MappingInv => PromotedComplete
  BY DEF MappingInv, FilesInv, PromotedComplete
<1> QED BY <1>1, MappingInvariant, PTL

(* A passed summary tells of runs that were mapped to the end and left     *)
(* nothing running: assess_mapping and main.                               *)
THEOREM SummaryIsTruthful == Spec => []SummaryTruthful
<1>1. MappingInv => SummaryTruthful
  BY DEF MappingInv, ResultInv
<1> QED BY <1>1, MappingInvariant, PTL

(* The external launch starts after the stationary run was mapped to the   *)
(* end: execute_mapping_acceptance.                                        *)
THEOREM ExternalStartsClean == Spec => []CleanStart
<1>1. TypeOK /\ MappingInv => CleanStart
  BY DEF TypeOK, MappingInv, SequenceInv, Fresh, CleanStart, Variants, Roles
<1> QED BY <1>1, MappingInvariant, PTL

(* No leader outlives the runner unless its teardown was interrupted, and  *)
(* what a failed removal leaves has neither artifacts nor a result.        *)
THEOREM NothingIsLeft == Spec => []NothingLeft
<1>1. TypeOK /\ MappingInv => NothingLeft
  BY DEF TypeOK, MappingInv, FilesInv, TeardownInv, ResultInv, NothingLeft,
    Closing, Variants
<1> QED BY <1>1, MappingInvariant, PTL

=============================================================================
