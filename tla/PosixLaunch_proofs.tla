------------------------- MODULE PosixLaunch_proofs -------------------------
(***************************************************************************)
(* What the POSIX backend guarantees whatever fails: the gate, the meaning *)
(* of an exit code and of a recovery.                                      *)
(***************************************************************************)
EXTENDS PosixLaunch, TLAPS

(* Project code comes from START, and START from the registration. *)
GateInv ==
    /\ gate \/ leader = "released" \/ ran => registered
    /\ host \in {"idle", "await_ready", "registering"} =>
          ~gate /\ leader # "released" /\ ~ran

(* An EXIT frame, read or not, is the supervisor's last act, after it has  *)
(* reaped the leader and swept the group.                                  *)
Frames == {"READY", "STARTED", "exit", "reason", "ERROR", "none"}
ExitIn(s) == \E i \in DOMAIN s : s[i] = "exit"
ExitSeen == result = "exit" \/ ExitIn(status)

ExitInv ==
    /\ status \in Seq(Frames) /\ report \in Frames
    /\ host = "idle" => sup = "none" /\ status = <<>> /\ result = "none"
    /\ sup = "sweeping" => leader = "reaped"
    /\ ExitSeen => sup = "dead" /\ leader = "reaped" /\ ~kin

(* A recovery starts when TrueCoder is gone and ends with the supervisor.  *)
RecoveryInv ==
    /\ kin \in BOOLEAN
    /\ recovery # "none" => host = "gone"
    /\ recovery = "terminated" =>
          ~SupervisorLives /\ leader \notin {"blocked", "released", "executing"} /\ ~kin

(* As long as TrueCoder does not abort, the supervisor does not end by     *)
(* itself before the project, and the handle waits for its end.            *)
StopInv ==
    /\ sup \in {"none", "booting"} => leader = "none"
    /\ leader \in {"none", "blocked", "released", "failed"} => ~kin
    /\ host \notin {"aborting", "aborted", "leaked", "gone"} /\ sup = "dead" /\ ~struck =>
          leader \notin {"released", "executing"} /\ ~kin
    /\ host \in {"stopped", "cleaned"} => sup = "dead"
    /\ result # "none" => sup = "dead"

LaunchInv == GateInv /\ ExitInv /\ RecoveryInv /\ StopInv

LEMMA FrameWritten ==
    ASSUME NEW s \in Seq(Frames), NEW frame \in Frames
    PROVE  Append(s, frame) \in Seq(Frames) /\
           (ExitIn(Append(s, frame)) => frame = "exit" \/ ExitIn(s))
BY DEF ExitIn, Frames

LEMMA FrameRead ==
    ASSUME NEW s \in Seq(Frames), s # <<>>
    PROVE  /\ Tail(s) \in Seq(Frames)
           /\ ExitIn(Tail(s)) => ExitIn(s)
           /\ Head(s) = "exit" => ExitIn(s)
BY DEF ExitIn, Frames

LEMMA NothingWritten == ~ExitIn(<<>>) /\ <<>> \in Seq(Frames)
BY DEF ExitIn, Frames

LEMMA InitLaunchInv == Init => LaunchInv
BY NothingWritten
   DEF Frames, Init, LaunchInv, GateInv, ExitInv, ExitSeen, RecoveryInv, StopInv, SupervisorLives

LEMMA StepLaunchInv == LaunchInv /\ [Next]_vars => LaunchInv'
<1> SUFFICES ASSUME LaunchInv, [Next]_vars PROVE LaunchInv'
    OBVIOUS
<1> USE DEF Frames, LaunchInv, GateInv, ExitInv, ExitSeen, RecoveryInv, StopInv, handle, wire, project,
            BeginAbort, KillGroup, TermGroup, BeginsStop, SweepGroup, SupervisorLives, Discards, Ends
<1>1. CASE Start
      BY <1>1, NothingWritten DEF Start
<1>2. CASE ReadReady
      BY <1>2, FrameRead DEF ReadReady
<1>3. CASE Registered
      BY <1>3 DEF Registered
<1>4. CASE RegistrationFails
      BY <1>4 DEF RegistrationFails
<1>5. CASE ReadStarted
      BY <1>5, FrameRead DEF ReadStarted
<1>6. CASE StartFails
      BY <1>6 DEF StartFails
<1>7. CASE AbortKills
      BY <1>7 DEF AbortKills
<1>8. CASE AbortEnds
      BY <1>8 DEF AbortEnds
<1>9. CASE WaitEnds
      BY <1>9, FrameRead DEF WaitEnds
<1>10. CASE ForceTerminate
      BY <1>10 DEF ForceTerminate
<1>11. CASE ForceKills
      BY <1>11 DEF ForceKills
<1>12. CASE Stopped
      BY <1>12 DEF Stopped
<1>13. CASE Cleanup
      BY <1>13 DEF Cleanup
<1>14. CASE Terminate
      BY <1>14 DEF Terminate
<1>15. CASE Cancel
      BY <1>15 DEF Cancel
<1>16. CASE HardCancel
      BY <1>16 DEF HardCancel
<1>17. CASE Crash
      BY <1>17, NothingWritten DEF Crash
<1>18. CASE Boots
  <2>1. status' \in Seq(Frames) /\ (ExitIn(status') => ExitIn(status))
        BY <1>18, FrameWritten DEF Boots, Report
  <2> QED BY <1>18, <2>1 DEF Boots
<1>19. CASE SetupFails
  <2>1. status' \in Seq(Frames) /\ (ExitIn(status') => ExitIn(status))
        BY <1>19, FrameWritten DEF SetupFails, Report
  <2> QED BY <1>19, <2>1 DEF SetupFails
<1>20. CASE PassesStart
      BY <1>20 DEF PassesStart
<1>21. CASE Withdraws
      BY <1>21 DEF Withdraws
<1>22. CASE ReportsStarted
  <2>1. status' \in Seq(Frames) /\ (ExitIn(status') => ExitIn(status))
        BY <1>22, FrameWritten DEF ReportsStarted, Report
  <2> QED BY <1>22, <2>1 DEF ReportsStarted
<1>23. CASE ReportsExecError
  <2>1. status' \in Seq(Frames) /\ (ExitIn(status') => ExitIn(status))
        BY <1>23, FrameWritten DEF ReportsExecError, Report
  <2> QED BY <1>23, <2>1 DEF ReportsExecError
<1>24. CASE StopsGroup
      BY <1>24 DEF StopsGroup
<1>25. CASE LimitReached
      BY <1>25 DEF LimitReached
<1>26. CASE GroupStopped
      BY <1>26 DEF GroupStopped
<1>27. CASE SeesExit
      BY <1>27 DEF SeesExit
<1>28. CASE Finishes
  <2>1. status' \in Seq(Frames)
        BY <1>28, FrameWritten DEF Finishes, Report
  <2> QED BY <1>28, <2>1 DEF Finishes
<1>29. CASE DiscardsProject
      BY <1>29 DEF DiscardsProject
<1>30. CASE SupervisorKilled
      BY <1>30 DEF SupervisorKilled
<1>31. CASE Exec
      BY <1>31 DEF Exec
<1>32. CASE ExecFails
      BY <1>32 DEF ExecFails
<1>33. CASE GateEof
      BY <1>33 DEF GateEof
<1>34. CASE Forks
      BY <1>34 DEF Forks
<1>35. CASE Exits
      BY <1>35 DEF Exits
<1>36. CASE RecoveryLooks
      BY <1>36 DEF RecoveryLooks
<1>37. CASE RecoveryEnds
      BY <1>37 DEF RecoveryEnds
<1>38. CASE RecoveryKills
      BY <1>38 DEF RecoveryKills
<1>39. CASE UNCHANGED vars
      BY <1>39 DEF vars
<1> QED
   BY <1>1, <1>2, <1>3, <1>4, <1>5, <1>6, <1>7, <1>8, <1>9, <1>10, <1>11, <1>12,
   <1>13, <1>14, <1>15, <1>16, <1>17, <1>18, <1>19, <1>20, <1>21, <1>22,
   <1>23, <1>24, <1>25, <1>26, <1>27, <1>28, <1>29, <1>30, <1>31, <1>32,
   <1>33, <1>34, <1>35, <1>36, <1>37, <1>38, <1>39
   DEF Next, Host, Supervisor, Project, Recovery

THEOREM LaunchInvariant == Spec => []LaunchInv
BY InitLaunchInv, StepLaunchInv, PTL DEF Spec

(* No project code executes before its resource identity is durable, for   *)
(* any faults and any deadlines (GateHolds).                               *)
THEOREM GateAlwaysHolds == Spec => []GateHolds
<1>1. LaunchInv => GateHolds
      BY DEF LaunchInv, GateInv, GateHolds
<1> QED BY <1>1, LaunchInvariant, PTL

(* An exit code speaks for the whole project group (ExitMeansOver).        *)
THEOREM ExitAlwaysMeansOver == Spec => []ExitMeansOver
<1>1. LaunchInv => ExitMeansOver
      BY DEF LaunchInv, ExitInv, ExitSeen, ExitMeansOver, ProjectRuns
<1> QED BY <1>1, LaunchInvariant, PTL

(* A completed cleanup leaves nothing running, however slow or stubborn    *)
(* anybody was (CleanedMeansStopped).                                      *)
THEOREM CleanedAlwaysStopped == Spec => []CleanedMeansStopped
<1>1. LaunchInv => CleanedMeansStopped
      BY DEF LaunchInv, StopInv, CleanedMeansStopped, ProjectRuns
<1> QED BY <1>1, LaunchInvariant, PTL

(* A recovery that reports a terminated resource is right (RecoveryIsTrue). *)
THEOREM RecoveryAlwaysTrue == Spec => []RecoveryIsTrue
<1>1. LaunchInv => RecoveryIsTrue
      BY DEF LaunchInv, RecoveryInv, RecoveryIsTrue, ProjectRuns
<1> QED BY <1>1, LaunchInvariant, PTL

-----------------------------------------------------------------------------
(* The types of TypeOK, with the frames that may be unread: the supervisor *)
(* writes READY and waits for START, which TrueCoder sends when it has     *)
(* read that; then STARTED, and its last frame when it ends.               *)
Written == {"READY", "STARTED", "exit", "reason", "ERROR"}

UnreadInv ==
    /\ status \in Seq(Written) /\ Len(status) <= 2
    /\ sup # "dead" => Len(status) <= 1
    /\ sup \in {"none", "booting", "starting"} => status = <<>>
    /\ sup = "waiting" /\ gate => status = <<>>
    /\ host \in {"idle", "await_ready", "registering"} =>
          Len(status) <= 1 /\ sup \notin {"starting", "monitoring", "stopping", "sweeping"}
    /\ host = "registering" => status = <<>>
    /\ sup \in {"none", "booting"} => ~gate /\ host \notin {"registering", "await_started"}
    /\ host \in {"running", "terminating", "forcing"} =>
          sup \notin {"none", "booting", "waiting", "starting"}
    /\ sup \in {"stopping", "sweeping"} => report \in {"exit", "reason"}

KindsInv ==
    /\ \A i \in 2..Len(status) : status[i] \in {"exit", "reason"}
    /\ sup = "waiting" => \A i \in 1..Len(status) : status[i] = "READY"
    /\ host \in {"running", "terminating", "forcing"} =>
          \A i \in 1..Len(status) : status[i] \in {"exit", "reason"}

FramesInv == UnreadInv /\ KindsInv

FlagsInv ==
    /\ token \in BOOLEAN /\ registered \in BOOLEAN /\ asked \in BOOLEAN /\ gate \in BOOLEAN
    /\ order \in BOOLEAN /\ stop \in BOOLEAN /\ kin \in BOOLEAN /\ stubborn \in BOOLEAN
    /\ ran \in BOOLEAN /\ struck \in BOOLEAN

TypesInv ==
    /\ host \in Hosts /\ pipes \subseteq Ends
    /\ result \in {"none", "exit", "reason", "ERROR"}
    /\ sup \in Supervisors /\ report \in {"none", "exit", "reason"} /\ leader \in Leaders
    /\ recovery \in {"none", "waiting", "absent", "terminated", "failed"}

(* Where nobody is too slow, the supervisor ends after the project.        *)
ReapInv == sup = "dead" /\ ~struck => leader \notin {"released", "executing"} /\ ~kin

LEMMA FrameAdded ==
    ASSUME NEW s \in Seq(Written), NEW frame \in Written
    PROVE  /\ Append(s, frame) \in Seq(Written) /\ Len(Append(s, frame)) = Len(s) + 1
           /\ \A i \in 1..Len(s) : Append(s, frame)[i] = s[i]
           /\ Append(s, frame)[Len(s) + 1] = frame
OBVIOUS

LEMMA FrameTaken ==
    ASSUME NEW s \in Seq(Written), s # <<>>
    PROVE  /\ Len(s) \in Nat \ {0} /\ Tail(s) \in Seq(Written) /\ Len(Tail(s)) = Len(s) - 1
           /\ \A i \in 1..Len(Tail(s)) : Tail(s)[i] = s[i + 1]
           /\ Head(s) = s[1] /\ s[1] \in Written
OBVIOUS

LEMMA NoFrames == <<>> \in Seq(Written) /\ Len(<<>>) = 0
OBVIOUS

Added(frame) ==
    \/ status' = status
    \/ /\ status' \in Seq(Written) /\ Len(status') = Len(status) + 1
       /\ \A i \in 1..Len(status) : status'[i] = status[i]
       /\ status'[Len(status) + 1] = frame

LEMMA FrameReported ==
    ASSUME status \in Seq(Written), NEW frame \in Written, Report(frame)
    PROVE  Added(frame)
BY FrameAdded DEF Report, Added

(* The supervisor has written nothing that is unread.                      *)
First(frame) ==
    /\ status' \in Seq(Written) /\ Len(status') \in {0, 1} /\ Len(status') <= 1
    /\ \A i \in 1..Len(status') : i = 1 /\ status'[i] = frame
    /\ \A i \in 2..Len(status') : FALSE

LEMMA FirstFrame ==
    ASSUME status = <<>>, NEW frame \in Written, Report(frame)
    PROVE  First(frame)
<1>1. CASE status' = <<>>
    <2>1. status' \in Seq(Written) /\ Len(status') = 0
        BY <1>1, NoFrames
    <2> QED BY <2>1 DEF First
<1>2. CASE status' = <<frame>>
    <2>1. status' \in Seq(Written) /\ Len(status') = 1 /\ status'[1] = frame
        BY <1>2
    <2> QED BY <2>1 DEF First
<1> QED BY <1>1, <1>2 DEF Report

LEMMA UpToTwo == ASSUME NEW n \in Nat, n <= 2 PROVE n \in 0..2
OBVIOUS

Taken ==
    /\ Len(status) \in Nat \ {0} /\ Tail(status) \in Seq(Written)
    /\ Len(Tail(status)) = Len(status) - 1
    /\ \A i \in 1..Len(Tail(status)) : Tail(status)[i] = status[i + 1]
    /\ Head(status) = status[1] /\ status[1] \in Written

LEMMA UnreadStep == LaunchInv /\ TypesInv /\ FramesInv /\ [Next]_vars => UnreadInv'
<1> SUFFICES ASSUME LaunchInv, TypesInv, FramesInv, [Next]_vars PROVE UnreadInv'
    OBVIOUS
<1> USE NoFrames DEF LaunchInv, GateInv, ExitInv, TypesInv, FramesInv, UnreadInv, handle, wire, project, BeginAbort, BeginsStop, SupervisorLives, Discards, Hosts, Supervisors
<1>1. CASE Start
    BY <1>1 DEF Start
<1>2. CASE ReadReady
    <2>1. status = <<>> \/ Taken
        BY <1>2, FrameTaken DEF Taken
    <2> QED BY <1>2, <2>1 DEF ReadReady, Taken, KindsInv
<1>3. CASE Registered
    BY <1>3 DEF Registered
<1>4. CASE RegistrationFails
    BY <1>4 DEF RegistrationFails
<1>5. CASE ReadStarted
    <2>1. status = <<>> \/ Taken
        BY <1>5, FrameTaken DEF Taken
    <2> QED BY <1>5, <2>1 DEF ReadStarted, Taken, KindsInv
<1>6. CASE StartFails
    BY <1>6 DEF StartFails
<1>7. CASE AbortKills
    BY <1>7 DEF AbortKills
<1>8. CASE AbortEnds
    BY <1>8 DEF AbortEnds
<1>9. CASE WaitEnds
    <2>1. status = <<>> \/ Taken
        BY <1>9, FrameTaken DEF Taken
    <2> QED BY <1>9, <2>1 DEF WaitEnds, Taken, KindsInv
<1>10. CASE ForceTerminate
    BY <1>10 DEF ForceTerminate
<1>11. CASE ForceKills
    BY <1>11 DEF ForceKills
<1>12. CASE Stopped
    BY <1>12 DEF Stopped
<1>13. CASE Cleanup
    BY <1>13 DEF Cleanup
<1>14. CASE Terminate
    BY <1>14 DEF Terminate
<1>15. CASE Cancel
    BY <1>15 DEF Cancel
<1>16. CASE HardCancel
    BY <1>16 DEF HardCancel
<1>17. CASE Crash
    BY <1>17 DEF Crash
<1>18. CASE Boots
    <2>1. status = <<>> /\ "READY" \in Written /\ Report("READY")
        BY <1>18 DEF Boots, Written
    <2>2. First("READY")
        BY <2>1, FirstFrame
    <2> QED BY <1>18, <2>2 DEF Boots, First
<1>19. CASE SetupFails
    <2>1. status = <<>> /\ "ERROR" \in Written /\ Report("ERROR")
        BY <1>19 DEF SetupFails, Written
    <2>2. First("ERROR")
        BY <2>1, FirstFrame
    <2> QED BY <1>19, <2>2 DEF SetupFails, First
<1>20. CASE PassesStart
    BY <1>20 DEF PassesStart
<1>21. CASE Withdraws
    BY <1>21 DEF Withdraws
<1>22. CASE ReportsStarted
    <2>1. status = <<>> /\ "STARTED" \in Written /\ Report("STARTED")
        BY <1>22 DEF ReportsStarted, Written
    <2>2. First("STARTED")
        BY <2>1, FirstFrame
    <2> QED BY <1>22, <2>2 DEF ReportsStarted, First
<1>23. CASE ReportsExecError
    <2>1. status = <<>> /\ "ERROR" \in Written /\ Report("ERROR")
        BY <1>23 DEF ReportsExecError, Written
    <2>2. First("ERROR")
        BY <2>1, FirstFrame
    <2> QED BY <1>23, <2>2 DEF ReportsExecError, First
<1>24. CASE StopsGroup
    BY <1>24 DEF StopsGroup
<1>25. CASE LimitReached
    BY <1>25 DEF LimitReached
<1>26. CASE GroupStopped
    BY <1>26 DEF GroupStopped
<1>27. CASE SeesExit
    BY <1>27 DEF SeesExit
<1>28. CASE Finishes
    <2>1. status \in Seq(Written) /\ report \in Written /\ Report(report)
        BY <1>28 DEF Finishes, Written
    <2>2. Added(report)
        BY <2>1, FrameReported
    <2> QED BY <1>28, <2>2 DEF Finishes, Added
<1>29. CASE DiscardsProject
    BY <1>29 DEF DiscardsProject
<1>30. CASE SupervisorKilled
    BY <1>30 DEF SupervisorKilled
<1>31. CASE Exec
    BY <1>31 DEF Exec
<1>32. CASE ExecFails
    BY <1>32 DEF ExecFails
<1>33. CASE GateEof
    BY <1>33 DEF GateEof
<1>34. CASE Forks
    BY <1>34 DEF Forks
<1>35. CASE Exits
    BY <1>35 DEF Exits
<1>36. CASE RecoveryLooks
    BY <1>36 DEF RecoveryLooks
<1>37. CASE RecoveryEnds
    BY <1>37 DEF RecoveryEnds
<1>38. CASE RecoveryKills
    BY <1>38 DEF RecoveryKills
<1>39. CASE UNCHANGED vars
    BY <1>39 DEF vars
<1> QED
    BY <1>1, <1>2, <1>3, <1>4, <1>5, <1>6, <1>7, <1>8, <1>9, <1>10, <1>11, <1>12,
       <1>13, <1>14, <1>15, <1>16, <1>17, <1>18, <1>19, <1>20, <1>21, <1>22, <1>23,
       <1>24, <1>25, <1>26, <1>27, <1>28, <1>29, <1>30, <1>31, <1>32, <1>33, <1>34,
       <1>35, <1>36, <1>37, <1>38, <1>39
    DEF Next, Host, Supervisor, Project, Recovery

LEMMA KindsStep == LaunchInv /\ TypesInv /\ FramesInv /\ [Next]_vars => KindsInv'
<1> SUFFICES ASSUME LaunchInv, TypesInv, FramesInv, [Next]_vars PROVE KindsInv'
    OBVIOUS
<1> USE NoFrames DEF LaunchInv, GateInv, ExitInv, TypesInv, FramesInv, UnreadInv, KindsInv, handle, wire, project, BeginAbort, BeginsStop, SupervisorLives, Discards, Hosts, Supervisors
<1>1. CASE Start
    BY <1>1 DEF Start
<1>2. CASE ReadReady
    <2>1. status = <<>> \/ Taken
        BY <1>2, FrameTaken DEF Taken
    <2> QED BY <1>2, <2>1 DEF ReadReady, Taken, KindsInv
<1>3. CASE Registered
    BY <1>3 DEF Registered
<1>4. CASE RegistrationFails
    BY <1>4 DEF RegistrationFails
<1>5. CASE ReadStarted
    <2>1. status = <<>> \/ Taken
        BY <1>5, FrameTaken DEF Taken
    <2> QED BY <1>5, <2>1 DEF ReadStarted, Taken, KindsInv
<1>6. CASE StartFails
    BY <1>6 DEF StartFails
<1>7. CASE AbortKills
    BY <1>7 DEF AbortKills
<1>8. CASE AbortEnds
    BY <1>8 DEF AbortEnds
<1>9. CASE WaitEnds
    <2>1. status = <<>> \/ Taken
        BY <1>9, FrameTaken DEF Taken
    <2> QED BY <1>9, <2>1 DEF WaitEnds, Taken, KindsInv
<1>10. CASE ForceTerminate
    BY <1>10 DEF ForceTerminate
<1>11. CASE ForceKills
    BY <1>11 DEF ForceKills
<1>12. CASE Stopped
    BY <1>12 DEF Stopped
<1>13. CASE Cleanup
    BY <1>13 DEF Cleanup
<1>14. CASE Terminate
    BY <1>14 DEF Terminate
<1>15. CASE Cancel
    BY <1>15 DEF Cancel
<1>16. CASE HardCancel
    BY <1>16 DEF HardCancel
<1>17. CASE Crash
    BY <1>17 DEF Crash
<1>18. CASE Boots
    <2>1. status = <<>> /\ "READY" \in Written /\ Report("READY")
        BY <1>18 DEF Boots, Written
    <2>2. First("READY")
        BY <2>1, FirstFrame
    <2> QED BY <1>18, <2>2 DEF Boots, First
<1>19. CASE SetupFails
    <2>1. status = <<>> /\ "ERROR" \in Written /\ Report("ERROR")
        BY <1>19 DEF SetupFails, Written
    <2>2. First("ERROR")
        BY <2>1, FirstFrame
    <2> QED BY <1>19, <2>2 DEF SetupFails, First
<1>20. CASE PassesStart
    BY <1>20 DEF PassesStart
<1>21. CASE Withdraws
    BY <1>21 DEF Withdraws
<1>22. CASE ReportsStarted
    <2>1. status = <<>> /\ "STARTED" \in Written /\ Report("STARTED")
        BY <1>22 DEF ReportsStarted, Written
    <2>2. First("STARTED")
        BY <2>1, FirstFrame
    <2> QED BY <1>22, <2>2 DEF ReportsStarted, First
<1>23. CASE ReportsExecError
    <2>1. status = <<>> /\ "ERROR" \in Written /\ Report("ERROR")
        BY <1>23 DEF ReportsExecError, Written
    <2>2. First("ERROR")
        BY <2>1, FirstFrame
    <2> QED BY <1>23, <2>2 DEF ReportsExecError, First
<1>24. CASE StopsGroup
    BY <1>24 DEF StopsGroup
<1>25. CASE LimitReached
    BY <1>25 DEF LimitReached
<1>26. CASE GroupStopped
    BY <1>26 DEF GroupStopped
<1>27. CASE SeesExit
    BY <1>27 DEF SeesExit
<1>28. CASE Finishes
    <2>1. status \in Seq(Written) /\ report \in Written /\ Report(report)
        BY <1>28 DEF Finishes, Written
    <2>2. Added(report)
        BY <2>1, FrameReported
    <2> QED BY <1>28, <2>2 DEF Finishes, Added
<1>29. CASE DiscardsProject
    BY <1>29 DEF DiscardsProject
<1>30. CASE SupervisorKilled
    BY <1>30 DEF SupervisorKilled
<1>31. CASE Exec
    BY <1>31 DEF Exec
<1>32. CASE ExecFails
    BY <1>32 DEF ExecFails
<1>33. CASE GateEof
    BY <1>33 DEF GateEof
<1>34. CASE Forks
    BY <1>34 DEF Forks
<1>35. CASE Exits
    BY <1>35 DEF Exits
<1>36. CASE RecoveryLooks
    BY <1>36 DEF RecoveryLooks
<1>37. CASE RecoveryEnds
    BY <1>37 DEF RecoveryEnds
<1>38. CASE RecoveryKills
    BY <1>38 DEF RecoveryKills
<1>39. CASE UNCHANGED vars
    BY <1>39 DEF vars
<1> QED
    BY <1>1, <1>2, <1>3, <1>4, <1>5, <1>6, <1>7, <1>8, <1>9, <1>10, <1>11, <1>12,
       <1>13, <1>14, <1>15, <1>16, <1>17, <1>18, <1>19, <1>20, <1>21, <1>22, <1>23,
       <1>24, <1>25, <1>26, <1>27, <1>28, <1>29, <1>30, <1>31, <1>32, <1>33, <1>34,
       <1>35, <1>36, <1>37, <1>38, <1>39
    DEF Next, Host, Supervisor, Project, Recovery

LEMMA FramesStep == LaunchInv /\ TypesInv /\ FramesInv /\ [Next]_vars => FramesInv'
BY UnreadStep, KindsStep DEF FramesInv

LEMMA FlagsStep == FlagsInv /\ [Next]_vars => FlagsInv'
<1> SUFFICES ASSUME FlagsInv, [Next]_vars PROVE FlagsInv'
    OBVIOUS
<1> USE DEF FlagsInv, handle, wire, project, BeginAbort, BeginsStop, KillGroup, TermGroup, SweepGroup
<1>1. CASE Start
    BY <1>1, Zenon DEF Start
<1>2. CASE ReadReady
    BY <1>2, Zenon DEF ReadReady
<1>3. CASE Registered
    BY <1>3, Zenon DEF Registered
<1>4. CASE RegistrationFails
    BY <1>4, Zenon DEF RegistrationFails
<1>5. CASE ReadStarted
    BY <1>5, Zenon DEF ReadStarted
<1>6. CASE StartFails
    BY <1>6, Zenon DEF StartFails
<1>7. CASE AbortKills
    BY <1>7, Zenon DEF AbortKills
<1>8. CASE AbortEnds
    BY <1>8, Zenon DEF AbortEnds
<1>9. CASE WaitEnds
    BY <1>9, Zenon DEF WaitEnds
<1>10. CASE ForceTerminate
    BY <1>10, Zenon DEF ForceTerminate
<1>11. CASE ForceKills
    BY <1>11, Zenon DEF ForceKills
<1>12. CASE Stopped
    BY <1>12, Zenon DEF Stopped
<1>13. CASE Cleanup
    BY <1>13, Zenon DEF Cleanup
<1>14. CASE Terminate
    BY <1>14, Zenon DEF Terminate
<1>15. CASE Cancel
    BY <1>15, Zenon DEF Cancel
<1>16. CASE HardCancel
    BY <1>16, Zenon DEF HardCancel
<1>17. CASE Crash
    BY <1>17, Zenon DEF Crash
<1>18. CASE Boots
    BY <1>18, Zenon DEF Boots
<1>19. CASE SetupFails
    BY <1>19, Zenon DEF SetupFails
<1>20. CASE PassesStart
    BY <1>20, Zenon DEF PassesStart
<1>21. CASE Withdraws
    BY <1>21, Zenon DEF Withdraws
<1>22. CASE ReportsStarted
    BY <1>22, Zenon DEF ReportsStarted
<1>23. CASE ReportsExecError
    BY <1>23, Zenon DEF ReportsExecError
<1>24. CASE StopsGroup
    BY <1>24, Zenon DEF StopsGroup
<1>25. CASE LimitReached
    BY <1>25, Zenon DEF LimitReached
<1>26. CASE GroupStopped
    BY <1>26, Zenon DEF GroupStopped
<1>27. CASE SeesExit
    BY <1>27, Zenon DEF SeesExit
<1>28. CASE Finishes
    BY <1>28, Zenon DEF Finishes
<1>29. CASE DiscardsProject
    BY <1>29, Zenon DEF DiscardsProject
<1>30. CASE SupervisorKilled
    BY <1>30, Zenon DEF SupervisorKilled
<1>31. CASE Exec
    BY <1>31, Zenon DEF Exec
<1>32. CASE ExecFails
    BY <1>32, Zenon DEF ExecFails
<1>33. CASE GateEof
    BY <1>33, Zenon DEF GateEof
<1>34. CASE Forks
    BY <1>34, Zenon DEF Forks
<1>35. CASE Exits
    BY <1>35, Zenon DEF Exits
<1>36. CASE RecoveryLooks
    BY <1>36, Zenon DEF RecoveryLooks
<1>37. CASE RecoveryEnds
    BY <1>37, Zenon DEF RecoveryEnds
<1>38. CASE RecoveryKills
    BY <1>38, Zenon DEF RecoveryKills
<1>39. CASE UNCHANGED vars
    BY <1>39, Zenon DEF vars
<1> QED
    BY <1>1, <1>2, <1>3, <1>4, <1>5, <1>6, <1>7, <1>8, <1>9, <1>10, <1>11, <1>12,
       <1>13, <1>14, <1>15, <1>16, <1>17, <1>18, <1>19, <1>20, <1>21, <1>22, <1>23,
       <1>24, <1>25, <1>26, <1>27, <1>28, <1>29, <1>30, <1>31, <1>32, <1>33, <1>34,
       <1>35, <1>36, <1>37, <1>38, <1>39
    DEF Next, Host, Supervisor, Project, Recovery

LEMMA TypesStep == TypesInv /\ FramesInv /\ [Next]_vars => TypesInv'
<1> SUFFICES ASSUME TypesInv, FramesInv, [Next]_vars PROVE TypesInv'
    OBVIOUS
<1> USE DEF TypesInv, handle, wire, project, BeginAbort, BeginsStop, KillGroup, TermGroup, SweepGroup,
        SupervisorLives, Discards, Hosts, Supervisors, Leaders, Ends
<1>1. CASE Start
    BY <1>1 DEF Start
<1>2. CASE ReadReady
    BY <1>2 DEF ReadReady
<1>3. CASE Registered
    <2>1. pipes' \subseteq Ends
        BY <1>3 DEF Registered
    <2>2. /\ host' \in Hosts /\ sup' \in {sup, "dead"}
          /\ UNCHANGED <<result, report, leader, recovery>>
        BY <1>3 DEF Registered
    <2> QED BY <2>1, <2>2
<1>4. CASE RegistrationFails
    BY <1>4 DEF RegistrationFails
<1>5. CASE ReadStarted
    BY <1>5 DEF ReadStarted
<1>6. CASE StartFails
    BY <1>6 DEF StartFails
<1>7. CASE AbortKills
    BY <1>7 DEF AbortKills
<1>8. CASE AbortEnds
    BY <1>8 DEF AbortEnds
<1>9. CASE WaitEnds
    BY <1>9, FrameTaken DEF WaitEnds, FramesInv, UnreadInv, KindsInv
<1>10. CASE ForceTerminate
    BY <1>10 DEF ForceTerminate
<1>11. CASE ForceKills
    BY <1>11 DEF ForceKills
<1>12. CASE Stopped
    BY <1>12 DEF Stopped
<1>13. CASE Cleanup
    BY <1>13 DEF Cleanup
<1>14. CASE Terminate
    BY <1>14 DEF Terminate
<1>15. CASE Cancel
    BY <1>15 DEF Cancel
<1>16. CASE HardCancel
    BY <1>16 DEF HardCancel
<1>17. CASE Crash
    BY <1>17 DEF Crash
<1>18. CASE Boots
    BY <1>18 DEF Boots
<1>19. CASE SetupFails
    BY <1>19 DEF SetupFails
<1>20. CASE PassesStart
    BY <1>20 DEF PassesStart
<1>21. CASE Withdraws
    BY <1>21 DEF Withdraws
<1>22. CASE ReportsStarted
    BY <1>22 DEF ReportsStarted
<1>23. CASE ReportsExecError
    BY <1>23 DEF ReportsExecError
<1>24. CASE StopsGroup
    BY <1>24 DEF StopsGroup
<1>25. CASE LimitReached
    BY <1>25 DEF LimitReached
<1>26. CASE GroupStopped
    BY <1>26 DEF GroupStopped
<1>27. CASE SeesExit
    BY <1>27 DEF SeesExit, ToldToStop
<1>28. CASE Finishes
    BY <1>28 DEF Finishes
<1>29. CASE DiscardsProject
    BY <1>29 DEF DiscardsProject
<1>30. CASE SupervisorKilled
    BY <1>30 DEF SupervisorKilled
<1>31. CASE Exec
    BY <1>31 DEF Exec
<1>32. CASE ExecFails
    BY <1>32 DEF ExecFails
<1>33. CASE GateEof
    BY <1>33 DEF GateEof
<1>34. CASE Forks
    BY <1>34 DEF Forks
<1>35. CASE Exits
    BY <1>35 DEF Exits
<1>36. CASE RecoveryLooks
    BY <1>36 DEF RecoveryLooks
<1>37. CASE RecoveryEnds
    BY <1>37 DEF RecoveryEnds
<1>38. CASE RecoveryKills
    BY <1>38 DEF RecoveryKills
<1>39. CASE UNCHANGED vars
    BY <1>39 DEF vars
<1> QED
    BY <1>1, <1>2, <1>3, <1>4, <1>5, <1>6, <1>7, <1>8, <1>9, <1>10, <1>11, <1>12,
       <1>13, <1>14, <1>15, <1>16, <1>17, <1>18, <1>19, <1>20, <1>21, <1>22, <1>23,
       <1>24, <1>25, <1>26, <1>27, <1>28, <1>29, <1>30, <1>31, <1>32, <1>33, <1>34,
       <1>35, <1>36, <1>37, <1>38, <1>39
    DEF Next, Host, Supervisor, Project, Recovery

LEMMA ReapStep ==
    ASSUME ~Slow, ~LongGrace
    PROVE  LaunchInv /\ ReapInv /\ [Next]_vars => ReapInv'
<1> SUFFICES ASSUME LaunchInv, ReapInv, [Next]_vars PROVE ReapInv'
    OBVIOUS
<1> USE DEF LaunchInv, ExitInv, StopInv, ReapInv, handle, wire, project, BeginAbort, BeginsStop, KillGroup, TermGroup,
        SweepGroup, SecondOver, SupervisorLives, Discards
<1>1. CASE Start
    BY <1>1 DEF Start
<1>2. CASE ReadReady
    BY <1>2 DEF ReadReady
<1>3. CASE Registered
    BY <1>3 DEF Registered
<1>4. CASE RegistrationFails
    BY <1>4 DEF RegistrationFails
<1>5. CASE ReadStarted
    BY <1>5 DEF ReadStarted
<1>6. CASE StartFails
    BY <1>6 DEF StartFails
<1>7. CASE AbortKills
    BY <1>7 DEF AbortKills
<1>8. CASE AbortEnds
    BY <1>8 DEF AbortEnds
<1>9. CASE WaitEnds
    BY <1>9 DEF WaitEnds
<1>10. CASE ForceTerminate
    BY <1>10 DEF ForceTerminate
<1>11. CASE ForceKills
    BY <1>11 DEF ForceKills
<1>12. CASE Stopped
    BY <1>12 DEF Stopped
<1>13. CASE Cleanup
    BY <1>13 DEF Cleanup
<1>14. CASE Terminate
    BY <1>14 DEF Terminate
<1>15. CASE Cancel
    BY <1>15 DEF Cancel
<1>16. CASE HardCancel
    BY <1>16 DEF HardCancel
<1>17. CASE Crash
    BY <1>17 DEF Crash
<1>18. CASE Boots
    BY <1>18 DEF Boots
<1>19. CASE SetupFails
    BY <1>19 DEF SetupFails
<1>20. CASE PassesStart
    BY <1>20 DEF PassesStart
<1>21. CASE Withdraws
    BY <1>21 DEF Withdraws
<1>22. CASE ReportsStarted
    BY <1>22 DEF ReportsStarted
<1>23. CASE ReportsExecError
    BY <1>23 DEF ReportsExecError
<1>24. CASE StopsGroup
    BY <1>24 DEF StopsGroup
<1>25. CASE LimitReached
    BY <1>25 DEF LimitReached
<1>26. CASE GroupStopped
    BY <1>26 DEF GroupStopped
<1>27. CASE SeesExit
    BY <1>27 DEF SeesExit
<1>28. CASE Finishes
    BY <1>28 DEF Finishes
<1>29. CASE DiscardsProject
    BY <1>29 DEF DiscardsProject
<1>30. CASE SupervisorKilled
    BY <1>30 DEF SupervisorKilled
<1>31. CASE Exec
    BY <1>31 DEF Exec
<1>32. CASE ExecFails
    BY <1>32 DEF ExecFails
<1>33. CASE GateEof
    BY <1>33 DEF GateEof
<1>34. CASE Forks
    BY <1>34 DEF Forks
<1>35. CASE Exits
    BY <1>35 DEF Exits
<1>36. CASE RecoveryLooks
    BY <1>36 DEF RecoveryLooks
<1>37. CASE RecoveryEnds
    BY <1>37 DEF RecoveryEnds
<1>38. CASE RecoveryKills
    BY <1>38 DEF RecoveryKills
<1>39. CASE UNCHANGED vars
    BY <1>39 DEF vars
<1> QED
    BY <1>1, <1>2, <1>3, <1>4, <1>5, <1>6, <1>7, <1>8, <1>9, <1>10, <1>11, <1>12,
       <1>13, <1>14, <1>15, <1>16, <1>17, <1>18, <1>19, <1>20, <1>21, <1>22, <1>23,
       <1>24, <1>25, <1>26, <1>27, <1>28, <1>29, <1>30, <1>31, <1>32, <1>33, <1>34,
       <1>35, <1>36, <1>37, <1>38, <1>39
    DEF Next, Host, Supervisor, Project, Recovery

LEMMA TypesInit == Init => FlagsInv /\ TypesInv /\ FramesInv /\ ReapInv
<1>1. Init => FlagsInv
    BY DEF Init, FlagsInv
<1>2. Init => TypesInv /\ ReapInv
    BY DEF Init, TypesInv, ReapInv, Hosts, Supervisors, Leaders, Ends
<1>3. Init => FramesInv
    BY NoFrames DEF Init, FramesInv, UnreadInv, KindsInv
<1> QED BY <1>1, <1>2, <1>3

LEMMA TypesTyped == FlagsInv /\ TypesInv /\ FramesInv => TypeOK
<1> SUFFICES ASSUME FlagsInv, TypesInv, FramesInv PROVE TypeOK
    OBVIOUS
<1>1. Len(status) \in 0..2
    <2>1. Len(status) \in Nat /\ Len(status) <= 2
        BY DEF FramesInv, UnreadInv
    <2> QED BY <2>1, UpToTwo
<1>2. status \in [1..Len(status) -> Written]
    BY DEF FramesInv, UnreadInv
<1>3. status \in BoundedSeq(Written, 2)
    BY <1>1, <1>2 DEF BoundedSeq, SeqOf
<1> QED BY <1>3, Zenon DEF TypeOK, FlagsInv, TypesInv, Written

(* No frame is lost to a full pipe: at most two are unread, of any start,  *)
(* handle and abort (TypeOK).                                              *)
THEOREM LaunchTypes == Spec => []TypeOK
<1>1. Init => LaunchInv /\ FlagsInv /\ TypesInv /\ FramesInv
    BY InitLaunchInv, TypesInit
<1>2. LaunchInv /\ FlagsInv /\ TypesInv /\ FramesInv /\ [Next]_vars
        => (LaunchInv /\ FlagsInv /\ TypesInv /\ FramesInv)'
    BY StepLaunchInv, FlagsStep, TypesStep, FramesStep
<1> QED BY <1>1, <1>2, TypesTyped, PTL DEF Spec

(* Once the lifetime pipe is closed the supervisor outlives the project,   *)
(* unless it is killed, where no deadline passes and the grace period is   *)
(* short (ClosedLifetimeReaps).                                            *)
THEOREM LifetimeAlwaysReaps ==
    ASSUME ~Slow, ~LongGrace
    PROVE  Spec => []ClosedLifetimeReaps
<1>1. ReapInv => ClosedLifetimeReaps
    BY DEF ReapInv, ClosedLifetimeReaps, ProjectRuns
<1> QED BY <1>1, InitLaunchInv, StepLaunchInv, TypesInit, ReapStep, PTL DEF Spec
=============================================================================
