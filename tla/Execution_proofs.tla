-------------------------- MODULE Execution_proofs --------------------------
(***************************************************************************)
(* The inductive invariant of the runner (ExecutionInvariant.tla) and the  *)
(* safety properties it implies, for any number of runs, any faults and    *)
(* any number of crashes; and that the runner, its store, its backend and  *)
(* startup recovery implement ExecutionContract.tla.                       *)
(*                                                                         *)
(* The types come first, then what a write leaves of a row; then one lemma *)
(* per part of the invariant, each with one case per action or group of    *)
(* actions that touches what the part speaks of; then the theorems.        *)
(*                                                                         *)
(* For the contract, two facts the invariant leaves out are proved first   *)
(* (Traced).  Then one lemma per variable of the contract says how a step  *)
(* of one run moves it, and the theorem puts them together.  The same      *)
(* account of the command proves that a cancellation holds the launch gate.*)
(***************************************************************************)
EXTENDS ExecutionInvariant, TLAPS

(* A terminal reason with an event of its own has been claimed before that *)
(* event is written.                                                       *)
ReasonIsClaimed ==
    \A r \in Runs : pc[r] = "write_reason" => claim[r] \in DOMAIN EventOfClaim

TypeInv == TypeOK /\ ReasonIsClaimed

----------------------------------------------------------------------------
(* Every write of the store stores a row. *)
LEMMA WrittenRowType ==
    ASSUME TypeInv, NEW r \in Runs, pc[r] \in WritePcs
    PROVE  WrittenRow(r) \in Rows
<1>1. row[r] \in Rows BY DEF TypeInv, TypeOK
<1>2. CASE pc[r] = "admit"
      BY <1>1, <1>2 DEF WrittenRow, CreatePending, Rows, Phases, EventTypes
<1>3. CASE pc[r] = "attach"
      BY <1>1, <1>3 DEF WrittenRow, AttachResource, Rows, EventTypes
<1>4. CASE pc[r] = "write_running"
      BY <1>1, <1>4 DEF WrittenRow, MarkRunning, Rows, Phases, EventTypes
<1>5. CASE pc[r] = "settle"
  <2>1. claim[r] \in Claims BY DEF TypeInv, TypeOK
  <2>2. SettledOutcome(r) \in Outcomes
        BY <2>1 DEF SettledOutcome, ClaimStatus, Claims, Outcomes, CommandOutcomes,
                    PreExecutionOutcomes
  <2> QED BY <1>1, <1>5, <2>2 DEF WrittenRow, Finalize, Rows, Phases, EventTypes
<1>6. CASE pc[r] \in EventPcs
  <2>1. PendingEvent(r) \in EventTypes
    <3>1. CASE pc[r] = "write_reason"
          BY <3>1 DEF PendingEvent, EventOfClaim, EventTypes, TypeInv, ReasonIsClaimed
    <3>2. CASE pc[r] # "write_reason"
          BY <1>6, <3>2 DEF PendingEvent, EventAt, EventTypes, EventPcs
    <3> QED BY <3>1, <3>2
  <2>2. WrittenRow(r) = AppendEvent(row[r], PendingEvent(r))
        BY <1>6 DEF WrittenRow, EventPcs
  <2> QED BY <1>1, <2>1, <2>2 DEF AppendEvent, Rows
<1> QED BY <1>2, <1>3, <1>4, <1>5, <1>6 DEF WritePcs

LEMMA WriteType ==
    ASSUME TypeInv, NEW r \in Runs, pc[r] \in WritePcs, WriteOk(r) \/ WriteRaises(r)
    PROVE  row' \in [Runs -> Rows]
BY WrittenRowType DEF WriteOk, WriteRaises, TypeInv, TypeOK

LEMMA MovedType ==
    ASSUME NEW s \in RunStates \cup {"illegal"}, NEW target \in RunStates
    PROVE  Moved(s, target) \in RunStates \cup {"illegal"}
BY DEF Moved

(* Among the terminal candidates of one wake-up there is a best one.       *)
LEMMA BestExists ==
    ASSUME NEW S \in SUBSET (Claims \ {"none"}), S # {}
    PROVE  Best(S) \in S
<1> DEFINE Minimal(c) == \A other \in S : Rank[c] <= Rank[other]
<1>1. \A c \in S : c \in {"exit_zero", "exit_nonzero", "exit_no_code", "output_limit",
                         "resource_limit", "cancellation", "timeout"}
      BY DEF Claims
<1>2. \A c \in S : /\ Rank[c] \in 0..4
                   /\ Rank[c] = 0 <=> c \in NaturalExits
                   /\ Rank[c] = 1 <=> c = "output_limit"
                   /\ Rank[c] = 2 <=> c = "resource_limit"
                   /\ Rank[c] = 3 <=> c = "cancellation"
                   /\ Rank[c] = 4 <=> c = "timeout"
      BY <1>1 DEF Rank, NaturalExits
<1>3. CASE \E c \in S : c \in NaturalExits
  <2>1. PICK c \in S : c \in NaturalExits BY <1>3
  <2>2. Minimal(c) BY <1>2, <2>1
  <2> QED BY <2>2 DEF Best
<1>4. CASE \A c \in S : c \notin NaturalExits
  <2>1. \E c \in S : Minimal(c)
    <3>1. CASE "output_limit" \in S
      <4>1. Minimal("output_limit") BY <1>2, <1>4, <3>1
      <4> QED BY <3>1, <4>1
    <3>2. CASE "output_limit" \notin S /\ "resource_limit" \in S
      <4>1. Minimal("resource_limit") BY <1>2, <1>4, <3>2
      <4> QED BY <3>2, <4>1
    <3>3. CASE "output_limit" \notin S /\ "resource_limit" \notin S /\ "cancellation" \in S
      <4>1. Minimal("cancellation") BY <1>2, <1>4, <3>3
      <4> QED BY <3>3, <4>1
    <3>4. CASE "output_limit" \notin S /\ "resource_limit" \notin S /\ "cancellation" \notin S
      <4>1. "timeout" \in S BY <1>1, <1>4, <3>4 DEF NaturalExits
      <4>2. Minimal("timeout") BY <1>1, <1>2, <1>4, <3>4 DEF NaturalExits
      <4> QED BY <4>1, <4>2
    <3> QED BY <3>1, <3>2, <3>3, <3>4
  <2> QED BY <2>1 DEF Best
<1> QED BY <1>3, <1>4

LEMMA InitTypeInv == Init => TypeInv
BY CrashesAssumption DEF Init, TypeInv, TypeOK, ReasonIsClaimed, Pcs, StopPcs, RunStates, Cleanups,
   Decisions, Rows, NoRow, Phases, Processes, Exits, Claims, Routes

(* What the helpers of the actions leave has its type. *)
LEMMA EnterType ==
    ASSUME TypeInv, NEW r \in Runs
    PROVE  /\ \A t \in RunStates : Enter(r, t) => state' \in [Runs -> RunStates \cup {"illegal"}]
           /\ \A t, u \in RunStates :
                 EnterBoth(r, t, u) => state' \in [Runs -> RunStates \cup {"illegal"}]
BY MovedType DEF Enter, EnterBoth, TypeInv, TypeOK, Moved

LEMMA LeavesType ==
    ASSUME NEW p \in Processes
    PROVE  StopLeaves(p) \subseteq Processes /\ AbortLeaves(p) \subseteq Processes
BY DEF StopLeaves, AbortLeaves, Processes

LEMMA CleanupType == \A p : CleanupResults(p) \subseteq Cleanups
BY DEF CleanupResults, Cleanups

LEMMA SettledType ==
    ASSUME TypeInv, NEW r \in Runs
    PROVE  /\ SettledAnswer(r) \in Statuses \cup Errors
           /\ SettledStage(r) \in Statuses \cup {"none"}
<1>1. claim[r] \in Claims /\ stage[r] \in Statuses \cup {"none"}
      BY DEF TypeInv, TypeOK
<1>2. ClaimStatus[claim[r]] \in Statuses
      BY <1>1 DEF ClaimStatus, Claims, Statuses
<1> QED BY <1>1, <1>2 DEF SettledAnswer, SettledStage, Statuses, Errors

LEMMA RecoveryType ==
    ASSUME TypeInv, NEW r \in Runs, NEW case \in RecoveryCases(r)
    PROVE  /\ case[1] \in RecoveryOutcomes
           /\ case[2] \in Processes
           /\ AppendEvent(row[r], "recovery_started") \in Rows
           /\ RecoveredRow(r, case[1]) \in Rows
<1>1. row[r] \in Rows /\ proc[r] \in Processes BY DEF TypeInv, TypeOK
<1>2. case[1] \in RecoveryOutcomes /\ case[2] \in Processes
      BY <1>1 DEF RecoveryCases, RecoveryOutcomes, Processes
<1>3. AppendEvent(row[r], "recovery_started") \in Rows
      BY <1>1 DEF AppendEvent, Rows, EventTypes
<1> QED BY <1>2, <1>3 DEF RecoveredRow, Finalize, Rows, Phases, EventTypes, Outcomes

(* The winning candidate of a wake-up is a claim, and one that is not an   *)
(* exit has an event.                                                      *)
LEMMA WinnerType ==
    ASSUME TypeInv, NEW r \in Runs, NEW done \in (SUBSET Ready(r)) \ {{}}
    PROVE  LET winner == Best({Candidate(r, s) : s \in done})
           IN  /\ winner \in Claims
               /\ winner \in NaturalExits \/ winner \in DOMAIN EventOfClaim
<1>1. \A s : Candidate(r, s) \in Claims \ {"none"}
      BY DEF Candidate, Claims
<1>2. {Candidate(r, s) : s \in done} \in SUBSET (Claims \ {"none"})
      BY <1>1
<1>3. {Candidate(r, s) : s \in done} # {}
  <2>1. done # {} OBVIOUS
  <2>2. PICK s \in done : TRUE BY <2>1
  <2> QED BY <2>2
<1>4. Best({Candidate(r, s) : s \in done}) \in Claims \ {"none"}
      BY <1>2, <1>3, BestExists
<1> QED BY <1>4 DEF Claims, NaturalExits, EventOfClaim

(* No action leaves the types, each taken on its own. *)
LEMMA StepTypeInv == TypeInv /\ [Next]_vars => TypeInv'
<1> SUFFICES ASSUME TypeInv, [Next]_vars PROVE TypeInv'
    OBVIOUS
<1> USE DEF TypeInv, TypeOK, ReasonIsClaimed, At, Goto, SettleAs, Return,
            CancelBeforeStart, PublishTerminal, Pcs, WritePcs, EventPcs, StopPcs,
            volatile, world
<1>1. ASSUME NEW r \in Runs,
             \/ Submit(r) \/ Proceed(r) \/ GateAnswers(r) \/ GateRaises(r)
             \/ TimerFires(r) \/ Command(r)
             \/ Cancel(r) \/ RecordCancellation(r) \/ HardCancel(r)
             \/ RecoverRow(r) \/ RecoveryAborts(r)
      PROVE  TypeInv'
  <2>1. CASE Submit(r)
        BY <2>1 DEF Submit, Decisions
  <2>2. CASE Admit(r)
        BY <2>2, WriteType, EnterType DEF Admit, Routes, RunStates
  <2>3. CASE AdmissionFails(r)
        BY <2>3, WriteType DEF AdmissionFails, Errors
  <2>4. CASE Denied(r)
        BY <2>4, WriteType, EnterType DEF Denied, Routes, RunStates
  <2>5. CASE Allowed(r)
        BY <2>5, WriteType, EnterType DEF Allowed, Routes, RunStates
  <2>6. CASE ApprovalRequested(r)
        BY <2>6, WriteType DEF ApprovalRequested
  <2>7. CASE GateAnswers(r)
        BY <2>7 DEF GateAnswers, Routes
  <2>8. CASE GateRaises(r)
        BY <2>8 DEF GateRaises, Errors
  <2>9. CASE VerdictStored(r)
        BY <2>9, WriteType, EnterType DEF VerdictStored, Routes, RunStates
  <2>10. CASE PreStartEventLost(r)
        BY <2>10, WriteType, EnterType DEF PreStartEventLost, Routes, RunStates
  <2>11. CASE StartingStored(r)
        BY <2>11, WriteType, EnterType DEF StartingStored, Routes, RunStates
  <2>12. CASE StartingEventLost(r)
        BY <2>12, WriteType, EnterType DEF StartingEventLost, Routes, RunStates
  <2>13. CASE BackendDrifted(r)
        BY <2>13 DEF BackendDrifted, Errors
  <2>14. CASE Spawn(r)
        BY <2>14 DEF Spawn, Processes
  <2>15. CASE SpawnEnds(r)
    <3>1. state' \in [Runs -> RunStates \cup {"illegal"}]
          BY <2>15, EnterType DEF SpawnEnds, RunStates
    <3>2. PICK why \in Routes : SettleAs(r, why)
          BY <2>15 DEF SpawnEnds, Routes
    <3>3. route' \in [Runs -> Routes] /\ pc' \in [Runs -> Pcs]
          BY <3>2
    <3>4. ReasonIsClaimed'
          BY <2>15, <3>2 DEF SpawnEnds
    <3> QED BY <2>15, <3>1, <3>3, <3>4 DEF SpawnEnds
  <2>16. CASE Attach(r)
        BY <2>16, WriteType, EnterType, LeavesType DEF Attach, Routes, RunStates, Processes
  <2>17. CASE AttachFails(r)
        BY <2>17, WriteType, EnterType, LeavesType DEF AttachFails, Routes, RunStates
  <2>18. CASE Started(r)
        BY <2>18 DEF Started
  <2>19. CASE ReleaseEnds(r)
        BY <2>19, EnterType, LeavesType DEF ReleaseEnds, Routes, RunStates
  <2>20. CASE MarkedRunning(r)
        BY <2>20, WriteType, EnterType DEF MarkedRunning, RunStates
  <2>21. CASE MarkRunningFails(r)
        BY <2>21, WriteType DEF MarkRunningFails
  <2>22. CASE UndoStart(r)
        BY <2>22, LeavesType DEF UndoStart, Errors
  <2>23. CASE TimerFires(r)
        BY <2>23 DEF TimerFires
  <2>24. CASE ChooseTerminal(r)
    <3>1. PICK done \in (SUBSET Ready(r)) \ {{}} :
             LET winner == Best({Candidate(r, s) : s \in done}) IN
             /\ claim' = [claim EXCEPT ![r] = winner]
             /\ IF winner \in NaturalExits
                THEN Goto(r, "reclaim") /\ UNCHANGED state
                ELSE Goto(r, "write_reason") /\ Enter(r, "terminating")
          BY <2>24 DEF ChooseTerminal
    <3> DEFINE winner == Best({Candidate(r, s) : s \in done})
    <3>2. winner \in Claims /\ (winner \in NaturalExits \/ winner \in DOMAIN EventOfClaim)
          BY WinnerType
    <3>3. state' \in [Runs -> RunStates \cup {"illegal"}]
          BY <3>1, EnterType DEF RunStates
    <3> HIDE DEF winner
    <3>4. /\ claim' = [claim EXCEPT ![r] = winner]
          /\ \/ winner \in NaturalExits /\ Goto(r, "reclaim")
             \/ winner \notin NaturalExits /\ Goto(r, "write_reason")
          BY <3>1 DEF winner
    <3> QED BY <2>24, <3>2, <3>3, <3>4 DEF ChooseTerminal
  <2>25. CASE RuntimeEvent(r)
        BY <2>25, WriteType DEF RuntimeEvent
  <2>26. CASE EvidenceLost(r)
        BY <2>26, WriteType DEF EvidenceLost
  <2>27. CASE Terminate(r)
        BY <2>27, LeavesType DEF Terminate
  <2>28. CASE Reclaim(r)
        BY <2>28, EnterType, CleanupType DEF Reclaim, Cleanups, Routes, RunStates
  <2>29. CASE Salvage(r)
        BY <2>29, LeavesType, CleanupType DEF Salvage, Routes
  <2>41. CASE CleanupHangs(r)
        BY <2>41, LeavesType DEF CleanupHangs
  <2>30. CASE Settle(r)
        BY <2>30, WriteType, EnterType, SettledType DEF Settle, Errors, RunStates
  <2>31. CASE SettleFails(r)
    <3>1. row' \in [Runs -> Rows]
          BY <2>31, WriteType DEF SettleFails
    <3>2. /\ state' \in [Runs -> RunStates \cup {"illegal"}]
          /\ stage' \in [Runs -> Statuses \cup {"none"}]
          BY <2>31, EnterType DEF SettleFails, RunStates, Statuses
    <3>3. \E e \in Errors : Return(r, e)
          BY <2>31 DEF SettleFails, Errors
    <3> QED BY <2>31, <3>1, <3>2, <3>3 DEF SettleFails
  <2>32. CASE Exec(r)
        BY <2>32 DEF Exec, Processes
  <2>33. CASE CommandExits(r)
        BY <2>33 DEF CommandExits, Exits, Processes
  <2>34. CASE SupervisorDies(r)
        BY <2>34 DEF SupervisorDies, Exits, Processes
  <2>35. CASE OrphanStops(r)
        BY <2>35 DEF OrphanStops, Processes
  <2>36. CASE Cancel(r)
        BY <2>36 DEF Cancel
  <2>37. CASE RecordCancellation(r)
    <3>1. row[r] \in Rows /\ "cancellation_requested" \in EventTypes
          BY DEF EventTypes
    <3>2. AppendEvent(row[r], "cancellation_requested") \in Rows
          BY <3>1 DEF AppendEvent, Rows
    <3> QED BY <2>37, <3>2 DEF RecordCancellation
  <2>38. CASE HardCancel(r)
        BY <2>38, WriteType, LeavesType DEF HardCancel, Errors
  <2>39. CASE RecoverRow(r)
        BY <2>39, RecoveryType DEF RecoverRow
  <2>40. CASE RecoveryAborts(r)
        BY <2>40, RecoveryType DEF RecoveryAborts
  <2> QED
      BY <1>1, <2>1, <2>2, <2>3, <2>4, <2>5, <2>6, <2>7, <2>8, <2>9, <2>10,
         <2>11, <2>12, <2>13, <2>14, <2>15, <2>16, <2>17, <2>18, <2>19,
         <2>20, <2>21, <2>22, <2>23, <2>24, <2>25, <2>26, <2>27, <2>28,
         <2>29, <2>30, <2>31, <2>32, <2>33, <2>34, <2>35, <2>36, <2>37,
         <2>38, <2>39, <2>40, <2>41 DEF Proceed, Command
<1>2. CASE Crash
  <2>1. pc' \in [Runs -> Pcs] /\ \A r \in Runs : pc'[r] # "write_reason"
        BY <1>2 DEF Crash
  <2>2. proc' \in [Runs -> Processes]
        BY <1>2 DEF Crash, Processes
  <2>3. crashes' \in 0..MaxCrashes
        BY <1>2, CrashesAssumption DEF Crash
  <2> QED BY <1>2, <2>1, <2>2, <2>3 DEF Crash
<1>3. CASE Boot
      BY <1>3 DEF Boot
<1>4. CASE BootEnds
      BY <1>4 DEF BootEnds
<1>5. CASE UNCHANGED vars
      BY <1>5 DEF vars
<1> QED BY <1>1, <1>2, <1>3, <1>4, <1>5 DEF Next

(* Every variable keeps its type, with any number of runs, faults and      *)
(* crashes.                                                                *)
THEOREM TypeCorrect == Spec => []TypeOK
<1>1. Spec => []TypeInv
      BY InitTypeInv, StepTypeInv, PTL DEF Spec
<1> QED BY <1>1, PTL DEF TypeInv

----------------------------------------------------------------------------
Written(r) == WriteOk(r) \/ WriteRaises(r)

----------------------------------------------------------------------------
(* What a write leaves of the row. *)

LEMMA WriteCases ==
    ASSUME NEW r \in Runs
    PROVE  /\ pc[r] = "admit" =>
                 /\ Accepted(r) <=> row[r].phase = "absent"
                 /\ WrittenRow(r) = CreatePending(row[r])
           /\ pc[r] = "attach" =>
                 /\ Accepted(r) <=> CanAttach(row[r])
                 /\ WrittenRow(r) = AttachResource(row[r])
           /\ pc[r] = "write_running" =>
                 /\ Accepted(r) <=> CanMarkRunning(row[r])
                 /\ WrittenRow(r) = MarkRunning(row[r])
           /\ pc[r] = "settle" =>
                 /\ Accepted(r) <=> CanFinalize(row[r], IF CommandStarted(r) THEN "yes" ELSE "no",
                                                NamesResource(r))
                 /\ WrittenRow(r) = Finalize(row[r], SettledOutcome(r))
           /\ pc[r] \in EventPcs =>
                 /\ Accepted(r) <=> CanAppend(row[r])
                 /\ WrittenRow(r) = AppendEvent(row[r], PendingEvent(r))
<1>1. CASE pc[r] = "admit" BY <1>1 DEF Accepted, WrittenRow, EventPcs
<1>2. CASE pc[r] = "attach" BY <1>2 DEF Accepted, WrittenRow, EventPcs
<1>3. CASE pc[r] = "write_running" BY <1>3 DEF Accepted, WrittenRow, EventPcs
<1>4. CASE pc[r] = "settle" BY <1>4 DEF Accepted, WrittenRow, EventPcs
<1>5. CASE pc[r] \in EventPcs BY <1>5 DEF Accepted, WrittenRow, EventPcs
<1> QED BY <1>1, <1>2, <1>3, <1>4, <1>5

(* An event changes nothing of a row but its trail. *)
LEMMA EventWrite ==
    ASSUME TypeInv, NEW r \in Runs, pc[r] \in EventPcs, Written(r)
    PROVE  /\ row'[r].phase = row[r].phase
           /\ row'[r].outcome = row[r].outcome
           /\ row'[r].resource = row[r].resource
           /\ row[r].trail \subseteq row'[r].trail
           /\ row'[r].trail \subseteq row[r].trail \cup {PendingEvent(r)}
           /\ WriteOk(r) => PendingEvent(r) \in row'[r].trail
           /\ row'[r] # row[r] => Nonterminal(row[r])
<1>1. row[r] \in Rows /\ row \in [Runs -> Rows] BY DEF TypeInv, TypeOK
<1>2. /\ row'[r] \in {row[r], AppendEvent(row[r], PendingEvent(r))}
      /\ row'[r] # row[r] => Accepted(r)
      /\ WriteOk(r) => row'[r] = AppendEvent(row[r], PendingEvent(r))
      BY <1>1, WriteCases DEF Written, WriteOk, WriteRaises
<1>3. /\ AppendEvent(row[r], PendingEvent(r)).phase = row[r].phase
      /\ AppendEvent(row[r], PendingEvent(r)).outcome = row[r].outcome
      /\ AppendEvent(row[r], PendingEvent(r)).resource = row[r].resource
      /\ AppendEvent(row[r], PendingEvent(r)).trail = row[r].trail \cup {PendingEvent(r)}
      BY <1>1 DEF AppendEvent, Rows
<1> QED BY <1>2, <1>3, WriteCases DEF CanAppend

LEMMA AdmitWrite ==
    ASSUME TypeInv, NEW r \in Runs, pc[r] = "admit", row[r] = NoRow, Written(r)
    PROVE  /\ row'[r] = NoRow \/ row'[r].phase = "pending"
           /\ WriteOk(r) => row'[r].phase = "pending"
           /\ row'[r].outcome = "none" /\ ~row'[r].resource
           /\ row'[r].trail \subseteq {"run_created"}
<1>1. row[r] \in Rows /\ row \in [Runs -> Rows] BY DEF TypeInv, TypeOK
<1>2. /\ row'[r] \in {row[r], CreatePending(row[r])}
      /\ WriteOk(r) => row'[r] = CreatePending(row[r])
      BY <1>1, WriteCases DEF Written, WriteOk, WriteRaises
<1>3. /\ CreatePending(row[r]).phase = "pending"
      /\ CreatePending(row[r]).outcome = row[r].outcome
      /\ CreatePending(row[r]).resource = row[r].resource
      /\ CreatePending(row[r]).trail = {"run_created"}
      BY <1>1 DEF CreatePending, Rows
<1>4. row[r].outcome = "none" /\ ~row[r].resource /\ row[r].trail = {}
      BY DEF NoRow
<1> QED BY <1>2, <1>3, <1>4

LEMMA AttachWrite ==
    ASSUME TypeInv, NEW r \in Runs, pc[r] = "attach", Written(r)
    PROVE  /\ row'[r].phase = row[r].phase
           /\ row'[r].outcome = row[r].outcome
           /\ row[r].resource => row'[r].resource
           /\ row[r].trail \subseteq row'[r].trail
           /\ row'[r].trail \subseteq row[r].trail \cup {"resource_reserved"}
           /\ WriteOk(r) => row'[r].resource
           /\ row'[r] # row[r] => Nonterminal(row[r])
<1>1. row[r] \in Rows /\ row \in [Runs -> Rows] BY DEF TypeInv, TypeOK
<1>2. /\ row'[r] \in {row[r], AttachResource(row[r])}
      /\ row'[r] # row[r] => CanAttach(row[r])
      /\ WriteOk(r) => row'[r] = AttachResource(row[r])
      BY <1>1, WriteCases DEF Written, WriteOk, WriteRaises
<1>3. /\ AttachResource(row[r]).phase = row[r].phase
      /\ AttachResource(row[r]).outcome = row[r].outcome
      /\ AttachResource(row[r]).resource
      /\ AttachResource(row[r]).trail = row[r].trail \cup {"resource_reserved"}
      BY <1>1 DEF AttachResource, Rows
<1> QED BY <1>2, <1>3 DEF CanAttach

LEMMA RunningWrite ==
    ASSUME TypeInv, NEW r \in Runs, pc[r] = "write_running", Written(r)
    PROVE  /\ row'[r].phase \in {row[r].phase, "running"}
           /\ row'[r].outcome = row[r].outcome
           /\ row'[r].resource = row[r].resource
           /\ row[r].trail \subseteq row'[r].trail
           /\ row'[r].trail \subseteq row[r].trail \cup {"backend_started"}
           /\ WriteOk(r) => row'[r].phase = "running"
           /\ row'[r] # row[r] => row[r].phase = "pending" /\ row[r].resource
<1>1. row[r] \in Rows /\ row \in [Runs -> Rows] BY DEF TypeInv, TypeOK
<1>2. /\ row'[r] \in {row[r], MarkRunning(row[r])}
      /\ row'[r] # row[r] => CanMarkRunning(row[r])
      /\ WriteOk(r) => row'[r] = MarkRunning(row[r])
      BY <1>1, WriteCases DEF Written, WriteOk, WriteRaises
<1>3. /\ MarkRunning(row[r]).phase = "running"
      /\ MarkRunning(row[r]).outcome = row[r].outcome
      /\ MarkRunning(row[r]).resource = row[r].resource
      /\ MarkRunning(row[r]).trail = row[r].trail \cup {"backend_started"}
      BY <1>1 DEF MarkRunning, Rows
<1> QED BY <1>2, <1>3 DEF CanMarkRunning

LEMMA SettleWrite ==
    ASSUME TypeInv, NEW r \in Runs, pc[r] = "settle", Written(r)
    PROVE  /\ row'[r] = row[r] \/ /\ row'[r].phase = "terminal"
                                   /\ row'[r].outcome = SettledOutcome(r)
                                   /\ Nonterminal(row[r])
           /\ row'[r].resource = row[r].resource
           /\ row[r].trail \subseteq row'[r].trail
           /\ row'[r].trail \subseteq row[r].trail \cup {"run_finalized"}
           /\ WriteOk(r) => row'[r].phase = "terminal" /\ row'[r].outcome = SettledOutcome(r)
<1>1. row[r] \in Rows /\ row \in [Runs -> Rows] BY DEF TypeInv, TypeOK
<1>2. /\ row'[r] \in {row[r], Finalize(row[r], SettledOutcome(r))}
      /\ row'[r] # row[r] => Nonterminal(row[r])
      /\ WriteOk(r) => row'[r] = Finalize(row[r], SettledOutcome(r))
      BY <1>1, WriteCases DEF Written, WriteOk, WriteRaises, CanFinalize
<1>3. /\ Finalize(row[r], SettledOutcome(r)).phase = "terminal"
      /\ Finalize(row[r], SettledOutcome(r)).outcome = SettledOutcome(r)
      /\ Finalize(row[r], SettledOutcome(r)).resource = row[r].resource
      /\ Finalize(row[r], SettledOutcome(r)).trail = row[r].trail \cup {"run_finalized"}
      BY <1>1 DEF Finalize, Rows
<1> QED BY <1>2, <1>3

(* A recorded cancellation is an event like any other. *)
LEMMA CancellationWrite ==
    ASSUME TypeInv, NEW r \in Runs, RecordCancellation(r)
    PROVE  /\ row'[r].phase = row[r].phase
           /\ row'[r].outcome = row[r].outcome
           /\ row'[r].resource = row[r].resource
           /\ row[r].trail \subseteq row'[r].trail
           /\ row'[r].trail \subseteq row[r].trail \cup {"cancellation_requested"}
           /\ row'[r] # row[r] => Nonterminal(row[r])
<1>1. row[r] \in Rows /\ row \in [Runs -> Rows] BY DEF TypeInv, TypeOK
<1>2. /\ row'[r] \in {row[r], AppendEvent(row[r], "cancellation_requested")}
      /\ row'[r] # row[r] => Nonterminal(row[r])
      BY <1>1 DEF RecordCancellation, CanAppend
<1>3. /\ AppendEvent(row[r], "cancellation_requested").phase = row[r].phase
      /\ AppendEvent(row[r], "cancellation_requested").outcome = row[r].outcome
      /\ AppendEvent(row[r], "cancellation_requested").resource = row[r].resource
      /\ AppendEvent(row[r], "cancellation_requested").trail
            = row[r].trail \cup {"cancellation_requested"}
      BY <1>1 DEF AppendEvent, Rows
<1> QED BY <1>2, <1>3

(* Recovery leaves a row as it was, or with a verdict of recovery. *)
LEMMA RecoveryWrite ==
    ASSUME TypeInv, NEW r \in Runs, RecoverRow(r) \/ RecoveryAborts(r)
    PROVE  \E case \in RecoveryCases(r) :
             /\ \/ row'[r].phase = row[r].phase /\ row'[r].outcome = row[r].outcome
                \/ row'[r].phase = "terminal" /\ row'[r].outcome = case[1]
             /\ row'[r].resource = row[r].resource
             /\ row[r].trail \subseteq row'[r].trail
             /\ row'[r].trail \subseteq row[r].trail \cup {"recovery_started", "run_finalized"}
             /\ proc'[r] \in {proc[r], case[2]}
             /\ row'[r].phase = "terminal" /\ row[r].phase # "terminal" => proc'[r] = case[2]
<1>1. row[r] \in Rows /\ row \in [Runs -> Rows] /\ proc \in [Runs -> Processes]
      BY DEF TypeInv, TypeOK
<1>2. \A o : /\ AppendEvent(row[r], "recovery_started").phase = row[r].phase
              /\ AppendEvent(row[r], "recovery_started").outcome = row[r].outcome
              /\ AppendEvent(row[r], "recovery_started").resource = row[r].resource
              /\ AppendEvent(row[r], "recovery_started").trail
                   = row[r].trail \cup {"recovery_started"}
              /\ RecoveredRow(r, o).phase = "terminal"
              /\ RecoveredRow(r, o).outcome = o
              /\ RecoveredRow(r, o).resource = row[r].resource
              /\ RecoveredRow(r, o).trail
                   = row[r].trail \cup {"recovery_started", "run_finalized"}
      BY <1>1 DEF AppendEvent, RecoveredRow, Finalize, Rows
<1>3. CASE RecoverRow(r)
  <2>1. PICK case \in RecoveryCases(r) :
           /\ row' = [row EXCEPT ![r] = RecoveredRow(r, case[1])]
           /\ proc' = [proc EXCEPT ![r] = case[2]]
        BY <1>3 DEF RecoverRow
  <2> QED BY <1>1, <1>2, <2>1
<1>4. CASE RecoveryAborts(r)
  <2>1. PICK case \in RecoveryCases(r) :
           /\ row' \in {row, [row EXCEPT ![r] = AppendEvent(@, "recovery_started")]}
                      \cup (IF "write_late" \in Faults
                            THEN {[row EXCEPT ![r] = RecoveredRow(r, case[1])]} ELSE {})
           /\ proc' \in {[proc EXCEPT ![r] = case[2]]}
                       \cup (IF row'[r].phase = "terminal" THEN {} ELSE {proc})
        BY <1>4 DEF RecoveryAborts
  <2>2. row'[r] \in {row[r], AppendEvent(row[r], "recovery_started"), RecoveredRow(r, case[1])}
        BY <1>1, <2>1
  <2>3. /\ proc'[r] \in {proc[r], case[2]}
        /\ row'[r].phase = "terminal" => proc'[r] = case[2]
        BY <1>1, <2>1
  <2> QED BY <1>2, <2>2, <2>3
<1> QED BY <1>3, <1>4

LEMMA OutcomeType ==
    ASSUME TypeInv, NEW r \in Runs
    PROVE  SettledOutcome(r) \in Outcomes
<1>1. claim[r] \in Claims BY DEF TypeInv, TypeOK
<1> QED BY <1>1 DEF SettledOutcome, ClaimStatus, Claims, Outcomes, CommandOutcomes,
                    PreExecutionOutcomes

(* Which event is stored where. *)
LEMMA EventFacts ==
    ASSUME TypeInv, NEW r \in Runs, pc[r] \in EventPcs
    PROVE  /\ pc[r] = "write_allowed" => PendingEvent(r) = "policy_allowed"
           /\ pc[r] = "write_starting" => PendingEvent(r) = "backend_starting"
           /\ pc[r] = "write_verdict" /\ route[r] # "rejected"
                 => PendingEvent(r) = "approval_granted"
           /\ pc[r] # "write_verdict" => PendingEvent(r) # "approval_rejected"
<1>1. CASE pc[r] = "write_reason"
      BY <1>1 DEF PendingEvent, EventOfClaim, TypeInv, ReasonIsClaimed
<1>2. CASE pc[r] = "write_verdict"
      BY <1>2 DEF PendingEvent, EventAt
<1>3. CASE pc[r] \in EventPcs \ {"write_reason", "write_verdict"}
      BY <1>3 DEF PendingEvent, EventAt, EventPcs
<1> QED BY <1>1, <1>2, <1>3

(* What stopping or aborting leaves of a command. *)
LEMMA LeavesWhat ==
    ASSUME NEW p \in Processes
    PROVE  /\ \A q \in StopLeaves(p) : q = p \/ (p = "live" /\ q = "dead")
           /\ \A q \in AbortLeaves(p) :
                 /\ p \in {"gated", "released"} => q = "dead"
                 /\ p = "live" => q = "dead" \/ (q = "stray" /\ "leak" \in Faults)
                 /\ p \notin {"gated", "released", "live"} => q = p
<1>1. \A q \in StopLeaves(p) : q = p \/ (p = "live" /\ q = "dead")
  <2>1. CASE p = "live" /\ "stuck" \in Faults
        BY <2>1 DEF StopLeaves
  <2>2. CASE p = "live" /\ "stuck" \notin Faults
        BY <2>2 DEF StopLeaves
  <2>3. CASE p # "live"
        BY <2>3 DEF StopLeaves
  <2> QED BY <2>1, <2>2, <2>3
<1>2. CASE p \in {"gated", "released"}
      BY <1>1, <1>2 DEF AbortLeaves
<1>3. CASE p = "live"
  <2>1. CASE "leak" \in Faults
        BY <1>1, <1>3, <2>1 DEF AbortLeaves
  <2>2. CASE "leak" \notin Faults
        BY <1>1, <1>3, <2>2 DEF AbortLeaves
  <2> QED BY <2>1, <2>2
<1>4. CASE p \notin {"gated", "released", "live"}
      BY <1>1, <1>4 DEF AbortLeaves
<1> QED BY <1>2, <1>3, <1>4

(* A task cancelled in the middle of a write may leave the write behind.   *)
LEMMA HardCancelLeaves ==
    ASSUME TypeInv, NEW r \in Runs, HardCancel(r), RowAt(r)
    PROVE  /\ row'[r] = row[r] \/ (pc[r] \in WritePcs /\ WriteOk(r))
           /\ row[r].resource => row'[r].resource
           /\ row[r].trail \subseteq row'[r].trail
           /\ pc[r] # "write_verdict" => "approval_rejected" \notin row'[r].trail \ row[r].trail
           /\ \/ proc'[r] = proc[r] /\ pc[r] # "attach"
              \/ pc[r] = "attach" /\ proc'[r] \in AbortLeaves(proc[r])
<1>1. row' = row \/ (pc[r] \in WritePcs /\ WriteOk(r))
      BY DEF HardCancel, At
<1>2. \/ proc'[r] = proc[r] /\ pc[r] # "attach"
      \/ pc[r] = "attach" /\ proc'[r] \in AbortLeaves(proc[r])
      BY DEF HardCancel, At, TypeInv, TypeOK
<1> USE DEF Written
<1>3. CASE row' = row
      BY <1>2, <1>3 DEF TypeInv, TypeOK
<1>4. CASE pc[r] \in EventPcs /\ WriteOk(r)
      BY <1>1, <1>2, <1>4, EventWrite, EventFacts
<1>5. CASE pc[r] = "admit" /\ WriteOk(r)
      BY <1>1, <1>2, <1>5, AdmitWrite DEF RowAt, BeforeAdmission, NoRow
<1>6. CASE pc[r] = "attach" /\ WriteOk(r)
      BY <1>1, <1>2, <1>6, AttachWrite
<1>7. CASE pc[r] = "write_running" /\ WriteOk(r)
      BY <1>1, <1>2, <1>7, RunningWrite
<1>8. CASE pc[r] = "settle" /\ WriteOk(r)
      BY <1>1, <1>2, <1>8, SettleWrite
<1> QED BY <1>1, <1>3, <1>4, <1>5, <1>6, <1>7, <1>8 DEF WritePcs

----------------------------------------------------------------------------
(* Runs do not touch each other. *)
StepOf(r) ==
    \/ Submit(r) \/ Proceed(r) \/ GateAnswers(r) \/ GateRaises(r)
    \/ TimerFires(r) \/ Command(r)
    \/ Cancel(r) \/ RecordCancellation(r) \/ HardCancel(r)
    \/ RecoverRow(r) \/ RecoveryAborts(r)

Same(s) ==
    /\ pc'[s] = pc[s] /\ state'[s] = state[s] /\ decision'[s] = decision[s]
    /\ row'[s] = row[s] /\ proc'[s] = proc[s] /\ exit'[s] = exit[s]
    /\ timers'[s] = timers[s] /\ claim'[s] = claim[s] /\ clean'[s] = clean[s]
    /\ route'[s] = route[s] /\ stage'[s] = stage[s] /\ answer'[s] = answer[s]
    /\ s \in attached' <=> s \in attached
    /\ s \in launched' <=> s \in launched
    /\ s \in cancelled => s \in cancelled'

LEMMA OthersSame ==
    ASSUME TypeInv, NEW r \in Runs, StepOf(r), NEW s \in Runs \ {r}
    PROVE  Same(s)
<1> USE DEF TypeInv, TypeOK, Same, Goto, SettleAs, Return, CancelBeforeStart,
            PublishTerminal, Enter, EnterBoth, WriteOk, WriteRaises, volatile
<1>1. CASE Submit(r)
      BY <1>1 DEF Submit
<1>2. CASE Admit(r)
      BY <1>2 DEF Admit
<1>3. CASE AdmissionFails(r)
      BY <1>3 DEF AdmissionFails
<1>4. CASE Denied(r)
      BY <1>4 DEF Denied
<1>5. CASE Allowed(r)
      BY <1>5 DEF Allowed
<1>6. CASE ApprovalRequested(r)
      BY <1>6 DEF ApprovalRequested
<1>7. CASE GateAnswers(r)
      BY <1>7 DEF GateAnswers
<1>8. CASE GateRaises(r)
      BY <1>8 DEF GateRaises
<1>9. CASE VerdictStored(r)
      BY <1>9 DEF VerdictStored
<1>10. CASE PreStartEventLost(r)
      BY <1>10 DEF PreStartEventLost
<1>11. CASE StartingStored(r)
      BY <1>11 DEF StartingStored
<1>12. CASE StartingEventLost(r)
      BY <1>12 DEF StartingEventLost
<1>13. CASE BackendDrifted(r)
      BY <1>13 DEF BackendDrifted
<1>14. CASE Spawn(r)
      BY <1>14 DEF Spawn
<1>15. CASE SpawnEnds(r)
      BY <1>15 DEF SpawnEnds
<1>16. CASE Attach(r)
      BY <1>16 DEF Attach
<1>17. CASE AttachFails(r)
      BY <1>17 DEF AttachFails
<1>18. CASE Started(r)
      BY <1>18 DEF Started
<1>19. CASE ReleaseEnds(r)
      BY <1>19 DEF ReleaseEnds
<1>20. CASE MarkedRunning(r)
      BY <1>20 DEF MarkedRunning
<1>21. CASE MarkRunningFails(r)
      BY <1>21 DEF MarkRunningFails
<1>22. CASE UndoStart(r)
      BY <1>22 DEF UndoStart
<1>23. CASE TimerFires(r)
      BY <1>23 DEF TimerFires
<1>24. CASE ChooseTerminal(r)
      BY <1>24 DEF ChooseTerminal
<1>25. CASE RuntimeEvent(r)
      BY <1>25 DEF RuntimeEvent
<1>26. CASE EvidenceLost(r)
      BY <1>26 DEF EvidenceLost
<1>27. CASE Terminate(r)
      BY <1>27 DEF Terminate
<1>28. CASE Reclaim(r)
      BY <1>28 DEF Reclaim
<1>29. CASE Salvage(r) \/ CleanupHangs(r)
      BY <1>29 DEF Salvage, CleanupHangs
<1>30. CASE Settle(r)
      BY <1>30 DEF Settle
<1>31. CASE SettleFails(r)
      BY <1>31 DEF SettleFails
<1>32. CASE Exec(r)
      BY <1>32 DEF Exec
<1>33. CASE CommandExits(r)
      BY <1>33 DEF CommandExits
<1>34. CASE SupervisorDies(r)
      BY <1>34 DEF SupervisorDies
<1>35. CASE OrphanStops(r)
      BY <1>35 DEF OrphanStops
<1>36. CASE Cancel(r)
      BY <1>36 DEF Cancel
<1>37. CASE RecordCancellation(r)
      BY <1>37 DEF RecordCancellation
<1>38. CASE HardCancel(r)
      BY <1>38 DEF HardCancel
<1>39. CASE RecoverRow(r)
      BY <1>39 DEF RecoverRow
<1>40. CASE RecoveryAborts(r)
      BY <1>40 DEF RecoveryAborts
<1> QED
      BY <1>1, <1>2, <1>3, <1>4, <1>5, <1>6, <1>7, <1>8, <1>9, <1>10,
         <1>11, <1>12, <1>13, <1>14, <1>15, <1>16, <1>17, <1>18, <1>19,
         <1>20, <1>21, <1>22, <1>23, <1>24, <1>25, <1>26, <1>27, <1>28,
         <1>29, <1>30, <1>31, <1>32, <1>33, <1>34, <1>35, <1>36, <1>37,
         <1>38, <1>39, <1>40 DEF StepOf, Proceed, Command

LEMMA SameKeeps ==
    ASSUME NEW s \in Runs, RunInv(s), Same(s)
    PROVE  RunInv(s)'
<1> USE DEF RunInv, Same, CommandStarted
<1>1. LifecycleAt(s)' BY DEF LifecycleAt
<1>2. RowAt(s)' BY DEF RowAt, Nonterminal
<1>3. AuthorityAt(s)' BY DEF AuthorityAt, Authorised
<1>4. CommandAt(s)' BY DEF CommandAt
<1>5. VerdictAt(s)' BY DEF VerdictAt, CleanupUntold
<1>6. CauseAt(s)' BY DEF CauseAt
<1>7. AnswerAt(s)' BY DEF AnswerAt
<1> QED BY <1>1, <1>2, <1>3, <1>4, <1>5, <1>6, <1>7

(* No move of the lifecycle is illegal, whatever the run went through. *)
LEMMA LifecycleStep ==
    ASSUME IInv, TypeInv, NEW r \in Runs, StepOf(r)
    PROVE  LifecycleAt(r)'
<1> USE DEF TypeInv, TypeOK, IInv, RunInv, LifecycleAt, At, Goto, SettleAs,
   Return, CancelBeforeStart, Enter, EnterBoth, Moved, AllowedTransitions,
   RunStates, BeforeAdmission, BeforeLaunch, AfterReservation, volatile
<1>1. CASE Submit(r) \/ ApprovalRequested(r) \/ GateAnswers(r) \/ Spawn(r)
           \/ Started(r) \/ MarkRunningFails(r) \/ RuntimeEvent(r)
           \/ EvidenceLost(r) \/ Terminate(r)
      BY <1>1
      DEF Submit, ApprovalRequested, GateAnswers, Spawn, Started,
         MarkRunningFails, RuntimeEvent, EvidenceLost, Terminate
<1>2. CASE Admit(r)
      BY <1>2 DEF Admit
<1>3. CASE AdmissionFails(r) \/ GateRaises(r) \/ BackendDrifted(r)
           \/ UndoStart(r) \/ HardCancel(r)
      BY <1>3
      DEF AdmissionFails, GateRaises, BackendDrifted, UndoStart, HardCancel
<1>4. CASE Denied(r)
      BY <1>4 DEF Denied
<1>5. CASE Allowed(r)
      BY <1>5 DEF Allowed
<1>6. CASE VerdictStored(r)
      BY <1>6 DEF VerdictStored
<1>7. CASE PreStartEventLost(r)
      BY <1>7 DEF PreStartEventLost
<1>8. CASE StartingStored(r)
      BY <1>8 DEF StartingStored
<1>9. CASE StartingEventLost(r)
      BY <1>9 DEF StartingEventLost
<1>10. CASE SpawnEnds(r)
      BY <1>10 DEF SpawnEnds
<1>11. CASE Attach(r)
      BY <1>11 DEF Attach
<1>12. CASE AttachFails(r)
      BY <1>12 DEF AttachFails
<1>13. CASE ReleaseEnds(r)
      BY <1>13 DEF ReleaseEnds
<1>14. CASE MarkedRunning(r)
      BY <1>14 DEF MarkedRunning
<1>15. CASE TimerFires(r) \/ Exec(r) \/ CommandExits(r)
            \/ SupervisorDies(r) \/ OrphanStops(r) \/ Cancel(r)
            \/ RecordCancellation(r) \/ RecoverRow(r) \/ RecoveryAborts(r)
      BY <1>15
      DEF TimerFires, Exec, CommandExits, SupervisorDies, OrphanStops,
         Cancel, RecordCancellation, RecoverRow, RecoveryAborts
<1>16. CASE ChooseTerminal(r)
      BY <1>16 DEF ChooseTerminal
<1>17. CASE Reclaim(r)
      BY <1>17 DEF Reclaim
<1>18. CASE Salvage(r) \/ CleanupHangs(r)
      BY <1>18 DEF Salvage, CleanupHangs
<1>19. CASE Settle(r)
      BY <1>19 DEF Settle
<1>20. CASE SettleFails(r)
      BY <1>20 DEF SettleFails
<1> QED
      BY <1>1, <1>2, <1>3, <1>4, <1>5, <1>6, <1>7, <1>8, <1>9, <1>10,
         <1>11, <1>12, <1>13, <1>14, <1>15, <1>16, <1>17, <1>18, <1>19,
         <1>20 DEF StepOf, Proceed, Command

(* The row always stands where the run left it. *)
LEMMA RowStep ==
    ASSUME IInv, TypeInv, NEW r \in Runs, StepOf(r)
    PROVE  RowAt(r)'
<1> USE DEF TypeInv, TypeOK, IInv, RunInv, RowAt, At, Goto, SettleAs,
   Return, CancelBeforeStart, Nonterminal, CommandStarted, BeforeAdmission,
   BeforeLaunch, AfterReservation, Supervised, WritePcs, EventPcs, StopPcs,
   volatile
<1>1. CASE Submit(r)
      BY <1>1 DEF Submit
<1>2. CASE Admit(r)
      BY <1>2, AdmitWrite DEF Admit, Written, NoRow
<1>3. CASE AdmissionFails(r)
      BY <1>3, AdmitWrite DEF AdmissionFails, Written, NoRow
<1>4. CASE Denied(r)
      BY <1>4, EventWrite DEF Denied, Written
<1>5. CASE Allowed(r)
      BY <1>5, EventWrite DEF Allowed, Written
<1>6. CASE ApprovalRequested(r)
      BY <1>6, EventWrite DEF ApprovalRequested, Written
<1>7. CASE GateAnswers(r)
      BY <1>7 DEF GateAnswers
<1>8. CASE GateRaises(r) \/ BackendDrifted(r) \/ UndoStart(r)
      BY <1>8 DEF GateRaises, BackendDrifted, UndoStart
<1>9. CASE VerdictStored(r)
      BY <1>9, EventWrite DEF VerdictStored, Written
<1>10. CASE PreStartEventLost(r)
      BY <1>10, EventWrite DEF PreStartEventLost, Written
<1>11. CASE StartingStored(r)
      BY <1>11, EventWrite DEF StartingStored, Written
<1>12. CASE StartingEventLost(r)
      BY <1>12, EventWrite DEF StartingEventLost, Written
<1>13. CASE Spawn(r)
      BY <1>13 DEF Spawn
<1>14. CASE SpawnEnds(r)
      BY <1>14 DEF SpawnEnds
<1>15. CASE Attach(r)
      BY <1>15, AttachWrite DEF Attach, Written
<1>16. CASE AttachFails(r)
      BY <1>16, AttachWrite DEF AttachFails, Written
<1>17. CASE Started(r)
      BY <1>17 DEF Started
<1>18. CASE ReleaseEnds(r)
      BY <1>18 DEF ReleaseEnds
<1>19. CASE MarkedRunning(r)
      BY <1>19, RunningWrite DEF MarkedRunning, Written
<1>20. CASE MarkRunningFails(r)
      BY <1>20, RunningWrite DEF MarkRunningFails, Written
<1>21. CASE TimerFires(r) \/ Exec(r) \/ CommandExits(r)
            \/ SupervisorDies(r) \/ OrphanStops(r) \/ Cancel(r)
      BY <1>21
      DEF TimerFires, Exec, CommandExits, SupervisorDies, OrphanStops,
         Cancel
<1>22. CASE ChooseTerminal(r)
      BY <1>22 DEF ChooseTerminal
<1>23. CASE RuntimeEvent(r)
      BY <1>23, EventWrite DEF RuntimeEvent, Written
<1>24. CASE EvidenceLost(r)
      BY <1>24, EventWrite DEF EvidenceLost, Written
<1>25. CASE Terminate(r)
      BY <1>25 DEF Terminate
<1>26. CASE Reclaim(r)
      BY <1>26 DEF Reclaim
<1>27. CASE Salvage(r) \/ CleanupHangs(r)
      BY <1>27 DEF Salvage, CleanupHangs
<1>28. CASE Settle(r)
      BY <1>28, SettleWrite, OutcomeType
      DEF Settle, Written, Outcomes, CommandOutcomes, PreExecutionOutcomes,
         RecoveryOutcomes
<1>29. CASE SettleFails(r)
      BY <1>29, SettleWrite, OutcomeType
      DEF SettleFails, Written, Outcomes, CommandOutcomes,
         PreExecutionOutcomes, RecoveryOutcomes
<1>30. CASE RecordCancellation(r)
  <2>1. CASE row'[r] = row[r]
        BY <1>30, <2>1 DEF RecordCancellation
  <2>2. CASE row'[r] # row[r]
    <3>1. Nonterminal(row[r]) /\ pc[r] \notin BeforeAdmission
          BY <1>30, <2>2, CancellationWrite DEF NoRow
    <3> QED BY <1>30, <3>1, CancellationWrite DEF RecordCancellation
  <2> QED BY <2>1, <2>2
<1>31. CASE HardCancel(r)
  <2>1. row' = row \/ (pc[r] \in WritePcs /\ Written(r))
        BY <1>31 DEF HardCancel, Written
  <2>2. CASE row' = row
        BY <1>31, <2>2 DEF HardCancel
  <2>3. CASE pc[r] \in EventPcs /\ Written(r)
        BY <1>31, <2>3, EventWrite DEF HardCancel
  <2>4. CASE pc[r] = "admit" /\ Written(r)
        BY <1>31, <2>4, AdmitWrite DEF HardCancel, NoRow
  <2>5. CASE pc[r] = "attach" /\ Written(r)
        BY <1>31, <2>5, AttachWrite DEF HardCancel
  <2>6. CASE pc[r] = "write_running" /\ Written(r)
        BY <1>31, <2>6, RunningWrite DEF HardCancel
  <2>7. CASE pc[r] = "settle" /\ Written(r)
        BY <1>31, <2>7, SettleWrite, OutcomeType
        DEF HardCancel, Outcomes, CommandOutcomes, PreExecutionOutcomes, RecoveryOutcomes
  <2> QED BY <2>1, <2>2, <2>3, <2>4, <2>5, <2>6, <2>7
<1>32. CASE RecoverRow(r)
  <2>1. Nonterminal(row[r]) /\ pc[r] \in StopPcs
        BY <1>32 DEF RecoverRow, RecoveryAlone
  <2>2. PICK case \in RecoveryCases(r) :
           /\ \/ row'[r].phase = row[r].phase /\ row'[r].outcome = row[r].outcome
              \/ row'[r].phase = "terminal" /\ row'[r].outcome = case[1]
           /\ row'[r].resource = row[r].resource
        BY <1>32, RecoveryWrite
  <2>3. case[1] # "none"
        BY RecoveryType DEF RecoveryOutcomes
  <2> QED BY <1>32, <2>1, <2>2, <2>3 DEF RecoverRow, NoRow
<1>33. CASE RecoveryAborts(r)
  <2>1. Nonterminal(row[r]) /\ pc[r] \in StopPcs
        BY <1>33 DEF RecoveryAborts, RecoveryAlone
  <2>2. PICK case \in RecoveryCases(r) :
           /\ \/ row'[r].phase = row[r].phase /\ row'[r].outcome = row[r].outcome
              \/ row'[r].phase = "terminal" /\ row'[r].outcome = case[1]
           /\ row'[r].resource = row[r].resource
        BY <1>33, RecoveryWrite
  <2>3. case[1] # "none"
        BY RecoveryType DEF RecoveryOutcomes
  <2> QED BY <1>33, <2>1, <2>2, <2>3 DEF RecoveryAborts, NoRow
<1> QED
      BY <1>1, <1>2, <1>3, <1>4, <1>5, <1>6, <1>7, <1>8, <1>9, <1>10,
         <1>11, <1>12, <1>13, <1>14, <1>15, <1>16, <1>17, <1>18, <1>19,
         <1>20, <1>21, <1>22, <1>23, <1>24, <1>25, <1>26, <1>27, <1>28,
         <1>29, <1>30, <1>31, <1>32, <1>33 DEF StepOf, Proceed, Command

(* Nothing is let execute that is not durably allowed. *)
LEMMA AuthorityStep ==
    ASSUME IInv, TypeInv, NEW r \in Runs, StepOf(r)
    PROVE  AuthorityAt(r)'
<1> USE DEF TypeInv, TypeOK, IInv, RunInv, RowAt, CommandAt, AuthorityAt,
   Authorised, At, Goto, SettleAs, Return, CancelBeforeStart,
   BeforeAdmission, BeforeLaunch, AfterReservation, Supervised, Executing,
   WritePcs, EventPcs, StopPcs, volatile
<1>1. CASE Submit(r)
      BY <1>1 DEF Submit
<1>2. CASE Admit(r)
  <2>1. row'[r].trail \subseteq {"run_created"}
        BY <1>2, AdmitWrite DEF Admit, Written
  <2>2. pc'[r] \in {"settle", "write_denied", "write_allowed"}
        BY <1>2 DEF Admit
  <2>3. proc'[r] = "none" /\ r \notin launched'
        BY <1>2 DEF Admit
  <2> QED BY <2>1, <2>2, <2>3
<1>3. CASE AdmissionFails(r)
      BY <1>3, AdmitWrite DEF AdmissionFails, Written, NoRow
<1>4. CASE Denied(r)
      BY <1>4, EventWrite, EventFacts DEF Denied, Written
<1>5. CASE Allowed(r)
      BY <1>5, EventWrite, EventFacts DEF Allowed, Written
<1>6. CASE ApprovalRequested(r)
      BY <1>6, EventWrite, EventFacts DEF ApprovalRequested, Written
<1>7. CASE GateAnswers(r)
      BY <1>7 DEF GateAnswers
<1>8. CASE GateRaises(r) \/ BackendDrifted(r)
      BY <1>8 DEF GateRaises, BackendDrifted
<1>9. CASE VerdictStored(r)
      BY <1>9, EventWrite, EventFacts DEF VerdictStored, Written
<1>10. CASE PreStartEventLost(r)
      BY <1>10, EventWrite, EventFacts DEF PreStartEventLost, Written
<1>11. CASE StartingStored(r)
      BY <1>11, EventWrite, EventFacts DEF StartingStored, Written
<1>12. CASE StartingEventLost(r)
      BY <1>12, EventWrite, EventFacts DEF StartingEventLost, Written
<1>13. CASE Spawn(r)
      BY <1>13 DEF Spawn
<1>14. CASE SpawnEnds(r)
      BY <1>14 DEF SpawnEnds
<1>15. CASE Attach(r)
      BY <1>15, AttachWrite, LeavesWhat DEF Attach, Written
<1>16. CASE AttachFails(r)
      BY <1>16, AttachWrite, LeavesWhat DEF AttachFails, Written
<1>17. CASE Started(r)
      BY <1>17 DEF Started
<1>18. CASE ReleaseEnds(r)
      BY <1>18, LeavesWhat DEF ReleaseEnds
<1>19. CASE MarkedRunning(r)
      BY <1>19, RunningWrite DEF MarkedRunning, Written
<1>20. CASE MarkRunningFails(r)
      BY <1>20, RunningWrite DEF MarkRunningFails, Written
<1>21. CASE UndoStart(r)
      BY <1>21, LeavesWhat DEF UndoStart
<1>22. CASE TimerFires(r) \/ Cancel(r)
      BY <1>22 DEF TimerFires, Cancel
<1>23. CASE ChooseTerminal(r)
      BY <1>23 DEF ChooseTerminal
<1>24. CASE RuntimeEvent(r)
      BY <1>24, EventWrite, EventFacts DEF RuntimeEvent, Written
<1>25. CASE EvidenceLost(r)
      BY <1>25, EventWrite, EventFacts DEF EvidenceLost, Written
<1>26. CASE Terminate(r)
      BY <1>26, LeavesWhat DEF Terminate
<1>27. CASE Reclaim(r)
      BY <1>27 DEF Reclaim
<1>28. CASE Salvage(r) \/ CleanupHangs(r)
      BY <1>28, LeavesWhat DEF Salvage, CleanupHangs
<1>29. CASE Settle(r)
      BY <1>29, SettleWrite DEF Settle, Written
<1>30. CASE SettleFails(r)
      BY <1>30, SettleWrite DEF SettleFails, Written
<1>31. CASE Exec(r)
      BY <1>31 DEF Exec
<1>32. CASE CommandExits(r)
      BY <1>32 DEF CommandExits
<1>33. CASE SupervisorDies(r)
      BY <1>33 DEF SupervisorDies
<1>34. CASE OrphanStops(r)
      BY <1>34 DEF OrphanStops
<1>35. CASE RecordCancellation(r)
      BY <1>35, CancellationWrite DEF RecordCancellation
<1>36. CASE HardCancel(r)
  <2>1. pc'[r] = "done" /\ launched' = launched /\ decision' = decision
        BY <1>36 DEF HardCancel
  <2>2. CASE pc[r] = "attach"
        BY <1>36, <2>1, <2>2, HardCancelLeaves, LeavesWhat
  <2>3. CASE pc[r] # "attach"
        BY <1>36, <2>1, <2>3, HardCancelLeaves
  <2> QED BY <2>2, <2>3
<1>37. CASE RecoverRow(r)
  <2>1. pc[r] \in StopPcs \ {"idle"}
        BY <1>37 DEF RecoverRow, RecoveryAlone, NoRow, Nonterminal
  <2>2. /\ row'[r].resource = row[r].resource
        /\ row[r].trail \subseteq row'[r].trail
        /\ row'[r].trail \subseteq row[r].trail \cup {"recovery_started", "run_finalized"}
        /\ proc'[r] \in {proc[r], "dead"}
        BY <1>37, RecoveryWrite DEF RecoveryCases
  <2>3. pc' = pc /\ launched' = launched /\ decision' = decision
        BY <1>37 DEF RecoverRow
  <2> QED BY <2>1, <2>2, <2>3
<1>38. CASE RecoveryAborts(r)
  <2>1. pc[r] \in StopPcs \ {"idle"}
        BY <1>38 DEF RecoveryAborts, RecoveryAlone, NoRow, Nonterminal
  <2>2. /\ row'[r].resource = row[r].resource
        /\ row[r].trail \subseteq row'[r].trail
        /\ row'[r].trail \subseteq row[r].trail \cup {"recovery_started", "run_finalized"}
        /\ proc'[r] \in {proc[r], "dead"}
        BY <1>38, RecoveryWrite DEF RecoveryCases
  <2>3. pc' = pc /\ launched' = launched /\ decision' = decision
        BY <1>38 DEF RecoveryAborts
  <2> QED BY <2>1, <2>2, <2>3
<1> QED
      BY <1>1, <1>2, <1>3, <1>4, <1>5, <1>6, <1>7, <1>8, <1>9, <1>10,
         <1>11, <1>12, <1>13, <1>14, <1>15, <1>16, <1>17, <1>18, <1>19,
         <1>20, <1>21, <1>22, <1>23, <1>24, <1>25, <1>26, <1>27, <1>28,
         <1>29, <1>30, <1>31, <1>32, <1>33, <1>34, <1>35, <1>36, <1>37,
         <1>38 DEF StepOf, Proceed, Command

(* The command stands where the run left it. *)
LEMMA CommandStep ==
    ASSUME IInv, TypeInv, NEW r \in Runs, StepOf(r)
    PROVE  CommandAt(r)'
<1> USE DEF TypeInv, TypeOK, IInv, RunInv, RowAt, CommandAt, At, Goto,
   SettleAs, Return, CancelBeforeStart, CommandStarted, BeforeAdmission,
   BeforeLaunch, AfterReservation, Supervised, Executing, WritePcs,
   EventPcs, StopPcs, volatile
<1>1. CASE Submit(r)
      BY <1>1 DEF Submit
<1>2. CASE Admit(r)
      BY <1>2 DEF Admit
<1>3. CASE AdmissionFails(r) \/ GateRaises(r) \/ BackendDrifted(r)
      BY <1>3 DEF AdmissionFails, GateRaises, BackendDrifted
<1>4. CASE Denied(r)
      BY <1>4 DEF Denied
<1>5. CASE Allowed(r)
      BY <1>5 DEF Allowed
<1>6. CASE ApprovalRequested(r)
      BY <1>6 DEF ApprovalRequested
<1>7. CASE GateAnswers(r)
      BY <1>7 DEF GateAnswers
<1>8. CASE VerdictStored(r)
      BY <1>8 DEF VerdictStored
<1>9. CASE PreStartEventLost(r)
      BY <1>9 DEF PreStartEventLost
<1>10. CASE StartingStored(r)
      BY <1>10 DEF StartingStored
<1>11. CASE StartingEventLost(r)
      BY <1>11 DEF StartingEventLost
<1>12. CASE Spawn(r)
      BY <1>12 DEF Spawn
<1>13. CASE SpawnEnds(r)
      BY <1>13 DEF SpawnEnds
<1>14. CASE Attach(r)
      BY <1>14, LeavesWhat DEF Attach
<1>15. CASE AttachFails(r)
      BY <1>15, LeavesWhat DEF AttachFails
<1>16. CASE Started(r)
      BY <1>16 DEF Started
<1>17. CASE ReleaseEnds(r)
      BY <1>17, LeavesWhat DEF ReleaseEnds
<1>18. CASE MarkedRunning(r)
      BY <1>18 DEF MarkedRunning
<1>19. CASE MarkRunningFails(r)
      BY <1>19 DEF MarkRunningFails
<1>20. CASE UndoStart(r)
      BY <1>20, LeavesWhat DEF UndoStart
<1>21. CASE TimerFires(r) \/ Cancel(r) \/ RecordCancellation(r)
      BY <1>21 DEF TimerFires, Cancel, RecordCancellation
<1>22. CASE ChooseTerminal(r)
      BY <1>22 DEF ChooseTerminal
<1>23. CASE RuntimeEvent(r)
      BY <1>23 DEF RuntimeEvent
<1>24. CASE EvidenceLost(r)
      BY <1>24 DEF EvidenceLost
<1>25. CASE Terminate(r)
      BY <1>25, LeavesWhat DEF Terminate
<1>26. CASE Reclaim(r)
  <2>1. PICK c \in CleanupResults(proc[r]) :
           clean' = [clean EXCEPT ![r] = IF c = "unknown" THEN "incomplete" ELSE c]
        BY <1>26 DEF Reclaim
  <2>2. proc[r] = "live" => clean'[r] # "complete"
        BY <2>1 DEF CleanupResults
  <2> QED BY <1>26, <2>2 DEF Reclaim
<1>27. CASE Salvage(r)
  <2>1. PICK q \in StopLeaves(proc[r]) :
           /\ proc' = [proc EXCEPT ![r] = q]
           /\ \E c \in CleanupResults(q) : clean' = [clean EXCEPT ![r] = c]
        BY <1>27 DEF Salvage
  <2>2. proc'[r] = q /\ (q = proc[r] \/ (proc[r] = "live" /\ q = "dead"))
        BY <2>1, LeavesWhat
  <2>3. q = "live" => clean'[r] # "complete"
        BY <2>1 DEF CleanupResults
  <2> QED BY <1>27, <2>2, <2>3 DEF Salvage
<1>37. CASE CleanupHangs(r)
      BY <1>37, LeavesWhat DEF CleanupHangs
<1>28. CASE Settle(r)
      BY <1>28 DEF Settle
<1>29. CASE SettleFails(r)
      BY <1>29 DEF SettleFails
<1>30. CASE Exec(r)
      BY <1>30 DEF Exec
<1>31. CASE CommandExits(r)
      BY <1>31 DEF CommandExits, Exits
<1>32. CASE SupervisorDies(r)
      BY <1>32 DEF SupervisorDies
<1>33. CASE OrphanStops(r)
      BY <1>33 DEF OrphanStops
<1>34. CASE HardCancel(r)
  <2>1. pc'[r] = "done" /\ launched' = launched /\ exit' = exit
        BY <1>34 DEF HardCancel
  <2>2. CASE pc[r] = "attach"
        BY <1>34, <2>1, <2>2, HardCancelLeaves, LeavesWhat
  <2>3. CASE pc[r] # "attach"
        BY <1>34, <2>1, <2>3, HardCancelLeaves
  <2> QED BY <2>2, <2>3
<1>35. CASE RecoverRow(r)
  <2>1. pc[r] \in StopPcs \ {"idle"}
        BY <1>35 DEF RecoverRow, RecoveryAlone, NoRow, Nonterminal
  <2>2. \/ proc'[r] = proc[r]
        \/ proc[r] \in {"orphan", "abandoned"} /\ proc'[r] = "dead"
        BY <1>35, RecoveryWrite DEF RecoveryCases
  <2> QED BY <1>35, <2>1, <2>2 DEF RecoverRow
<1>36. CASE RecoveryAborts(r)
  <2>1. pc[r] \in StopPcs \ {"idle"}
        BY <1>36 DEF RecoveryAborts, RecoveryAlone, NoRow, Nonterminal
  <2>2. \/ proc'[r] = proc[r]
        \/ proc[r] \in {"orphan", "abandoned"} /\ proc'[r] = "dead"
        BY <1>36, RecoveryWrite DEF RecoveryCases
  <2> QED BY <1>36, <2>1, <2>2 DEF RecoveryAborts
<1> QED
      BY <1>1, <1>2, <1>3, <1>4, <1>5, <1>6, <1>7, <1>8, <1>9, <1>10,
         <1>11, <1>12, <1>13, <1>14, <1>15, <1>16, <1>17, <1>18, <1>19,
         <1>20, <1>21, <1>22, <1>23, <1>24, <1>25, <1>26, <1>27, <1>28,
         <1>29, <1>30, <1>31, <1>32, <1>33, <1>34, <1>35, <1>36, <1>37 DEF StepOf, Proceed, Command

(* What the runner settles is true of the command. *)
LEMMA SettledVerdict ==
    ASSUME IInv, NEW r \in Runs, pc[r] = "settle"
    PROVE  /\ SettledOutcome(r) \in {"policy_denied", "approval_rejected", "recovered_no_resource"}
                 => r \notin launched /\ proc[r] \in {"none", "dead"}
           /\ \/ SettledOutcome(r) \in {"cleanup_failed", "recovery_failed"}
              \/ clean[r] = "unknown" /\ SettledOutcome(r) \in Statuses
              \/ proc[r] \in {"none", "dead", "stray"}
<1>1. CommandAt(r) /\ claim[r] \in Claims /\ clean[r] \in Cleanups
      BY DEF IInv, RunInv, TypeOK
<1>2. CASE CommandStarted(r) /\ CleanupFailed(r)
  <2>1. SettledOutcome(r) = "cleanup_failed"
        BY <1>1, <1>2 DEF SettledOutcome, CommandStarted
  <2> QED BY <2>1
<1>3. CASE CommandStarted(r) /\ ~CleanupFailed(r)
  <2>1. SettledOutcome(r) = ClaimStatus[claim[r]]
        BY <1>1, <1>3 DEF SettledOutcome, CommandStarted
  <2>2. ClaimStatus[claim[r]] \notin {"policy_denied", "approval_rejected", "recovered_no_resource"}
        BY <1>1 DEF ClaimStatus, Claims
  <2>3. ClaimStatus[claim[r]] \in Statuses
        BY <1>1 DEF ClaimStatus, Claims, Statuses
  <2>4. /\ r \in launched
        /\ clean[r] = "unknown" \/ proc[r] \in {"dead", "stray"}
        BY <1>1, <1>3 DEF CommandAt, CleanupFailed, Cleanups
  <2> QED BY <2>1, <2>2, <2>3, <2>4
<1>4. CASE ~CommandStarted(r)
  <2>1. proc[r] \in {"none", "dead", "stray"}
        BY <1>1, <1>4 DEF CommandAt
  <2>2. /\ SettledOutcome(r) = "policy_denied" => route[r] = "denied"
        /\ SettledOutcome(r) = "approval_rejected" => route[r] = "rejected"
        /\ SettledOutcome(r) # "recovered_no_resource"
        BY <1>4 DEF SettledOutcome
  <2>3. route[r] \in {"denied", "rejected"} => proc[r] = "none" /\ r \notin launched
        BY <1>1 DEF CommandAt
  <2> QED BY <2>1, <2>2, <2>3
<1> QED BY <1>1, <1>2, <1>3, <1>4

(* A verdict is stored when its run returns, and is true of the command. *)
LEMMA VerdictStep ==
    ASSUME IInv, TypeInv, NEW r \in Runs, StepOf(r)
    PROVE  VerdictAt(r)'
<1> USE DEF TypeInv, TypeOK, IInv, RunInv, RowAt, CommandAt, VerdictAt, At,
   Goto, SettleAs, Return, CancelBeforeStart, Nonterminal, BeforeAdmission,
   BeforeLaunch, AfterReservation, Supervised, Executing, WritePcs,
   EventPcs, StopPcs, volatile, CleanupUntold
<1>1. CASE Submit(r) \/ GateAnswers(r) \/ GateRaises(r)
           \/ BackendDrifted(r) \/ Spawn(r) \/ SpawnEnds(r) \/ Started(r)
           \/ ReleaseEnds(r) \/ UndoStart(r) \/ ChooseTerminal(r)
           \/ Terminate(r) \/ Reclaim(r) \/ Salvage(r) \/ CleanupHangs(r)
  <2>1. row' = row
        BY <1>1 DEF Submit, GateAnswers, GateRaises, BackendDrifted, Spawn, SpawnEnds,
                    Started, ReleaseEnds, UndoStart, ChooseTerminal, Terminate,
                    Reclaim, Salvage, CleanupHangs
  <2>2. pc[r] \notin {"done", "lost"}
        BY <1>1 DEF Submit, GateAnswers, GateRaises, BackendDrifted, Spawn, SpawnEnds,
                    Started, ReleaseEnds, UndoStart, ChooseTerminal, Terminate,
                    Reclaim, Salvage, CleanupHangs
  <2>3. row[r].phase # "terminal"
        BY <2>2 DEF NoRow
  <2> QED BY <2>1, <2>3
<1>2. CASE Admit(r)
      BY <1>2, AdmitWrite DEF Admit, Written, NoRow
<1>3. CASE AdmissionFails(r)
      BY <1>3, AdmitWrite DEF AdmissionFails, Written, NoRow
<1>4. CASE Denied(r)
      BY <1>4, EventWrite DEF Denied, Written
<1>5. CASE Allowed(r)
      BY <1>5, EventWrite DEF Allowed, Written
<1>6. CASE ApprovalRequested(r)
      BY <1>6, EventWrite DEF ApprovalRequested, Written
<1>7. CASE VerdictStored(r)
      BY <1>7, EventWrite DEF VerdictStored, Written
<1>8. CASE PreStartEventLost(r)
      BY <1>8, EventWrite DEF PreStartEventLost, Written
<1>9. CASE StartingStored(r)
      BY <1>9, EventWrite DEF StartingStored, Written
<1>10. CASE StartingEventLost(r)
      BY <1>10, EventWrite DEF StartingEventLost, Written
<1>11. CASE Attach(r)
      BY <1>11, AttachWrite, LeavesWhat DEF Attach, Written
<1>12. CASE AttachFails(r)
      BY <1>12, AttachWrite, LeavesWhat DEF AttachFails, Written
<1>13. CASE MarkedRunning(r)
      BY <1>13, RunningWrite DEF MarkedRunning, Written
<1>14. CASE MarkRunningFails(r)
      BY <1>14, RunningWrite DEF MarkRunningFails, Written
<1>15. CASE TimerFires(r) \/ Cancel(r)
      BY <1>15 DEF TimerFires, Cancel
<1>16. CASE RuntimeEvent(r)
      BY <1>16, EventWrite DEF RuntimeEvent, Written
<1>17. CASE EvidenceLost(r)
      BY <1>17, EventWrite DEF EvidenceLost, Written
<1>18. CASE Settle(r)
  <2>1. pc'[r] = "done" /\ proc' = proc /\ launched' = launched /\ Nonterminal(row[r])
        BY <1>18 DEF Settle, Nonterminal
  <2>2. row'[r].phase = row[r].phase \/ row'[r].outcome = SettledOutcome(r)
        BY <1>18, SettleWrite DEF Settle, Written
  <2> QED BY <1>18, <2>1, <2>2, SettledVerdict DEF Settle, Nonterminal
<1>19. CASE SettleFails(r)
  <2>1. pc'[r] = "done" /\ proc' = proc /\ launched' = launched /\ Nonterminal(row[r])
        BY <1>19 DEF SettleFails, Nonterminal
  <2>2. row'[r].phase = row[r].phase \/ row'[r].outcome = SettledOutcome(r)
        BY <1>19, SettleWrite DEF SettleFails, Written
  <2> QED BY <1>19, <2>1, <2>2, SettledVerdict DEF SettleFails, Nonterminal
<1>20. CASE Exec(r)
      BY <1>20 DEF Exec
<1>21. CASE CommandExits(r)
      BY <1>21 DEF CommandExits
<1>22. CASE SupervisorDies(r)
      BY <1>22 DEF SupervisorDies
<1>23. CASE OrphanStops(r)
      BY <1>23 DEF OrphanStops
<1>24. CASE RecordCancellation(r)
      BY <1>24, CancellationWrite DEF RecordCancellation
<1>25. CASE HardCancel(r)
  <2>1. pc'[r] = "done" /\ launched' = launched /\ clean' = clean
        BY <1>25 DEF HardCancel
  <2>2. CASE pc[r] = "settle" /\ WriteOk(r)
    <3>1. row'[r].outcome = SettledOutcome(r) /\ proc'[r] = proc[r]
          BY <1>25, <2>2, SettleWrite, HardCancelLeaves DEF Written
    <3> QED BY <2>1, <2>2, <3>1, SettledVerdict
  <2>3. CASE ~(pc[r] = "settle" /\ WriteOk(r))
    <3>1. row'[r].phase # "terminal"
      <4>1. row[r].phase # "terminal"
            BY <1>25 DEF HardCancel
      <4>2. CASE row' = row BY <4>1, <4>2
      <4>3. CASE pc[r] \in EventPcs /\ WriteOk(r) BY <4>1, <4>3, EventWrite DEF Written
      <4>4. CASE pc[r] = "admit" /\ WriteOk(r) BY <4>4, AdmitWrite DEF Written, NoRow
      <4>5. CASE pc[r] = "attach" /\ WriteOk(r) BY <4>1, <4>5, AttachWrite DEF Written
      <4>6. CASE pc[r] = "write_running" /\ WriteOk(r) BY <4>6, RunningWrite DEF Written
      <4> QED BY <1>25, <2>3, <4>2, <4>3, <4>4, <4>5, <4>6 DEF HardCancel
    <3> QED BY <3>1
  <2> QED BY <2>2, <2>3
<1>26. CASE RecoverRow(r)
  <2>1. /\ pc[r] \in StopPcs /\ pc' = pc /\ launched' = launched /\ Nonterminal(row[r])
        /\ proc[r] \notin {"gated", "released", "live"}
        BY <1>26 DEF RecoverRow, RecoveryAlone
  <2>2. PICK case \in RecoveryCases(r) :
           /\ \/ row'[r].phase = row[r].phase
              \/ row'[r].phase = "terminal" /\ row'[r].outcome = case[1] /\ proc'[r] = case[2]
        BY <1>26, RecoveryWrite, <2>1 DEF Nonterminal
  <2>3. case[1] = "recovered_no_resource" => proc[r] \in {"none", "dead"} /\ r \notin launched
        BY <2>1 DEF RecoveryCases, AuthorityAt, Authorised, CommandAt, Processes
  <2>4. case[1] # "recovery_failed" => case[2] \in {"none", "dead", "stray"}
        BY <2>1, RecoveryType DEF RecoveryCases, Processes, AuthorityAt, Authorised
  <2>5. case[1] \notin {"policy_denied", "approval_rejected"}
        BY RecoveryType DEF RecoveryOutcomes
  <2>6. case[1] = "recovered_no_resource" => case[2] = proc[r]
        BY DEF RecoveryCases
  <2> QED BY <2>1, <2>2, <2>3, <2>4, <2>5, <2>6 DEF Nonterminal
<1>27. CASE RecoveryAborts(r)
  <2>1. /\ pc[r] \in StopPcs /\ pc' = pc /\ launched' = launched /\ Nonterminal(row[r])
        /\ proc[r] \notin {"gated", "released", "live"}
        BY <1>27 DEF RecoveryAborts, RecoveryAlone
  <2>2. PICK case \in RecoveryCases(r) :
           /\ \/ row'[r].phase = row[r].phase
              \/ row'[r].phase = "terminal" /\ row'[r].outcome = case[1] /\ proc'[r] = case[2]
        BY <1>27, RecoveryWrite, <2>1 DEF Nonterminal
  <2>3. case[1] = "recovered_no_resource" => proc[r] \in {"none", "dead"} /\ r \notin launched
        BY <2>1 DEF RecoveryCases, AuthorityAt, Authorised, CommandAt, Processes
  <2>4. case[1] # "recovery_failed" => case[2] \in {"none", "dead", "stray"}
        BY <2>1, RecoveryType DEF RecoveryCases, Processes, AuthorityAt, Authorised
  <2>5. case[1] \notin {"policy_denied", "approval_rejected"}
        BY RecoveryType DEF RecoveryOutcomes
  <2>6. case[1] = "recovered_no_resource" => case[2] = proc[r]
        BY DEF RecoveryCases
  <2> QED BY <2>1, <2>2, <2>3, <2>4, <2>5, <2>6 DEF Nonterminal
<1> QED
      BY <1>1, <1>2, <1>3, <1>4, <1>5, <1>6, <1>7, <1>8, <1>9, <1>10,
         <1>11, <1>12, <1>13, <1>14, <1>15, <1>16, <1>17, <1>18, <1>19,
         <1>20, <1>21, <1>22, <1>23, <1>24, <1>25, <1>26, <1>27 DEF StepOf, Proceed, Command

(* The cause of a candidate. *)
LEMMA CandidateCause ==
    ASSUME TypeInv, NEW r \in Runs, NEW s \in Ready(r)
    PROVE  /\ Candidate(r, s) = "exit_zero" => exit[r] = "zero"
           /\ Candidate(r, s) = "exit_nonzero" => exit[r] = "nonzero"
           /\ Candidate(r, s) = "exit_no_code" => exit[r] = "no_code"
           /\ Candidate(r, s) = "resource_limit" => exit[r] = "limit"
           /\ Candidate(r, s) = "output_limit" => "output_limit" \in timers[r]
           /\ Candidate(r, s) = "timeout" => "timeout" \in timers[r]
           /\ Candidate(r, s) = "cancellation" =>
                 r \in cancelled \/ "pump_failed" \in timers[r] \/ exit[r] = "lost"
<1>1. /\ exit[r] \in {"none", "zero", "nonzero", "limit", "no_code", "lost"}
      /\ timers[r] \subseteq {"timeout", "output_limit", "pump_failed"}
      BY DEF TypeInv, TypeOK, Exits
<1>2. CASE s = "exit"
  <2>1. exit[r] # "none"
        BY <1>1, <1>2 DEF Ready
  <2> QED BY <1>1, <1>2, <2>1 DEF Candidate
<1>3. CASE s = "cancel"
  <2>1. r \in cancelled
        BY <1>1, <1>3 DEF Ready, TokenSet
  <2> QED BY <1>3, <2>1 DEF Candidate
<1>4. CASE s \in timers[r]
      BY <1>1, <1>4 DEF Candidate
<1> QED BY <1>2, <1>3, <1>4 DEF Ready

(* What the runner settles has its cause. *)
LEMMA SettledCause ==
    ASSUME TypeInv, NEW r \in Runs, CauseAt(r), pc[r] = "settle"
    PROVE  /\ SettledOutcome(r) = "completed" => exit[r] = "zero"
           /\ SettledOutcome(r) = "failed" => exit[r] = "nonzero"
           /\ SettledOutcome(r) = "timed_out" => "timeout" \in timers[r]
           /\ SettledOutcome(r) = "limit_exceeded" =>
                 "output_limit" \in timers[r] \/ exit[r] = "limit"
           /\ SettledOutcome(r) = "cancelled" => \/ r \in cancelled
                                                \/ "pump_failed" \in timers[r]
                                                \/ exit[r] \in {"no_code", "lost"}
<1>1. claim[r] \in Claims /\ clean[r] \in Cleanups
      BY DEF TypeInv, TypeOK
<1>2. CASE CommandStarted(r) /\ CleanupFailed(r)
  <2>1. SettledOutcome(r) = "cleanup_failed"
        BY <1>1, <1>2 DEF SettledOutcome, CommandStarted
  <2> QED BY <2>1
<1>3. CASE CommandStarted(r) /\ ~CleanupFailed(r)
  <2>1. SettledOutcome(r) = ClaimStatus[claim[r]]
        BY <1>1, <1>3 DEF SettledOutcome, CommandStarted
  <2>2. claim[r] # "none"
        BY <1>3 DEF CauseAt
  <2> QED BY <1>1, <2>1, <2>2 DEF CauseAt, ClaimStatus, Claims
<1>4. CASE ~CommandStarted(r)
  <2>1. SettledOutcome(r) \in PreExecutionOutcomes
        BY <1>4 DEF SettledOutcome, PreExecutionOutcomes
  <2> QED BY <2>1 DEF PreExecutionOutcomes
<1> QED BY <1>1, <1>2, <1>3, <1>4

(* Every reason and every outcome has its cause. *)
LEMMA CauseStep ==
    ASSUME IInv, TypeInv, NEW r \in Runs, StepOf(r)
    PROVE  CauseAt(r)'
<1> USE DEF TypeInv, TypeOK, IInv, RunInv, CauseAt, At, Goto, SettleAs,
   Return, CancelBeforeStart, CommandStarted, NaturalExits, Supervised,
   WritePcs, EventPcs, StopPcs, volatile
<1>1. CASE Submit(r) \/ GateAnswers(r) \/ GateRaises(r)
           \/ BackendDrifted(r) \/ Spawn(r) \/ SpawnEnds(r) \/ Started(r)
           \/ ReleaseEnds(r) \/ UndoStart(r) \/ Terminate(r) \/ Reclaim(r)
           \/ Salvage(r) \/ CleanupHangs(r) \/ Exec(r) \/ OrphanStops(r)
      BY <1>1
      DEF Submit, GateAnswers, GateRaises, BackendDrifted, Spawn,
         SpawnEnds, Started, ReleaseEnds, UndoStart, Terminate, Reclaim,
         Salvage, CleanupHangs, Exec, OrphanStops
<1>2. CASE Admit(r)
      BY <1>2, AdmitWrite DEF Admit, Written, RowAt, NoRow, BeforeAdmission
<1>3. CASE AdmissionFails(r)
      BY <1>3, AdmitWrite
      DEF AdmissionFails, Written, RowAt, NoRow, BeforeAdmission
<1>4. CASE Denied(r)
      BY <1>4, EventWrite DEF Denied, Written
<1>5. CASE Allowed(r)
      BY <1>5, EventWrite DEF Allowed, Written
<1>6. CASE ApprovalRequested(r)
      BY <1>6, EventWrite DEF ApprovalRequested, Written
<1>7. CASE VerdictStored(r)
      BY <1>7, EventWrite DEF VerdictStored, Written
<1>8. CASE PreStartEventLost(r)
      BY <1>8, EventWrite DEF PreStartEventLost, Written
<1>9. CASE StartingStored(r)
      BY <1>9, EventWrite DEF StartingStored, Written
<1>10. CASE StartingEventLost(r)
      BY <1>10, EventWrite DEF StartingEventLost, Written
<1>11. CASE Attach(r)
      BY <1>11, AttachWrite DEF Attach, Written
<1>12. CASE AttachFails(r)
      BY <1>12, AttachWrite DEF AttachFails, Written
<1>13. CASE MarkedRunning(r)
      BY <1>13, RunningWrite DEF MarkedRunning, Written
<1>14. CASE MarkRunningFails(r)
      BY <1>14, RunningWrite DEF MarkRunningFails, Written
<1>15. CASE TimerFires(r)
      BY <1>15 DEF TimerFires
<1>16. CASE ChooseTerminal(r)
  <2>1. PICK done \in (SUBSET Ready(r)) \ {{}} :
           LET winner == Best({Candidate(r, s) : s \in done}) IN
           /\ claim' = [claim EXCEPT ![r] = winner]
           /\ IF winner \in NaturalExits
              THEN Goto(r, "reclaim") /\ UNCHANGED state
              ELSE Goto(r, "write_reason") /\ Enter(r, "terminating")
        BY <1>16 DEF ChooseTerminal
  <2> DEFINE winner == Best({Candidate(r, s) : s \in done})
  <2>2. PICK s \in done : winner = Candidate(r, s)
    <3>1. \A s : Candidate(r, s) \in Claims \ {"none"}
          BY DEF Candidate, Claims
    <3>2. {Candidate(r, s) : s \in done} \in SUBSET (Claims \ {"none"})
          BY <3>1
    <3>3. {Candidate(r, s) : s \in done} # {}
      <4>1. PICK s \in done : TRUE BY <2>1
      <4> QED BY <4>1
    <3>4. winner \in {Candidate(r, s) : s \in done}
          BY <3>2, <3>3, BestExists
    <3> QED BY <3>4
  <2> HIDE DEF winner
  <2>3. winner # "none"
        BY <2>2 DEF Candidate
  <2>4. /\ winner = "exit_zero" => exit[r] = "zero"
        /\ winner = "exit_nonzero" => exit[r] = "nonzero"
        /\ winner = "exit_no_code" => exit[r] = "no_code"
        /\ winner = "resource_limit" => exit[r] = "limit"
        /\ winner = "output_limit" => "output_limit" \in timers[r]
        /\ winner = "timeout" => "timeout" \in timers[r]
        /\ winner = "cancellation" =>
              r \in cancelled \/ "pump_failed" \in timers[r] \/ exit[r] = "lost"
        BY <2>1, <2>2, CandidateCause
  <2>5. /\ claim'[r] = winner
        /\ \/ winner \in NaturalExits /\ pc'[r] = "reclaim"
           \/ winner \notin NaturalExits /\ pc'[r] = "write_reason"
        BY <2>1 DEF winner, Goto
  <2>6. /\ row' = row /\ exit' = exit /\ timers' = timers /\ cancelled' = cancelled
        BY <1>16 DEF ChooseTerminal
  <2> QED BY <2>3, <2>4, <2>5, <2>6
<1>17. CASE RuntimeEvent(r)
      BY <1>17, EventWrite DEF RuntimeEvent, Written
<1>18. CASE EvidenceLost(r)
      BY <1>18, EventWrite DEF EvidenceLost, Written
<1>19. CASE Settle(r)
  <2>1. /\ pc'[r] = "done" /\ claim' = claim /\ exit' = exit /\ timers' = timers
        /\ cancelled' = cancelled
        BY <1>19 DEF Settle
  <2>2. row'[r].outcome \in {row[r].outcome, SettledOutcome(r)}
        BY <1>19, SettleWrite DEF Settle, Written
  <2> QED BY <1>19, <2>1, <2>2, SettledCause DEF Settle
<1>20. CASE SettleFails(r)
  <2>1. /\ pc'[r] = "done" /\ claim' = claim /\ exit' = exit /\ timers' = timers
        /\ cancelled' = cancelled
        BY <1>20 DEF SettleFails
  <2>2. row'[r].outcome \in {row[r].outcome, SettledOutcome(r)}
        BY <1>20, SettleWrite DEF SettleFails, Written
  <2> QED BY <1>20, <2>1, <2>2, SettledCause DEF SettleFails
<1>21. CASE CommandExits(r)
  <2>1. exit[r] = "none"
        BY <1>21 DEF CommandExits, CommandAt
  <2>2. /\ pc' = pc /\ claim' = claim /\ row' = row /\ timers' = timers
        /\ cancelled' = cancelled /\ route' = route
        BY <1>21 DEF CommandExits
  <2> QED BY <2>1, <2>2 DEF CauseAt
<1>22. CASE SupervisorDies(r)
  <2>1. exit[r] = "none"
        BY <1>22 DEF SupervisorDies, CommandAt
  <2>2. /\ pc' = pc /\ claim' = claim /\ row' = row /\ timers' = timers
        /\ cancelled' = cancelled /\ route' = route
        BY <1>22 DEF SupervisorDies
  <2> QED BY <2>1, <2>2 DEF CauseAt
<1>23. CASE Cancel(r)
      BY <1>23 DEF Cancel
<1>24. CASE RecordCancellation(r)
      BY <1>24, CancellationWrite DEF RecordCancellation
<1>25. CASE HardCancel(r)
  <2>1. /\ pc'[r] = "done" /\ claim' = claim /\ exit' = exit /\ timers' = timers
        /\ cancelled' = cancelled
        BY <1>25 DEF HardCancel
  <2>2. CASE pc[r] = "settle" /\ WriteOk(r)
    <3>1. row'[r].outcome \in {row[r].outcome, SettledOutcome(r)}
          BY <2>2, SettleWrite DEF Written
    <3> QED BY <2>1, <2>2, <3>1, SettledCause
  <2>3. CASE ~(pc[r] = "settle" /\ WriteOk(r))
    <3>1. row'[r].outcome = row[r].outcome
      <4>1. CASE row' = row BY <4>1
      <4>2. CASE pc[r] \in EventPcs /\ WriteOk(r) BY <4>2, EventWrite DEF Written
      <4>3. CASE pc[r] = "admit" /\ WriteOk(r)
            BY <4>3, AdmitWrite DEF Written, RowAt, NoRow, BeforeAdmission
      <4>4. CASE pc[r] = "attach" /\ WriteOk(r) BY <4>4, AttachWrite DEF Written
      <4>5. CASE pc[r] = "write_running" /\ WriteOk(r) BY <4>5, RunningWrite DEF Written
      <4> QED BY <1>25, <2>3, <4>1, <4>2, <4>3, <4>4, <4>5 DEF HardCancel, WritePcs
    <3> QED BY <2>1, <3>1
  <2> QED BY <2>2, <2>3
<1>26. CASE RecoverRow(r)
  <2>1. /\ pc' = pc /\ claim' = claim /\ exit' = exit /\ timers' = timers
        /\ cancelled' = cancelled /\ route' = route
        BY <1>26 DEF RecoverRow
  <2>2. row'[r].outcome = row[r].outcome \/ row'[r].outcome \in RecoveryOutcomes
        BY <1>26, RecoveryWrite, RecoveryType
  <2> QED BY <2>1, <2>2 DEF RecoveryOutcomes
<1>27. CASE RecoveryAborts(r)
  <2>1. /\ pc' = pc /\ claim' = claim /\ exit' = exit /\ timers' = timers
        /\ cancelled' = cancelled /\ route' = route
        BY <1>27 DEF RecoveryAborts
  <2>2. row'[r].outcome = row[r].outcome \/ row'[r].outcome \in RecoveryOutcomes
        BY <1>27, RecoveryWrite, RecoveryType
  <2> QED BY <2>1, <2>2 DEF RecoveryOutcomes
<1> QED
      BY <1>1, <1>2, <1>3, <1>4, <1>5, <1>6, <1>7, <1>8, <1>9, <1>10,
         <1>11, <1>12, <1>13, <1>14, <1>15, <1>16, <1>17, <1>18, <1>19,
         <1>20, <1>21, <1>22, <1>23, <1>24, <1>25, <1>26, <1>27 DEF StepOf, Proceed, Command

(* An error is never taken for a status. *)
LEMMA ErrorsAreNot == \A e \in Errors : e \notin Statuses /\ e # "none"
BY DEF Errors, Statuses

(* What a settlement stores, publishes and answers agrees. *)
LEMMA SettledAgrees ==
    ASSUME TypeInv, NEW r \in Runs, CauseAt(r), pc[r] = "settle", route[r] # "none",
           stage[r] = "none"
    PROVE  /\ SettledAnswer(r) \in Statuses =>
                 /\ Records(SettledAnswer(r), SettledOutcome(r))
                 /\ SettledStage(r) = SettledAnswer(r)
           /\ SettledStage(r) # "none" =>
                 SettledOutcome(r) = "cleanup_failed" \/ Records(SettledStage(r), SettledOutcome(r))
<1>1. /\ claim[r] \in Claims /\ clean[r] \in Cleanups /\ reaped[r] \in BOOLEAN
      /\ route[r] \in Routes
      BY DEF TypeInv, TypeOK
<1>2. CASE route[r] = "supervised"
  <2>1. CommandStarted(r) /\ claim[r] # "none"
        BY <1>2 DEF CauseAt, CommandStarted
  <2>2. /\ ClaimStatus[claim[r]] \in Statuses
        /\ Records(ClaimStatus[claim[r]], ClaimStatus[claim[r]])
        BY <1>1 DEF ClaimStatus, Claims, Statuses, Records
  <2>3. SettledStage(r) = ClaimStatus[claim[r]]
        BY <1>2 DEF SettledStage
  <2>4. SettledOutcome(r) = IF CleanupFailed(r) THEN "cleanup_failed" ELSE ClaimStatus[claim[r]]
        BY <1>1, <1>2, <2>1 DEF SettledOutcome, CommandStarted
  <2>5. SettledAnswer(r) = IF ~reaped[r] THEN "reap_error"
                           ELSE IF CleanupFailed(r) THEN "cleanup_error" ELSE ClaimStatus[claim[r]]
        BY <1>1, <1>2 DEF SettledAnswer
  <2> QED BY <2>2, <2>3, <2>4, <2>5 DEF Statuses
<1>3. CASE route[r] = "evidence_lost"
  <2>1. SettledStage(r) = "none" /\ SettledAnswer(r) = "evidence_lost"
        BY <1>1, <1>3 DEF SettledStage, SettledAnswer
  <2> QED BY <2>1 DEF Statuses
<1>4. CASE route[r] \notin {"supervised", "evidence_lost"}
  <2>1. ~CommandStarted(r)
        BY <1>4 DEF CommandStarted
  <2> QED BY <1>1, <1>4, <2>1 DEF SettledAnswer, SettledStage, SettledOutcome, Records,
                                  Statuses, Routes, CommandStarted
<1> QED BY <1>2, <1>3, <1>4

(* What is published and returned agrees with the row. *)
LEMMA AnswerStep ==
    ASSUME IInv, TypeInv, NEW r \in Runs, StepOf(r)
    PROVE  AnswerAt(r)'
<1> USE DEF TypeInv, TypeOK, IInv, RunInv, AnswerAt, At, Goto, SettleAs,
   Return, CancelBeforeStart, PublishTerminal, WritePcs, EventPcs, StopPcs,
   volatile
<1>1. CASE Submit(r) \/ Admit(r) \/ GateAnswers(r) \/ Denied(r)
           \/ Allowed(r) \/ ApprovalRequested(r) \/ VerdictStored(r)
           \/ PreStartEventLost(r) \/ StartingStored(r)
           \/ StartingEventLost(r) \/ Spawn(r) \/ SpawnEnds(r) \/ Attach(r)
           \/ Started(r) \/ ReleaseEnds(r) \/ AttachFails(r)
           \/ MarkedRunning(r) \/ MarkRunningFails(r) \/ TimerFires(r)
           \/ ChooseTerminal(r) \/ RuntimeEvent(r) \/ EvidenceLost(r)
           \/ Terminate(r) \/ Reclaim(r) \/ Salvage(r) \/ CleanupHangs(r)
  <2>1. /\ pc[r] # "done" /\ answer' = answer /\ stage' = stage
        /\ answer[r] = "none" /\ stage[r] = "none"
        BY <1>1
        DEF Submit, Admit, GateAnswers, Denied, Allowed, ApprovalRequested,
           VerdictStored, PreStartEventLost, StartingStored,
           StartingEventLost, Spawn, SpawnEnds, Attach, Started,
           ReleaseEnds, AttachFails, MarkedRunning, MarkRunningFails,
           TimerFires, ChooseTerminal, RuntimeEvent, EvidenceLost,
           Terminate, Reclaim, Salvage, CleanupHangs
  <2> QED BY <2>1 DEF Statuses
<1>2. CASE AdmissionFails(r) \/ GateRaises(r) \/ BackendDrifted(r)
           \/ UndoStart(r)
  <2>1. /\ pc[r] # "done" /\ pc'[r] = "done" /\ stage' = stage
        /\ answer'[r] \in Errors
        BY <1>2
        DEF AdmissionFails, GateRaises, BackendDrifted, UndoStart, Errors
  <2>2. stage[r] = "none"
        BY <2>1
  <2> QED BY <2>1, <2>2, ErrorsAreNot
<1>3. CASE Settle(r)
  <2>1. /\ pc'[r] = "done" /\ answer'[r] = SettledAnswer(r) /\ stage'[r] = SettledStage(r)
        /\ row'[r].phase = "terminal" /\ row'[r].outcome = SettledOutcome(r)
        BY <1>3, SettleWrite DEF Settle, Written
  <2>2. stage[r] = "none" /\ route[r] # "none"
        BY <1>3 DEF Settle, RowAt
  <2> QED BY <1>3, <2>1, <2>2, SettledAgrees DEF Settle
<1>4. CASE SettleFails(r)
  <2>1. /\ pc[r] = "settle" /\ pc'[r] = "done" /\ answer'[r] \in Errors
        BY <1>4 DEF SettleFails, Errors
  <2>2. \/ stage'[r] = "none"
        \/ /\ route[r] \in {"start_failed", "start_raised", "event_lost"}
           /\ stage'[r] = "failed_to_start"
    <3>1. stage[r] = "none" BY <2>1
    <3>2. CASE route[r] \in {"start_failed", "start_raised"}
          BY <1>4, <3>1, <3>2 DEF SettleFails
    <3>3. CASE route[r] = "event_lost"
          BY <1>4, <3>1, <3>3 DEF SettleFails
    <3>4. CASE route[r] \notin {"start_failed", "start_raised", "event_lost"}
          BY <1>4, <3>1, <3>4 DEF SettleFails
    <3> QED BY <3>2, <3>3, <3>4
  <2>3. \/ row'[r].outcome = row[r].outcome
        \/ row'[r].outcome = SettledOutcome(r)
        BY <1>4, SettleWrite DEF SettleFails, Written
  <2>4. row[r].outcome = "none"
        BY <2>1 DEF RowAt, Nonterminal
  <2>5. route[r] \in {"start_failed", "start_raised", "event_lost"}
           => SettledOutcome(r) = "failed_to_start"
        BY DEF SettledOutcome, CommandStarted
  <2> QED BY <2>1, <2>2, <2>3, <2>4, <2>5, ErrorsAreNot
          DEF Records, Outcomes, CommandOutcomes, PreExecutionOutcomes
<1>5. CASE Exec(r) \/ CommandExits(r) \/ SupervisorDies(r)
           \/ OrphanStops(r) \/ Cancel(r)
  <2>1. pc' = pc /\ answer' = answer /\ stage' = stage /\ row' = row
        BY <1>5
        DEF Exec, CommandExits, SupervisorDies, OrphanStops, Cancel
  <2> QED BY <2>1
<1>6. CASE RecordCancellation(r)
  <2>1. pc' = pc /\ answer' = answer /\ stage' = stage
        BY <1>6 DEF RecordCancellation
  <2> QED BY <1>6, <2>1, CancellationWrite
<1>7. CASE HardCancel(r)
  <2>1. /\ pc[r] # "done" /\ pc'[r] = "done" /\ stage' = stage
        /\ answer'[r] \in Errors
        BY <1>7 DEF HardCancel, Errors
  <2>2. stage[r] = "none"
        BY <2>1
  <2> QED BY <2>1, <2>2, ErrorsAreNot
<1>8. CASE RecoverRow(r)
  <2>1. /\ pc' = pc /\ answer' = answer /\ stage' = stage
        /\ row[r].phase # "terminal"
        BY <1>8 DEF RecoverRow, RecoveryAlone, Nonterminal
  <2>2. row'[r].outcome = row[r].outcome \/ row'[r].outcome \in RecoveryOutcomes
        BY <1>8, RecoveryWrite, RecoveryType
  <2> QED BY <2>1, <2>2
<1>9. CASE RecoveryAborts(r)
  <2>1. /\ pc' = pc /\ answer' = answer /\ stage' = stage
        /\ row[r].phase # "terminal"
        BY <1>9 DEF RecoveryAborts, RecoveryAlone, Nonterminal
  <2>2. row'[r].outcome = row[r].outcome \/ row'[r].outcome \in RecoveryOutcomes
        BY <1>9, RecoveryWrite, RecoveryType
  <2> QED BY <2>1, <2>2
<1> QED
      BY <1>1, <1>2, <1>3, <1>4, <1>5, <1>6, <1>7, <1>8, <1>9 DEF StepOf, Proceed, Command

(* Recovery stays alone. *)
LEMMA AloneStep ==
    ASSUME IInv, TypeInv, NEW r \in Runs, StepOf(r)
    PROVE  RecoveryAlone'
<1> USE DEF TypeInv, TypeOK, IInv, RecoveryAlone, Nonterminal
<1>1. CASE Submit(r) \/ Admit(r) \/ AdmissionFails(r) \/ Denied(r)
           \/ Allowed(r) \/ ApprovalRequested(r) \/ GateAnswers(r)
           \/ GateRaises(r) \/ VerdictStored(r) \/ PreStartEventLost(r)
           \/ StartingStored(r) \/ StartingEventLost(r)
           \/ BackendDrifted(r) \/ Spawn(r) \/ SpawnEnds(r) \/ Attach(r)
           \/ AttachFails(r) \/ Started(r) \/ ReleaseEnds(r)
           \/ MarkedRunning(r) \/ MarkRunningFails(r) \/ UndoStart(r)
           \/ TimerFires(r) \/ ChooseTerminal(r) \/ RuntimeEvent(r)
           \/ EvidenceLost(r) \/ Terminate(r) \/ Reclaim(r) \/ Salvage(r) \/ CleanupHangs(r)
           \/ Settle(r) \/ SettleFails(r) \/ CommandExits(r)
           \/ SupervisorDies(r) \/ Cancel(r) \/ RecordCancellation(r)
           \/ HardCancel(r)
  <2>1. boot = "up"
        BY <1>1
        DEF Submit, Admit, AdmissionFails, Denied, Allowed,
           ApprovalRequested, GateAnswers, GateRaises, VerdictStored,
           PreStartEventLost, StartingStored, StartingEventLost,
           BackendDrifted, Spawn, SpawnEnds, Attach, AttachFails, Started,
           ReleaseEnds, MarkedRunning, MarkRunningFails, UndoStart,
           TimerFires, ChooseTerminal, RuntimeEvent, EvidenceLost,
           Terminate, Reclaim, Salvage, CleanupHangs, Settle, SettleFails, CommandExits,
           SupervisorDies, Cancel, RecordCancellation, HardCancel,
           At, WritePcs, EventPcs, StopPcs
  <2>2. boot' = boot /\ todo' = todo
        BY <1>1
        DEF Submit, Admit, AdmissionFails, Denied, Allowed,
           ApprovalRequested, GateAnswers, GateRaises, VerdictStored,
           PreStartEventLost, StartingStored, StartingEventLost,
           BackendDrifted, Spawn, SpawnEnds, Attach, AttachFails, Started,
           ReleaseEnds, MarkedRunning, MarkRunningFails, UndoStart,
           TimerFires, ChooseTerminal, RuntimeEvent, EvidenceLost,
           Terminate, Reclaim, Salvage, CleanupHangs, Settle, SettleFails, CommandExits,
           SupervisorDies, Cancel, RecordCancellation, HardCancel, world
  <2> QED BY <2>1, <2>2
<1>2. CASE Exec(r) \/ OrphanStops(r)
  <2>1. /\ pc' = pc /\ noting' = noting /\ active' = active /\ boot' = boot
        /\ todo' = todo /\ row' = row
        BY <1>2 DEF Exec, OrphanStops, world
  <2>2. boot # "up" => \A s \in Runs : proc'[s] \notin {"gated", "released", "live"}
        BY <1>2 DEF Exec, OrphanStops
  <2> QED BY <2>1, <2>2
<1>3. CASE RecoverRow(r)
  <2>1. /\ pc' = pc /\ noting' = noting /\ active' = active /\ todo' = todo \ {r}
        /\ boot \in {"recovering", "tainted"} /\ boot' \in {"recovering", "tainted"}
        BY <1>3 DEF RecoverRow
  <2>2. PICK case \in RecoveryCases(r) : proc' = [proc EXCEPT ![r] = case[2]]
        BY <1>3 DEF RecoverRow
  <2>3. case[2] \in {proc[r], "dead"}
        BY DEF RecoveryCases
  <2>4. \A s \in Runs : proc'[s] \notin {"gated", "released", "live"}
        BY <2>1, <2>2, <2>3
  <2>5. \A s \in Runs \ {r} : row'[s] = row[s]
        BY <1>3 DEF RecoverRow
  <2> QED BY <2>1, <2>4, <2>5
<1>4. CASE RecoveryAborts(r)
  <2>1. /\ pc' = pc /\ noting' = noting /\ active' = active /\ todo' = {}
        /\ boot \in {"recovering", "tainted"}
        BY <1>4 DEF RecoveryAborts
  <2>2. PICK case \in RecoveryCases(r) : proc' \in {proc, [proc EXCEPT ![r] = case[2]]}
        BY <1>4 DEF RecoveryAborts
  <2>3. case[2] \in {proc[r], "dead"}
        BY DEF RecoveryCases
  <2>4. \A s \in Runs : proc'[s] \notin {"gated", "released", "live"}
        BY <2>1, <2>2, <2>3
  <2> QED BY <2>1, <2>4
<1> QED
      BY <1>1, <1>2, <1>3, <1>4 DEF StepOf, Proceed, Command

----------------------------------------------------------------------------
(* A crash leaves every run in an order recovery can start from. *)
LEMMA CrashStep ==
    ASSUME IInv, TypeInv, Crash
    PROVE  RecoveryAlone' /\ \A r \in Runs : RunInv(r)'
<1> USE DEF TypeInv, TypeOK, IInv, RunInv, Crash, volatile
<1>1. RecoveryAlone'
      BY DEF RecoveryAlone, StopPcs
<1>2. SUFFICES ASSUME NEW r \in Runs
               PROVE  RunInv(r)'
      BY <1>1
<1>3. /\ pc'[r] = IF pc[r] \in {"idle", "done"} THEN pc[r] ELSE "lost"
      /\ proc'[r] = CASE proc[r] = "gated"    -> "dead"
                      [] proc[r] = "released" -> "abandoned"
                      [] proc[r] = "live"     -> "orphan"
                      [] OTHER                -> proc[r]
      /\ row' = row /\ launched' = launched /\ decision' = decision
      OBVIOUS
<1>4. LifecycleAt(r)'
      BY DEF LifecycleAt, BeforeAdmission, AfterReservation
<1>5. RowAt(r)'
      BY DEF RowAt, BeforeAdmission, BeforeLaunch, AfterReservation, Supervised, Nonterminal
<1>6. AuthorityAt(r)'
      BY <1>3 DEF AuthorityAt, Authorised, BeforeLaunch, Executing, Processes
<1>7. CommandAt(r)'
      BY <1>3 DEF CommandAt, BeforeAdmission, BeforeLaunch, Supervised, Executing, Processes,
                  CommandStarted
<1>8. VerdictAt(r)'
      BY <1>3 DEF VerdictAt, StopPcs, Processes, CleanupUntold
<1>9. CauseAt(r)'
      BY DEF CauseAt, Supervised, CommandStarted
<1>10. AnswerAt(r)'
      BY DEF AnswerAt
<1> QED BY <1>4, <1>5, <1>6, <1>7, <1>8, <1>9, <1>10

(* The two ends of a startup touch no run. *)
LEMMA BootStep ==
    ASSUME IInv, TypeInv, Boot \/ BootEnds
    PROVE  RecoveryAlone' /\ \A r \in Runs : RunInv(r)'
<1>1. RecoveryAlone'
  <2>1. CASE Boot
        BY <2>1 DEF Boot, IInv, RecoveryAlone, Nonterminal, volatile
  <2>2. CASE BootEnds
        BY <2>2 DEF BootEnds, IInv, RecoveryAlone, volatile
  <2> QED BY <2>1, <2>2
<1>2. SUFFICES ASSUME NEW r \in Runs
               PROVE  RunInv(r)'
      BY <1>1
<1>3. Same(r)
      BY DEF Boot, BootEnds, Same, volatile
<1> QED BY <1>3, SameKeeps DEF IInv

----------------------------------------------------------------------------
(* The invariant. *)

LEMMA InitIInv == Init => IInv
<1> SUFFICES ASSUME Init
             PROVE  IInv
    OBVIOUS
<1> USE DEF Init
<1>1. TypeOK
      BY InitTypeInv DEF TypeInv
<1>2. RecoveryAlone
      BY DEF RecoveryAlone
<1>3. SUFFICES ASSUME NEW r \in Runs
               PROVE  RunInv(r)
      BY <1>1, <1>2 DEF IInv
<1>4. LifecycleAt(r) BY DEF LifecycleAt, RunStates, BeforeAdmission, AfterReservation
<1>5. RowAt(r) BY DEF RowAt, NoRow, BeforeLaunch, AfterReservation, Supervised
<1>6. AuthorityAt(r) BY DEF AuthorityAt, BeforeLaunch, Executing
<1>7. CommandAt(r) BY DEF CommandAt, Executing, Supervised, BeforeAdmission, BeforeLaunch
<1>8. VerdictAt(r) BY DEF VerdictAt, NoRow
<1>9. CauseAt(r) BY DEF CauseAt, NoRow, Supervised
<1>10. AnswerAt(r) BY DEF AnswerAt, Statuses
<1> QED BY <1>4, <1>5, <1>6, <1>7, <1>8, <1>9, <1>10 DEF RunInv

LEMMA StepIInv == TypeInv /\ TypeInv' /\ IInv /\ [Next]_vars => IInv'
<1> SUFFICES ASSUME TypeInv, TypeInv', IInv, [Next]_vars
             PROVE  RecoveryAlone' /\ \A r \in Runs : RunInv(r)'
    BY DEF IInv, TypeInv
<1>1. ASSUME NEW r \in Runs, StepOf(r)
      PROVE  RecoveryAlone' /\ \A s \in Runs : RunInv(s)'
  <2>1. RunInv(r)'
        BY <1>1, LifecycleStep, RowStep, AuthorityStep, CommandStep, VerdictStep, CauseStep,
           AnswerStep DEF RunInv
  <2>2. \A s \in Runs \ {r} : RunInv(s)'
        BY <1>1, OthersSame, SameKeeps DEF IInv
  <2>3. RecoveryAlone'
        BY <1>1, AloneStep
  <2> QED BY <2>1, <2>2, <2>3
<1>2. CASE Crash
      BY <1>2, CrashStep
<1>3. CASE Boot \/ BootEnds
      BY <1>3, BootStep
<1>4. CASE UNCHANGED vars
  <2>1. RecoveryAlone'
        BY <1>4 DEF IInv, RecoveryAlone, Nonterminal, vars, world
  <2>2. \A r \in Runs : Same(r)
        BY <1>4 DEF Same, vars, volatile
  <2> QED BY <2>1, <2>2, SameKeeps DEF IInv
<1> QED BY <1>1, <1>2, <1>3, <1>4 DEF Next, StepOf

LEMMA Invariants == Spec => [](TypeInv /\ IInv)
<1>1. Init => TypeInv /\ IInv
      BY InitTypeInv, InitIInv
<1>2. TypeInv /\ IInv /\ [Next]_vars => (TypeInv /\ IInv)'
      BY StepTypeInv, StepIInv
<1> QED BY <1>1, <1>2, PTL DEF Spec

(* The runner keeps its invariant at every await of every run, through     *)
(* every crash and every recovery.                                         *)
THEOREM InvariantHolds == Spec => []IInv
BY Invariants, PTL

----------------------------------------------------------------------------
(* The lifecycle table (execution/lifecycle.py) never refuses a move of    *)
(* the runner, so no settlement is cut short by an illegal transition.     *)
THEOREM LifecycleIsLegal == Spec => []LegalLifecycle
<1>1. IInv => LegalLifecycle
      BY DEF IInv, RunInv, LifecycleAt, LegalLifecycle, RunStates
<1> QED BY <1>1, InvariantHolds, PTL

(* Nothing executes before its resource identity, the policy decision, the *)
(* user's grant where one is asked for, and BACKEND_STARTING are durable.  *)
THEOREM LaunchAuthority == Spec => []LaunchIsAuthorised
<1>1. IInv => LaunchIsAuthorised
      BY DEF IInv, RunInv, AuthorityAt, Authorised, LaunchIsAuthorised, TypeOK
<1> QED BY <1>1, InvariantHolds, PTL

(* The store's own checks (execution/audit/store.py) never refuse a write  *)
(* of the runner, whatever failed before it.                               *)
THEOREM WritesAccepted == Spec => []WritesAreAccepted
<1>1. ASSUME IInv, NEW r \in Runs, pc[r] \in WritePcs
      PROVE  Accepted(r)
  <2> USE DEF IInv, RunInv, RowAt, Nonterminal
  <2>1. CASE pc[r] = "admit"
        BY <1>1, <2>1, WriteCases DEF BeforeAdmission, NoRow
  <2>2. CASE pc[r] = "attach"
        BY <1>1, <2>2, WriteCases DEF BeforeLaunch, CanAttach
  <2>3. CASE pc[r] = "write_running"
        BY <1>1, <2>3, WriteCases DEF AfterReservation, CanMarkRunning
  <2>4. CASE pc[r] = "settle"
        BY <1>1, <2>4, WriteCases DEF CanFinalize, NamesResource, CommandStarted
  <2>5. CASE pc[r] \in EventPcs
        BY <1>1, <2>5, WriteCases DEF CanAppend, EventPcs, BeforeLaunch, Supervised
  <2> QED BY <1>1, <2>1, <2>2, <2>3, <2>4, <2>5 DEF WritePcs
<1>2. IInv => WritesAreAccepted
      BY <1>1 DEF WritesAreAccepted
<1> QED BY <1>2, InvariantHolds, PTL

(* A row that says nothing ran (refused by policy, rejected by the user,   *)
(* or recovered without a resource) is never wrong about it.               *)
THEOREM SilentVerdicts == Spec => []SilentVerdictsAreTrue
<1>1. IInv => SilentVerdictsAreTrue
      BY DEF IInv, RunInv, VerdictAt, RowAt, SilentVerdictsAreTrue, TypeOK
<1> QED BY <1>1, InvariantHolds, PTL

(* Once a row is terminal its command is gone, unless the row says that    *)
(* cleanup or recovery failed, the cleanup of a run that lost its evidence *)
(* raised, or the supervisor died before its project.                      *)
THEOREM StoppedAtTheEnd == Spec => []StoppedWhenTerminal
<1>1. IInv => StoppedWhenTerminal
      BY DEF IInv, RunInv, VerdictAt, CommandAt, StoppedWhenTerminal
<1> QED BY <1>1, InvariantHolds, PTL

(* A caller of run_prepared who receives a result receives what the        *)
(* terminal row says, and the lifecycle event said the same.               *)
THEOREM AnswersAgree == Spec => []AnswersMatchEvidence
<1>1. IInv => AnswersMatchEvidence
      BY DEF IInv, RunInv, AnswerAt, AnswersMatchEvidence
<1> QED BY <1>1, InvariantHolds, PTL

(* A published terminal stage never contradicts the row of the same run.   *)
THEOREM StagesAgree == Spec => []StagesMatchEvidence
<1>1. IInv => StagesMatchEvidence
      BY DEF IInv, RunInv, AnswerAt, StagesMatchEvidence
<1> QED BY <1>1, InvariantHolds, PTL

(* Every outcome that blames an exit code, a timeout, a limit or a         *)
(* cancellation had that cause.                                            *)
THEOREM OutcomesCaused == Spec => []OutcomesHaveCauses
<1>1. IInv => OutcomesHaveCauses
      BY DEF IInv, RunInv, CauseAt, OutcomesHaveCauses
<1> QED BY <1>1, InvariantHolds, PTL

(* No write of the runner, of a late cancellation or of recovery changes a *)
(* terminal row.                                                           *)
THEOREM VerdictsAreFinal == Spec => VerdictIsFinal
<1> DEFINE Final == \A r \in Runs : row[r].phase = "terminal" => row'[r] = row[r]
<1>1. ASSUME TypeInv, IInv, NEW r \in Runs, StepOf(r), row[r].phase = "terminal"
      PROVE  row'[r] = row[r]
  <2> USE DEF IInv, RunInv, VerdictAt, RowAt, Nonterminal
  <2>1. pc[r] \in StopPcs
        BY <1>1
  <2>2. row' = row \/ RecordCancellation(r) \/ RecoverRow(r) \/ RecoveryAborts(r)
        BY <1>1, <2>1 DEF StopPcs, StepOf, Proceed, Command, At, Submit, Admit, AdmissionFails, Denied,
           Allowed, ApprovalRequested, GateAnswers, GateRaises, VerdictStored,
           PreStartEventLost, StartingStored, StartingEventLost, BackendDrifted, Spawn,
           SpawnEnds, Attach, AttachFails, Started, ReleaseEnds, MarkedRunning,
           MarkRunningFails, UndoStart, TimerFires, ChooseTerminal, RuntimeEvent,
           EvidenceLost, Terminate, Reclaim, Salvage, CleanupHangs, Settle, SettleFails, Exec,
           CommandExits, SupervisorDies, OrphanStops, Cancel, HardCancel
  <2>3. ~RecoverRow(r) /\ ~RecoveryAborts(r)
        BY <1>1 DEF RecoverRow, RecoveryAborts, RecoveryAlone
  <2> QED BY <1>1, <2>2, <2>3, CancellationWrite
<1>2. ASSUME TypeInv, IInv, [Next]_vars
      PROVE  Final
  <2>1. ASSUME NEW r \in Runs, StepOf(r)
        PROVE  Final
        BY <1>1, <1>2, <2>1, OthersSame DEF Same
  <2>2. CASE Crash \/ Boot \/ BootEnds
        BY <2>2 DEF Crash, Boot, BootEnds
  <2>3. CASE UNCHANGED vars
        BY <2>3 DEF vars
  <2> QED BY <1>2, <2>1, <2>2, <2>3 DEF Next, StepOf
<1>3. TypeInv /\ IInv /\ [Next]_vars => [Final]_vars
      BY <1>2
<1> QED BY <1>3, Invariants, PTL DEF Spec, VerdictIsFinal

----------------------------------------------------------------------------
(* The contract. *)

(* A command in flight has a row that still waits for it, or a recovery    *)
(* that failed; and no exit code comes from a project without supervisor.  *)
Traced(r) ==
    /\ proc[r] = "released" => row[r].phase = "pending"
    /\ proc[r] = "abandoned" => \/ row[r].phase = "pending"
                                \/ row[r].outcome = "recovery_failed"
    /\ proc[r] = "stray" => exit[r] \in {"none", "lost"}

RInv == TypeInv /\ IInv /\ \A r \in Runs : Traced(r)

(* The fields of a row that the contract speaks of are untouched. *)
RowKept(r) ==
    /\ row'[r].phase = row[r].phase
    /\ row'[r].outcome = row[r].outcome
    /\ row'[r].resource = row[r].resource

----------------------------------------------------------------------------
(* What a step of a run does to its row. *)

(* The steps that write nothing but an event, or nothing. *)
Quiet(r) ==
    \/ Submit(r) \/ GateAnswers(r) \/ GateRaises(r) \/ TimerFires(r) \/ Command(r)
    \/ Cancel(r) \/ RecordCancellation(r)
    \/ Denied(r) \/ Allowed(r) \/ ApprovalRequested(r) \/ VerdictStored(r)
    \/ PreStartEventLost(r) \/ StartingStored(r) \/ StartingEventLost(r)
    \/ BackendDrifted(r) \/ Spawn(r) \/ SpawnEnds(r) \/ Started(r) \/ ReleaseEnds(r)
    \/ UndoStart(r) \/ ChooseTerminal(r) \/ RuntimeEvent(r) \/ EvidenceLost(r)
    \/ Terminate(r) \/ Reclaim(r) \/ Salvage(r) \/ CleanupHangs(r)

LEMMA QuietKeepsRow ==
    ASSUME TypeInv, NEW r \in Runs, Quiet(r)
    PROVE  RowKept(r)
<1>1. CASE \/ Submit(r) \/ GateAnswers(r) \/ GateRaises(r) \/ TimerFires(r) \/ Command(r)
           \/ Cancel(r) \/ BackendDrifted(r) \/ Spawn(r) \/ SpawnEnds(r) \/ Started(r)
           \/ ReleaseEnds(r) \/ UndoStart(r) \/ ChooseTerminal(r) \/ Terminate(r)
           \/ Reclaim(r) \/ Salvage(r) \/ CleanupHangs(r)
  <2>1. row' = row
        BY <1>1 DEF Submit, GateAnswers, GateRaises, TimerFires, Command, Exec,
           CommandExits, SupervisorDies, OrphanStops, Cancel, BackendDrifted, Spawn,
           SpawnEnds, Started, ReleaseEnds, UndoStart, ChooseTerminal, Terminate,
           Reclaim, Salvage, CleanupHangs
  <2> QED BY <2>1 DEF RowKept
<1>2. CASE \/ Denied(r) \/ Allowed(r) \/ ApprovalRequested(r) \/ VerdictStored(r)
           \/ PreStartEventLost(r) \/ StartingStored(r) \/ StartingEventLost(r)
           \/ RuntimeEvent(r) \/ EvidenceLost(r)
  <2>1. pc[r] \in EventPcs /\ Written(r)
        BY <1>2 DEF Denied, Allowed, ApprovalRequested, VerdictStored, PreStartEventLost,
           StartingStored, StartingEventLost, RuntimeEvent, EvidenceLost, At, EventPcs,
           Written
  <2> QED BY <2>1, EventWrite DEF RowKept
<1>3. CASE RecordCancellation(r)
      BY <1>3, CancellationWrite DEF RowKept
<1> QED BY <1>1, <1>2, <1>3 DEF Quiet

(* The steps that move the row itself, by the await they end. *)
Moves(r) ==
    \/ Admit(r) \/ AdmissionFails(r) \/ Attach(r) \/ AttachFails(r)
    \/ MarkedRunning(r) \/ MarkRunningFails(r) \/ Settle(r) \/ SettleFails(r)

LEMMA MovesAt ==
    ASSUME NEW r \in Runs, Moves(r)
    PROVE  /\ Written(r)
           /\ pc[r] \in {"admit", "attach", "write_running", "settle"}
           /\ pc[r] # "attach" => proc' = proc
           /\ launched' = launched
BY DEF Moves, Admit, AdmissionFails, Attach, AttachFails, MarkedRunning, MarkRunningFails,
   Settle, SettleFails, At, Written

LEMMA StepSplit ==
    ASSUME NEW r \in Runs, StepOf(r)
    PROVE  Quiet(r) \/ Moves(r) \/ HardCancel(r) \/ RecoverRow(r) \/ RecoveryAborts(r)
BY DEF StepOf, Proceed, Quiet, Moves

(* A task cancelled in the middle of a write may leave the write behind.   *)
LEMMA HardCancelRow ==
    ASSUME TypeInv, NEW r \in Runs, HardCancel(r)
    PROVE  /\ RowKept(r) \/ (pc[r] \in {"admit", "attach", "write_running", "settle"} /\ Written(r))
           /\ launched' = launched
           /\ pc[r] # "attach" => proc' = proc
<1>1. row' = row \/ (pc[r] \in WritePcs /\ WriteOk(r))
      BY DEF HardCancel
<1>2. launched' = launched /\ (pc[r] # "attach" => proc' = proc)
      BY DEF HardCancel, At
<1>3. CASE row' = row
      BY <1>2, <1>3 DEF RowKept
<1>4. CASE pc[r] \in EventPcs /\ WriteOk(r)
      BY <1>2, <1>4, EventWrite DEF RowKept, Written
<1>5. CASE pc[r] \in WritePcs \ EventPcs /\ WriteOk(r)
      BY <1>2, <1>5 DEF WritePcs, Written
<1> QED BY <1>1, <1>3, <1>4, <1>5

----------------------------------------------------------------------------
(* How a step moves a command. *)

ProcMoves(r) ==
    \/ proc'[r] = proc[r]
    \/ proc[r] = "none" /\ proc'[r] = "gated"
    \/ /\ proc[r] = "gated" /\ proc'[r] = "released"
       /\ pc[r] = "attach" /\ WriteOk(r) /\ ~TokenSet(r)
    \/ proc[r] \in {"released", "abandoned"} /\ proc'[r] \in {"live", "orphan"} /\ r \in launched'
    \/ proc[r] = "live" /\ proc'[r] = "stray" /\ exit'[r] \in {exit[r], "lost"}
    \/ proc[r] # "none" /\ proc[r] # "stray" /\ proc'[r] = "dead"

LEMMA CommandMovesBy ==
    ASSUME RInv, NEW r \in Runs, StepOf(r)
    PROVE  /\ ProcMoves(r)
           /\ r \in launched' <=> r \in launched \/ Exec(r)
           /\ Exec(r) => /\ proc[r] \in {"released", "abandoned"}
                         /\ proc'[r] \in {"live", "orphan"} /\ RowKept(r)
           /\ exit'[r] # exit[r] => proc[r] = "live"
<1> USE DEF RInv, TypeInv, TypeOK, ProcMoves
<1>1. CASE Exec(r)
      BY <1>1 DEF Exec, RowKept, volatile
<1>2. CASE CommandExits(r)
      BY <1>2 DEF CommandExits, Exec
<1>3. CASE SupervisorDies(r)
      BY <1>3 DEF SupervisorDies, Exec
<1>4. CASE OrphanStops(r)
      BY <1>4 DEF OrphanStops, Exec, volatile
<1>5. CASE /\ StepOf(r)
           /\ ~Exec(r) /\ ~CommandExits(r) /\ ~SupervisorDies(r) /\ ~OrphanStops(r)
  <2>1. launched' = launched /\ exit' = exit
        BY <1>5 DEF StepOf, Proceed, Command, Submit, Admit, AdmissionFails, Denied,
           Allowed, ApprovalRequested, GateAnswers, GateRaises, VerdictStored,
           PreStartEventLost, StartingStored, StartingEventLost, BackendDrifted, Spawn,
           SpawnEnds, Attach, AttachFails, Started, ReleaseEnds, MarkedRunning,
           MarkRunningFails, UndoStart, TimerFires, ChooseTerminal, RuntimeEvent,
           EvidenceLost, Terminate, Reclaim, Salvage, CleanupHangs, Settle, SettleFails, Cancel,
           RecordCancellation, HardCancel, RecoverRow, RecoveryAborts, volatile
  <2>2. ProcMoves(r)
    <3>1. CASE Spawn(r)
          BY <3>1 DEF Spawn, IInv, RunInv, CommandAt, BeforeLaunch, At
    <3>2. CASE Attach(r) \/ AttachFails(r) \/ ReleaseEnds(r)
      <4>1. proc[r] \in {"gated", "released", "live", "dead", "stray"}
            BY <3>2 DEF Attach, AttachFails, ReleaseEnds, At, IInv, RunInv, CommandAt
      <4>2. \/ proc'[r] \in AbortLeaves(proc[r])
            \/ pc[r] = "attach" /\ proc'[r] = "released" /\ WriteOk(r) /\ ~TokenSet(r)
            BY <3>2 DEF Attach, AttachFails, ReleaseEnds, At
      <4>3. pc[r] = "attach" => proc[r] = "gated"
            BY DEF IInv, RunInv, CommandAt
      <4> QED BY <2>1, <4>1, <4>2, <4>3, LeavesWhat
    <3>3. CASE UndoStart(r) \/ Terminate(r) \/ Salvage(r) \/ CleanupHangs(r)
      <4>1. proc'[r] \in StopLeaves(proc[r]) \cup {proc[r]}
            BY <3>3 DEF UndoStart, Terminate, Salvage, CleanupHangs
      <4> QED BY <4>1, LeavesWhat
    <3>4. CASE HardCancel(r)
      <4>1. proc' = proc \/ (pc[r] = "attach" /\ proc'[r] \in AbortLeaves(proc[r]))
            BY <3>4 DEF HardCancel, At
      <4>2. pc[r] = "attach" => proc[r] = "gated"
            BY DEF IInv, RunInv, CommandAt
      <4> QED BY <4>1, <4>2, LeavesWhat
    <3>5. CASE RecoverRow(r) \/ RecoveryAborts(r)
      <4>1. \/ proc'[r] = proc[r]
            \/ proc[r] \in {"orphan", "abandoned"} /\ proc'[r] = "dead"
            BY <3>5, RecoveryWrite DEF RecoveryCases
      <4> QED BY <4>1
    <3>6. CASE /\ StepOf(r)
               /\ ~Spawn(r) /\ ~Attach(r) /\ ~AttachFails(r) /\ ~ReleaseEnds(r)
               /\ ~UndoStart(r) /\ ~Terminate(r) /\ ~Salvage(r) /\ ~CleanupHangs(r) /\ ~HardCancel(r)
               /\ ~RecoverRow(r) /\ ~RecoveryAborts(r)
      <4>1. proc' = proc
            BY <1>5, <3>6 DEF StepOf, Proceed, Command, Submit, Admit, AdmissionFails,
               Denied, Allowed, ApprovalRequested, GateAnswers, GateRaises, VerdictStored,
               PreStartEventLost, StartingStored, StartingEventLost, BackendDrifted,
               SpawnEnds, Started, MarkedRunning, MarkRunningFails, TimerFires,
               ChooseTerminal, RuntimeEvent, EvidenceLost, Reclaim, Settle, SettleFails,
               Cancel, RecordCancellation
      <4> QED BY <4>1
    <3> QED BY <3>1, <3>2, <3>3, <3>4, <3>5, <3>6
  <2> QED BY <1>5, <2>1, <2>2
<1> QED BY <1>1, <1>2, <1>3, <1>4, <1>5

----------------------------------------------------------------------------
(* Traced is kept. *)

(* While a command is in flight its row does not move, except that a       *)
(* recovery that failed closes it.                                         *)
LEMMA InFlightRow ==
    ASSUME RInv, NEW r \in Runs, StepOf(r), proc'[r] \in {"released", "abandoned"}
    PROVE  \/ proc[r] = "gated" /\ row'[r].phase = "pending"
           \/ /\ proc'[r] = proc[r]
              /\ \/ RowKept(r)
                 \/ proc[r] = "abandoned" /\ row'[r].outcome = "recovery_failed"
<1> USE DEF RInv, IInv, RunInv, CommandAt
<1>1. ProcMoves(r)
      BY CommandMovesBy
<1>2. CASE proc[r] = "gated"
  <2>1. pc[r] = "attach" /\ WriteOk(r)
        BY <1>1, <1>2 DEF ProcMoves
  <2> QED BY <1>2, <2>1, AttachWrite DEF Written, RowAt, BeforeLaunch
<1>3. CASE proc[r] # "gated"
  <2>1. proc'[r] = proc[r]
        BY <1>1, <1>3 DEF ProcMoves
  <2>2. pc[r] \notin {"admit", "attach", "write_running", "settle"}
        BY <2>1 DEF BeforeAdmission, BeforeLaunch, Supervised
  <2>3. CASE Quiet(r)
        BY <2>1, <2>3, QuietKeepsRow
  <2>4. CASE HardCancel(r)
        BY <2>1, <2>2, <2>4, HardCancelRow
  <2>5. CASE RecoverRow(r) \/ RecoveryAborts(r)
    <3>1. boot # "up" /\ proc[r] = "abandoned"
          BY <2>1, <2>5 DEF RecoverRow, RecoveryAborts, RecoveryAlone
    <3>2. row[r].resource /\ row[r].phase # "terminal"
          BY <2>5, <3>1 DEF AuthorityAt, Authorised, RecoverRow, RecoveryAborts,
             RecoveryAlone, Nonterminal
    <3>3. PICK case \in RecoveryCases(r) :
             /\ \/ row'[r].phase = row[r].phase /\ row'[r].outcome = row[r].outcome
                \/ row'[r].phase = "terminal" /\ row'[r].outcome = case[1]
             /\ row'[r].resource = row[r].resource
             /\ row'[r].phase = "terminal" /\ row[r].phase # "terminal" => proc'[r] = case[2]
          BY <2>5, RecoveryWrite
    <3>4. case = <<"recovery_failed", proc[r]>> \/ case = <<"recovered_terminated", "dead">>
          BY <3>1, <3>2, <3>3 DEF RecoveryCases
    <3> QED BY <2>1, <3>1, <3>2, <3>3, <3>4 DEF RowKept
  <2> QED BY <2>2, <2>3, <2>4, <2>5, StepSplit, MovesAt
<1> QED BY <1>2, <1>3

LEMMA TracedStep ==
    ASSUME RInv, NEW r \in Runs, StepOf(r)
    PROVE  Traced(r)'
<1> USE DEF RInv, Traced
<1>1. proc'[r] \in {"released", "abandoned"} =>
         row'[r].phase = "pending" \/ (proc'[r] = "abandoned" /\ row'[r].outcome = "recovery_failed")
      BY InFlightRow DEF RowKept
<1>2. proc'[r] = "stray" => exit'[r] \in {"none", "lost"}
      BY CommandMovesBy DEF ProcMoves, IInv, RunInv, CommandAt
<1> QED BY <1>1, <1>2

LEMMA CrashTraced ==
    ASSUME RInv, Crash
    PROVE  \A r \in Runs : Traced(r)'
<1> USE DEF RInv, TypeInv, TypeOK, Traced
<1>1. TAKE r \in Runs
<1>2. /\ row' = row /\ exit' = exit
      /\ proc'[r] = (CASE proc[r] = "gated"    -> "dead"
                       [] proc[r] = "released" -> "abandoned"
                       [] proc[r] = "live"     -> "orphan"
                       [] OTHER                -> proc[r])
      BY DEF Crash, volatile
<1> QED BY <1>2

LEMMA RefinementInv == Spec => []RInv
<1>1. Init => \A r \in Runs : Traced(r)
      BY DEF Init, Traced
<1>2. ASSUME RInv, [Next]_vars
      PROVE  \A r \in Runs : Traced(r)'
  <2>1. ASSUME NEW r \in Runs, StepOf(r)
        PROVE  \A s \in Runs : Traced(s)'
    <3>1. Traced(r)'
          BY <1>2, <2>1, TracedStep
    <3>2. ASSUME NEW s \in Runs \ {r}
          PROVE  Traced(s)'
      <4>1. Same(s)
            BY <1>2, <2>1, OthersSame DEF RInv
      <4>2. Traced(s)
            BY <1>2 DEF RInv
      <4> QED BY <4>1, <4>2 DEF Same, Traced
    <3> QED BY <3>1, <3>2
  <2>2. CASE Crash
        BY <1>2, <2>2, CrashTraced
  <2>3. CASE Boot \/ BootEnds \/ UNCHANGED vars
    <3>1. row' = row /\ proc' = proc /\ exit' = exit
          BY <2>3 DEF Boot, BootEnds, vars, volatile
    <3> QED BY <1>2, <3>1 DEF RInv, Traced
  <2> QED BY <1>2, <2>1, <2>2, <2>3 DEF Next, StepOf
<1> DEFINE AllTraced == \A r \in Runs : Traced(r)
<1>3. Init => AllTraced
      BY <1>1
<1>4. AllTraced /\ TypeInv /\ IInv /\ [Next]_vars => AllTraced'
      BY <1>2 DEF RInv
<1>5. TypeInv /\ IInv /\ AllTraced => RInv
      BY DEF RInv
<1> HIDE DEF AllTraced
<1> QED BY <1>3, <1>4, <1>5, Invariants, PTL DEF Spec

----------------------------------------------------------------------------
(* How a step of one run moves what the contract speaks of. *)

(* ExecutionContract, for the run that moves. *)
EvidenceMoves(r) ==
    \/ EvidenceOf(r)' = EvidenceOf(r)
    \/ EvidenceOf(r) = "absent" /\ EvidenceOf(r)' = "pending"
    \/ /\ EvidenceOf(r) = "pending" /\ row[r].resource /\ CommandOf(r) # "never"
       /\ EvidenceOf(r)' = "running"
    \/ /\ EvidenceOf(r) \in {"pending", "running"}
       /\ EvidenceOf(r)' \in Outcomes
       /\ EvidenceOf(r)' \in {"policy_denied", "approval_rejected", "recovered_no_resource"}
             => CommandOf(r) = "never"
       /\ EvidenceOf(r)' \in {"completed", "failed"} => CommandOf(r) = "ended"
       /\ EvidenceOf(r)' \in CommandOutcomes => EvidenceOf(r) = "running"

ReservationMoves(r) ==
    \/ row'[r].resource <=> row[r].resource
    \/ EvidenceOf(r) = "pending" /\ ~row[r].resource /\ row'[r].resource

ExecutionMoves(r) ==
    \/ CommandOf(r)' = CommandOf(r)
    \/ /\ CommandOf(r) = "never" /\ CommandOf(r)' = "executing" /\ row[r].resource
       /\ EvidenceOf(r) \in {"pending", "recovery_failed"}
    \/ CommandOf(r) = "executing" /\ CommandOf(r)' = "ended"

ReplyMoves(r) ==
    \/ ReplyOf(r)' = ReplyOf(r)
    \/ /\ ReplyOf(r) = "none"
       /\ \/ ReplyOf(r)' = "no_result"
          \/ /\ ReplyOf(r)' \in Statuses
             /\ EvidenceOf(r)' \in Outcomes
             /\ Records(ReplyOf(r)', EvidenceOf(r)')

LEMMA Verdicts == {"absent", "pending", "running"} \cap Outcomes = {}
BY DEF Outcomes, PreExecutionOutcomes, RecoveryOutcomes, CommandOutcomes

LEMMA ExecutionStep ==
    ASSUME RInv, NEW r \in Runs, StepOf(r)
    PROVE  ExecutionMoves(r)
<1> USE DEF RInv, IInv, RunInv, CommandAt, CommandOf, ExecutionMoves, Executing
<1>1. CASE Exec(r)
  <2>1. row[r].resource
        BY <1>1, CommandMovesBy DEF AuthorityAt, Authorised
  <2>2. EvidenceOf(r) \in {"pending", "recovery_failed"}
        BY <1>1, CommandMovesBy DEF EvidenceOf, Traced, RowAt, TypeInv, TypeOK, Rows, Phases
  <2>3. proc[r] \in {"released", "abandoned"} /\ r \notin launched
        BY <1>1, CommandMovesBy
  <2>4. proc'[r] \in Executing
        BY <1>1, CommandMovesBy
  <2>5. CommandOf(r) = "never"
        BY <2>3
  <2>6. CommandOf(r)' = "executing"
        BY <2>4
  <2> QED BY <2>1, <2>2, <2>5, <2>6
<1>2. CASE ~Exec(r)
  <2>1. ProcMoves(r) /\ (r \in launched' <=> r \in launched)
        BY <1>2, CommandMovesBy
  <2> QED BY <2>1 DEF ProcMoves
<1> QED BY <1>1, <1>2

LEMMA ReservationStep ==
    ASSUME RInv, NEW r \in Runs, StepOf(r)
    PROVE  ReservationMoves(r)
<1> USE DEF RInv, IInv, RunInv, ReservationMoves
<1>1. CASE Quiet(r)
      BY <1>1, QuietKeepsRow DEF RowKept
<1>2. CASE Moves(r) \/ HardCancel(r)
  <2>1. \/ RowKept(r)
        \/ pc[r] \in {"admit", "attach", "write_running", "settle"} /\ Written(r)
        BY <1>2, MovesAt, HardCancelRow
  <2>2. CASE pc[r] = "attach" /\ Written(r)
        BY <2>2, AttachWrite DEF RowAt, BeforeLaunch, EvidenceOf
  <2>3. CASE pc[r] = "admit" /\ Written(r)
        BY <2>3, AdmitWrite DEF RowAt, BeforeAdmission, NoRow
  <2>4. CASE pc[r] = "write_running" /\ Written(r)
        BY <2>4, RunningWrite
  <2>5. CASE pc[r] = "settle" /\ Written(r)
        BY <2>5, SettleWrite
  <2> QED BY <2>1, <2>2, <2>3, <2>4, <2>5 DEF RowKept
<1>3. CASE RecoverRow(r) \/ RecoveryAborts(r)
      BY <1>3, RecoveryWrite
<1> QED BY <1>1, <1>2, <1>3, StepSplit

(* What a settlement says of a command is true of it. *)
LEMMA SettledEvidence ==
    ASSUME RInv, NEW r \in Runs, pc[r] = "settle",
           EvidenceOf(r)' = SettledOutcome(r)
    PROVE  EvidenceMoves(r)
<1> USE DEF RInv, IInv, RunInv
<1>1. /\ EvidenceOf(r) = (IF CommandStarted(r) THEN "running" ELSE "pending")
      /\ route[r] # "none"
      BY DEF RowAt, EvidenceOf
<1>2. SettledOutcome(r) \in Outcomes
      BY OutcomeType
<1>3. CASE CommandStarted(r)
  <2>1. /\ SettledOutcome(r) \notin {"policy_denied", "approval_rejected", "recovered_no_resource"}
        /\ SettledOutcome(r) \in {"completed", "failed"} =>
              ~CleanupFailed(r) /\ claim[r] \in {"exit_zero", "exit_nonzero"}
    <3>1. claim[r] \in Claims
          BY DEF TypeInv, TypeOK
    <3>2. CASE CleanupFailed(r)
          BY <1>3, <3>2 DEF SettledOutcome, CommandStarted
    <3>3. CASE ~CleanupFailed(r)
      <4>1. SettledOutcome(r) = ClaimStatus[claim[r]]
            BY <1>3, <3>3 DEF SettledOutcome, CommandStarted
      <4> QED BY <3>1, <3>3, <4>1 DEF ClaimStatus, Claims
    <3> QED BY <3>2, <3>3
  <2>2. claim[r] \in {"exit_zero", "exit_nonzero"} => exit[r] \in {"zero", "nonzero"}
        BY DEF CauseAt
  <2>3. r \in launched /\ (exit[r] \in {"zero", "nonzero"} => proc[r] = "dead")
        BY <1>3 DEF CommandAt, Traced
  <2> QED BY <1>1, <1>2, <1>3, <2>1, <2>2, <2>3 DEF EvidenceMoves, CommandOf, Executing
<1>4. CASE ~CommandStarted(r)
  <2>1. SettledOutcome(r) \in {"policy_denied", "approval_rejected", "failed_to_start"}
        BY <1>4 DEF SettledOutcome
  <2>2. SettledOutcome(r) \in {"policy_denied", "approval_rejected"} =>
           route[r] \in {"denied", "rejected"}
        BY <1>4 DEF SettledOutcome
  <2>3. route[r] \in {"denied", "rejected"} => proc[r] = "none" /\ r \notin launched
        BY DEF CommandAt
  <2> QED BY <1>1, <1>2, <1>4, <2>1, <2>2, <2>3
          DEF EvidenceMoves, CommandOf, Executing, CommandOutcomes
<1> QED BY <1>3, <1>4

LEMMA EvidenceStep ==
    ASSUME RInv, NEW r \in Runs, StepOf(r)
    PROVE  EvidenceMoves(r)
<1> USE DEF RInv, IInv, RunInv
<1>1. CASE RowKept(r)
      BY <1>1 DEF RowKept, EvidenceMoves, EvidenceOf
<1>2. CASE pc[r] = "admit" /\ Written(r)
  <2>1. row[r] = NoRow
        BY <1>2 DEF RowAt, BeforeAdmission
  <2> QED BY <1>2, <2>1, AdmitWrite DEF EvidenceMoves, EvidenceOf, NoRow
<1>3. CASE pc[r] = "attach" /\ Written(r)
      BY <1>3, AttachWrite DEF EvidenceMoves, EvidenceOf
<1>4. CASE pc[r] = "write_running" /\ Written(r)
  <2>1. row[r].phase = "pending" /\ row[r].resource /\ CommandOf(r) # "never"
        BY <1>4 DEF RowAt, AfterReservation, CommandAt, CommandOf
  <2> QED BY <1>4, <2>1, RunningWrite DEF EvidenceMoves, EvidenceOf
<1>5. CASE pc[r] = "settle" /\ Written(r)
  <2>1. row'[r] = row[r] \/ EvidenceOf(r)' = SettledOutcome(r)
        BY <1>5, SettleWrite DEF EvidenceOf
  <2> QED BY <1>5, <2>1, SettledEvidence DEF EvidenceMoves, EvidenceOf
<1>6. CASE RecoverRow(r) \/ RecoveryAborts(r)
  <2>1. row[r].phase \in {"pending", "running"}
        BY <1>6 DEF RecoverRow, RecoveryAborts, RecoveryAlone, Nonterminal
  <2>2. PICK case \in RecoveryCases(r) :
             \/ row'[r].phase = row[r].phase /\ row'[r].outcome = row[r].outcome
             \/ row'[r].phase = "terminal" /\ row'[r].outcome = case[1]
        BY <1>6, RecoveryWrite
  <2>3. /\ case[1] \in RecoveryOutcomes
        /\ case[1] = "recovered_no_resource" => ~row[r].resource
        BY <2>2 DEF RecoveryCases, RecoveryOutcomes
  <2>4. ~row[r].resource => CommandOf(r) = "never"
        BY DEF CommandOf, AuthorityAt, Authorised, CommandAt
  <2> QED BY <2>1, <2>2, <2>3, <2>4
          DEF EvidenceMoves, EvidenceOf, RecoveryOutcomes, Outcomes, CommandOutcomes
<1> QED BY <1>1, <1>2, <1>3, <1>4, <1>5, <1>6, StepSplit, QuietKeepsRow, MovesAt, HardCancelRow

LEMMA ReplyStep ==
    ASSUME RInv, RInv', NEW r \in Runs, StepOf(r)
    PROVE  ReplyMoves(r)
<1> USE DEF RInv
<1>1. answer'[r] = answer[r] \/ pc[r] # "done"
      BY DEF StepOf, Proceed, Command, Submit, Admit, AdmissionFails, Denied,
           Allowed, ApprovalRequested, GateAnswers, GateRaises, VerdictStored,
           PreStartEventLost, StartingStored, StartingEventLost, BackendDrifted, Spawn,
           SpawnEnds, Attach, AttachFails, Started, ReleaseEnds, MarkedRunning,
           MarkRunningFails, UndoStart, TimerFires, ChooseTerminal, RuntimeEvent,
           EvidenceLost, Terminate, Reclaim, Salvage, CleanupHangs, Settle, SettleFails, Exec,
           CommandExits, SupervisorDies, OrphanStops, Cancel, RecordCancellation,
           HardCancel, RecoverRow, RecoveryAborts, At, StopPcs
<1>2. pc[r] # "done" => answer[r] = "none"
      BY DEF IInv, RunInv, AnswerAt
<1>3. answer'[r] \in Statuses \cup Errors \cup {"none"}
      BY DEF TypeInv, TypeOK
<1>4. answer'[r] \in Statuses =>
         row'[r].phase = "terminal" /\ Records(answer'[r], row'[r].outcome)
      BY DEF IInv, RunInv, AnswerAt
<1>5. row'[r].phase = "terminal" => row'[r].outcome \in Outcomes
      BY DEF IInv, RunInv, RowAt, TypeInv, TypeOK, Rows
<1> QED BY <1>1, <1>2, <1>3, <1>4, <1>5, ErrorsAreNot DEF ReplyMoves, ReplyOf, EvidenceOf

----------------------------------------------------------------------------
(* The steps of all runs together. *)

(* A crash changes nothing the contract speaks of: what executed goes on   *)
(* executing, and what was gated never does.                               *)
LEMMA CrashIsSilent ==
    ASSUME RInv, Crash, NEW r \in Runs
    PROVE  CommandOf(r)' = CommandOf(r)
<1> USE DEF RInv, TypeInv, TypeOK, CommandOf, Executing
<1>1. /\ launched' = launched
      /\ proc'[r] = (CASE proc[r] = "gated"    -> "dead"
                       [] proc[r] = "released" -> "abandoned"
                       [] proc[r] = "live"     -> "orphan"
                       [] OTHER                -> proc[r])
      BY DEF Crash
<1> QED BY <1>1

(* A step that no run takes, or that none of the four notices, stutters.   *)
LEMMA SilentSteps ==
    ASSUME RInv, Crash \/ Boot \/ BootEnds \/ UNCHANGED vars
    PROVE  UNCHANGED Contract!vars
<1>1. row' = row /\ answer' = answer
      BY DEF Crash, Boot, BootEnds, vars
<1>2. \A r \in Runs : CommandOf(r)' = CommandOf(r)
  <2>1. CASE Crash
        BY <2>1, CrashIsSilent
  <2>2. CASE Boot \/ BootEnds \/ UNCHANGED vars
        BY <2>2 DEF Boot, BootEnds, vars, CommandOf
  <2> QED BY <2>1, <2>2
<1>3. \A r \in Runs : EvidenceOf(r)' = EvidenceOf(r) /\ ReplyOf(r)' = ReplyOf(r)
      BY <1>1 DEF EvidenceOf, ReplyOf
<1>4. {r \in Runs : row[r].resource}' = {r \in Runs : row[r].resource}
      BY <1>1
<1> QED BY <1>2, <1>3, <1>4 DEF Contract!vars

LEMMA OutcomesAgree ==
    /\ Contract!Outcomes = Outcomes
    /\ Contract!CommandOutcomes = CommandOutcomes
BY DEF Contract!Outcomes, Outcomes, Contract!CommandOutcomes, CommandOutcomes,
   Contract!PreExecutionOutcomes, PreExecutionOutcomes, Contract!RecoveryOutcomes,
   RecoveryOutcomes

(* A step of one run is a step of the contract, or none. *)
LEMMA StepImplements ==
    ASSUME RInv, RInv', NEW r \in Runs, StepOf(r)
    PROVE  Contract!Step(r)
<1>1. \A s \in Runs \ {r} :
         /\ EvidenceOf(s)' = EvidenceOf(s) /\ CommandOf(s)' = CommandOf(s)
         /\ ReplyOf(s)' = ReplyOf(s) /\ (row'[s].resource <=> row[s].resource)
  <2>1. TAKE s \in Runs \ {r}
  <2>2. Same(s)
        BY OthersSame DEF RInv
  <2> QED BY <2>2 DEF Same, EvidenceOf, CommandOf, ReplyOf
<1>2. Contract!EvidenceAdvances(r)
      BY <1>1, EvidenceStep, OutcomesAgree DEF Contract!EvidenceAdvances, EvidenceMoves
<1>3. Contract!ResourceReserved(r)
      BY <1>1, ReservationStep DEF Contract!ResourceReserved, ReservationMoves
<1>4. Contract!CommandMoves(r)
      BY <1>1, ExecutionStep DEF Contract!CommandMoves, ExecutionMoves
<1>5. Contract!Replies(r)
  <2> DEFINE replies == [s \in Runs |-> ReplyOf(s)]
             evidence == [s \in Runs |-> EvidenceOf(s)]
  <2>1. ReplyMoves(r) /\ evidence'[r] = EvidenceOf(r)'
        BY ReplyStep
  <2>2. CASE ReplyOf(r)' = ReplyOf(r)
    <3>1. replies' = replies
          BY <1>1, <2>2
    <3> QED BY <3>1 DEF Contract!Replies
  <2>3. ASSUME NEW what, ReplyOf(r)' = what
        PROVE  replies' = [replies EXCEPT ![r] = what]
        BY <1>1, <2>3
  <2>4. CASE ReplyOf(r) = "none" /\ ReplyOf(r)' = "no_result"
        BY <2>3, <2>4 DEF Contract!Replies
  <2>5. CASE /\ ReplyOf(r) = "none" /\ ReplyOf(r)' \in Statuses
             /\ EvidenceOf(r)' \in Outcomes
             /\ Records(ReplyOf(r)', EvidenceOf(r)')
    <3>1. replies[r] = "none" /\ replies' = [replies EXCEPT ![r] = ReplyOf(r)']
          BY <2>3, <2>5
    <3>2. \E s \in Statuses :
             /\ evidence'[r] \in Contract!Outcomes /\ Records(s, evidence'[r])
             /\ replies' = [replies EXCEPT ![r] = s]
          BY <2>1, <2>5, <3>1, OutcomesAgree
    <3> QED BY <3>1, <3>2 DEF Contract!Replies
  <2> QED BY <2>1, <2>2, <2>4, <2>5 DEF ReplyMoves
<1> QED BY <1>2, <1>3, <1>4, <1>5 DEF Contract!Step

LEMMA InitImplements == Init => Contract!Init
BY DEF Init, Contract!Init, EvidenceOf, CommandOf, ReplyOf, NoRow, Executing, Errors

(* The runner, its store, its backend and startup recovery together keep   *)
(* the contract of the control plane.                                      *)
THEOREM ContractIsKept == Spec => KeepsContract
<1>1. RInv /\ RInv' /\ [Next]_vars => [Contract!Next]_(Contract!vars)
  <2> SUFFICES ASSUME RInv, RInv', [Next]_vars
               PROVE  [Contract!Next]_(Contract!vars)
      OBVIOUS
  <2>1. ASSUME NEW r \in Runs, StepOf(r)
        PROVE  Contract!Next
        BY <2>1, StepImplements DEF Contract!Next
  <2>2. CASE Crash \/ Boot \/ BootEnds \/ UNCHANGED vars
        BY <2>2, SilentSteps
  <2> QED BY <2>1, <2>2 DEF Next, StepOf
<1> QED BY <1>1, InitImplements, RefinementInv, PTL DEF Spec, KeepsContract, Contract!Spec

----------------------------------------------------------------------------
(* A run whose token is set before its launch gate opens never executes:   *)
(* start() reads the token between the durable identity and START.         *)
THEOREM GateIsHeld == Spec => CancelHoldsTheGate
<1> DEFINE Held == \A r \in cancelled : proc[r] \in {"none", "gated"} => proc'[r] # "released"
<1>1. ASSUME RInv, NEW r \in Runs, StepOf(r)
      PROVE  Held
  <2>1. r \in cancelled /\ proc[r] \in {"none", "gated"} => proc'[r] # "released"
        BY <1>1, CommandMovesBy DEF ProcMoves, TokenSet
  <2>2. \A s \in Runs \ {r} : proc'[s] = proc[s]
        BY <1>1, OthersSame DEF RInv, Same
  <2>3. cancelled \subseteq Runs
        BY <1>1 DEF RInv, TypeInv, TypeOK
  <2> QED BY <2>1, <2>2, <2>3
<1>2. ASSUME RInv, Crash \/ Boot \/ BootEnds \/ UNCHANGED vars
      PROVE  Held
  <2>1. \A r \in Runs : proc'[r] # "released"  \/ proc'[r] = proc[r]
        BY <1>2 DEF Crash, Boot, BootEnds, vars, RInv, TypeInv, TypeOK
  <2>2. cancelled \subseteq Runs
        BY <1>2 DEF RInv, TypeInv, TypeOK
  <2> QED BY <2>1, <2>2
<1>3. RInv /\ [Next]_vars => [Held]_vars
      BY <1>1, <1>2 DEF Next, StepOf
<1> QED BY <1>3, RefinementInv, PTL DEF Spec, CancelHoldsTheGate
=============================================================================
