------------------------- MODULE ExecutionInvariant -------------------------
(***************************************************************************)
(* Why the runner is right: what holds of a run at every await of its      *)
(* coroutine.  The parts are inductive together; they imply the safety     *)
(* properties of ExecutionRun.tla, which are not inductive by themselves.  *)
(***************************************************************************)
EXTENDS ExecutionRun

(* Awaits by how far the run has come. *)
BeforeAdmission == {"idle", "admit"}
BeforeLaunch ==
    {"write_denied", "write_allowed", "write_requested", "gate", "write_verdict",
     "write_starting", "spawn", "attach"}
AfterReservation == {"release", "write_running"}
Supervised ==
    {"watch", "write_reason", "write_terminating", "terminate", "reclaim", "salvage"}

(* The lifecycle state a run has at an await. *)
LifecycleAt(r) ==
    /\ state[r] \in RunStates
    /\ pc[r] \in BeforeAdmission => state[r] = "admitted"
    /\ pc[r] \in {"write_denied", "write_allowed"} => state[r] = "policy_evaluated"
    /\ pc[r] \in {"write_requested", "gate", "write_verdict"} => state[r] = "awaiting_approval"
    /\ pc[r] = "write_starting" => state[r] = "registered"
    /\ pc[r] \in {"spawn", "attach", "undo"} \cup AfterReservation => state[r] = "starting"
    /\ pc[r] = "watch" => state[r] = "running"
    /\ pc[r] \in {"write_reason", "write_terminating", "terminate", "salvage"} =>
          state[r] = "terminating"
    /\ pc[r] = "reclaim" => state[r] \in {"running", "terminating"}
    /\ pc[r] = "settle" => IF route[r] = "evidence_lost" THEN state[r] = "terminating"
                           ELSE state[r] = "finalizing"

(* The durable row a run has at an await.  A row becomes terminal only     *)
(* when its run returns, or in recovery.                                   *)
RowAt(r) ==
    /\ pc[r] \in BeforeAdmission => row[r] = NoRow
    /\ pc[r] \in BeforeLaunch => row[r].phase = "pending" /\ ~row[r].resource
    /\ pc[r] \in AfterReservation => row[r].phase = "pending" /\ row[r].resource
    /\ pc[r] \in {"undo", "hung"} => Nonterminal(row[r]) /\ row[r].resource
    /\ pc[r] \in Supervised => row[r].phase = "running"
    /\ pc[r] = "settle" => IF CommandStarted(r) THEN row[r].phase = "running"
                           ELSE row[r].phase = "pending"
    /\ pc[r] = "settle" => route[r] # "none"
    /\ row[r].phase = "running" => row[r].resource
    /\ r \in attached => row[r].resource
    /\ row[r].phase = "absent" => row[r] = NoRow
    /\ row[r].outcome # "none" <=> row[r].phase = "terminal"

(* Recovery runs alone: the process it belongs to has no coroutine yet.    *)
RecoveryAlone ==
    /\ boot # "up" => /\ noting = {} /\ active = {}
                      /\ \A r \in Runs : pc[r] \in StopPcs
                      /\ \A r \in Runs : proc[r] \notin {"gated", "released", "live"}
    /\ todo # {} => boot \in {"recovering", "tainted"}
    /\ \A r \in todo : Nonterminal(row[r])

(* What must be durable before a command may execute. *)
Authorised(r) ==
    /\ row[r].resource
    /\ {"policy_allowed", "backend_starting"} \subseteq row[r].trail
    /\ decision[r] = "ask" => "approval_granted" \in row[r].trail
    /\ "approval_rejected" \notin row[r].trail

AuthorityAt(r) ==
    /\ pc[r] \in BeforeLaunch \ {"write_denied"} => "approval_rejected" \notin row[r].trail
    /\ pc[r] \in {"write_requested", "gate", "write_verdict", "write_starting", "spawn", "attach"}
          => "policy_allowed" \in row[r].trail
    /\ pc[r] \in {"write_starting", "spawn", "attach"} /\ decision[r] = "ask"
          => "approval_granted" \in row[r].trail
    /\ pc[r] \in {"spawn", "attach"} => "backend_starting" \in row[r].trail
    /\ (proc[r] \in {"released", "abandoned"} \cup Executing \/ r \in launched)
          => Authorised(r)

(* The command a run has at an await. *)
CommandAt(r) ==
    /\ pc[r] \in (BeforeAdmission \cup BeforeLaunch) \ {"attach"} =>
          proc[r] = "none" /\ r \notin launched
    /\ pc[r] = "attach" => proc[r] = "gated" /\ r \notin launched
    /\ proc[r] = "gated" => pc[r] = "attach"
    /\ proc[r] \in {"none", "gated", "released", "abandoned"} => r \notin launched
    /\ proc[r] \in Executing => r \in launched
    /\ pc[r] = "release" => proc[r] \in {"released", "live", "dead", "stray"}
    /\ pc[r] \in {"write_running", "undo", "hung"} \cup Supervised =>
          proc[r] \in {"live", "dead", "stray"} /\ r \in launched
    /\ pc[r] = "settle" /\ ~CommandStarted(r) => proc[r] \in {"none", "dead", "stray"}
    /\ pc[r] = "settle" /\ CommandStarted(r) =>
          /\ r \in launched
          /\ proc[r] \in {"dead", "stray"} \cup (IF clean[r] = "complete" THEN {} ELSE {"live"})
    /\ pc[r] \in {"settle", "write_verdict"} /\ route[r] \in {"denied", "rejected"} =>
          proc[r] = "none"
    /\ proc[r] = "stray" => "leak" \in Faults
    /\ exit[r] # "none" => proc[r] \in {"dead", "stray"}

(* What a verdict says of the command.                                     *)
VerdictAt(r) ==
    row[r].phase = "terminal" =>
        /\ pc[r] \in StopPcs
        /\ row[r].outcome \in {"policy_denied", "approval_rejected", "recovered_no_resource"}
              => r \notin launched /\ proc[r] \in {"none", "dead"}
        /\ row[r].outcome \notin {"cleanup_failed", "recovery_failed"} /\ ~CleanupUntold(r)
              => proc[r] \in {"none", "dead", "stray"}

(* Why a terminal reason was claimed. *)
CauseAt(r) ==
    /\ claim[r] = "exit_zero" => exit[r] = "zero"
    /\ claim[r] = "exit_nonzero" => exit[r] = "nonzero"
    /\ claim[r] = "exit_no_code" => exit[r] = "no_code"
    /\ claim[r] = "resource_limit" => exit[r] = "limit"
    /\ claim[r] = "output_limit" => "output_limit" \in timers[r]
    /\ claim[r] = "timeout" => "timeout" \in timers[r]
    /\ claim[r] = "cancellation" =>
          r \in cancelled \/ "pump_failed" \in timers[r] \/ exit[r] = "lost"
    /\ pc[r] = "write_reason" => claim[r] \notin NaturalExits
    /\ pc[r] \in Supervised \ {"watch"} => claim[r] # "none"
    /\ pc[r] = "settle" /\ CommandStarted(r) => claim[r] # "none"
    /\ row[r].outcome = "completed" => exit[r] = "zero"
    /\ row[r].outcome = "failed" => exit[r] = "nonzero"
    /\ row[r].outcome = "timed_out" => "timeout" \in timers[r]
    /\ row[r].outcome = "limit_exceeded" => "output_limit" \in timers[r] \/ exit[r] = "limit"
    /\ row[r].outcome = "cancelled" => \/ r \in cancelled
                                      \/ "pump_failed" \in timers[r]
                                      \/ exit[r] \in {"no_code", "lost"}

(* What was published and returned agrees with the row. *)
AnswerAt(r) ==
    /\ answer[r] # "none" \/ stage[r] # "none" => pc[r] = "done"
    /\ answer[r] \in Statuses => /\ row[r].phase = "terminal"
                                 /\ Records(answer[r], row[r].outcome)
                                 /\ stage[r] = answer[r]
    /\ stage[r] # "none" /\ row[r].outcome \in Outcomes \ RecoveryOutcomes
          => row[r].outcome = "cleanup_failed" \/ Records(stage[r], row[r].outcome)

RunInv(r) ==
    /\ LifecycleAt(r) /\ RowAt(r) /\ AuthorityAt(r) /\ CommandAt(r) /\ VerdictAt(r)
    /\ CauseAt(r) /\ AnswerAt(r)

(* The inductive invariant of the runner. *)
IInv == TypeOK /\ RecoveryAlone /\ \A r \in Runs : RunInv(r)
=============================================================================
