---------------------------- MODULE ExecutionRun ----------------------------
(***************************************************************************)
(* The execution runner (execution/runner.py): from a request to one       *)
(* durable verdict and one answer to the caller.                           *)
(*                                                                         *)
(* Every run is a coroutine; pc[r] names the await it is suspended at, and *)
(* one action is the code between two awaits, which the event loop never   *)
(* interleaves.  Around it: cancellation (a token anyone may set, or a     *)
(* hard task cancellation), the user behind the approval gate, the command *)
(* with its supervisor, the audit database, a crash of TrueCoder at any    *)
(* await, and startup recovery by the next process.                        *)
(*                                                                         *)
(* One process at a time owns the database here; StartupRecovery.tla drops *)
(* that assumption.  The backend keeps the contract of backends/base.py,   *)
(* with the POSIX backend's gate; PosixLaunch.tla models that backend.     *)
(***************************************************************************)
EXTENDS AuditRecord, Naturals

CONSTANTS
    Runs,       \* the executions requested
    Faults,     \* what may go wrong around the runner
    MaxCrashes  \* bound on the crashes of TrueCoder

FaultKinds ==
    {"write_fails",      \* an audit write raises and nothing was committed
     "write_late",       \* an audit write commits and then raises
     "hard_cancel",      \* the task awaiting the run is cancelled
     "crash",            \* TrueCoder disappears
     "stuck",            \* a command survives terminate(), cleanup() fails
     "raises",           \* cleanup() raises, whatever it leaves
     "full",             \* nobody reads the output queue, and it is full
     "leak"}             \* the supervisor dies before its project does

ASSUME FaultsAssumption == Faults \subseteq FaultKinds
ASSUME CrashesAssumption == MaxCrashes \in Nat

VARIABLES
    pc,         \* the await each run is suspended at
    state,      \* LifecycleState.current
    decision,   \* the policy decision, or that no backend was selected
    cancelled,  \* runs whose CancellationToken is set
    noting,     \* runs whose cancellation event is still to be appended
    active,     \* ExecutionRegistry._entries
    row,        \* the durable audit row
    attached,   \* runs whose attach callback returned (the list `attached')
    proc,       \* the command as the operating system sees it
    launched,   \* runs whose command ever executed
    exit,       \* what the backend's wait() reports, once the command is over
    timers,     \* timeout, output limit and pump failure watchers that fired
    claim,      \* TerminalArbiter._claim
    reaped,     \* FALSE once the safety deadline passed without an exit
    clean,      \* the CleanupResult, "unknown" where there is none
    route,      \* which caller of _settle is settling the run
    stage,      \* the terminal lifecycle stage published
    answer,     \* what the caller of run_prepared received
    boot,       \* the TrueCoder process
    todo,       \* rows leased by the running startup recovery
    crashes     \* crashes so far

volatile == <<attached, exit, timers, claim, reaped, clean, route>>
world == <<boot, todo, crashes>>
vars == <<pc, state, decision, cancelled, noting, active, row, proc, launched,
          volatile, stage, answer, world>>

----------------------------------------------------------------------------
(* Vocabulary *)

RunStates ==
    {"admitted", "policy_evaluated", "prepared", "awaiting_approval",
     "registered", "starting", "running", "terminating", "finalizing",
     "terminal"}

AllowedTransitions ==
    [admitted          |-> {"policy_evaluated"},
     policy_evaluated  |-> {"prepared", "finalizing"},
     prepared          |-> {"awaiting_approval", "registered", "finalizing"},
     awaiting_approval |-> {"registered", "finalizing"},
     registered        |-> {"starting", "finalizing"},
     starting          |-> {"running", "finalizing"},
     running           |-> {"terminating", "finalizing"},
     terminating       |-> {"finalizing"},
     finalizing        |-> {"terminal"},
     terminal          |-> {},
     illegal           |-> {}]

(* LifecycleState.transition: a move the table does not allow raises.      *)
Moved(s, target) == IF target \in AllowedTransitions[s] THEN target ELSE "illegal"

Statuses ==
    {"completed", "failed", "timed_out", "cancelled", "limit_exceeded",
     "denied", "failed_to_start"}

(* A run is never told "withheld": the code raises AuditPersistenceError.  *)
Errors ==
    {"audit_unavailable", "withheld", "evidence_lost", "start_error",
     "backend_unavailable", "reap_error", "cleanup_error", "approval_error",
     "task_cancelled"}

Decisions == {"unset", "denied", "refused", "allowed", "ask", "ask_no_gate"}

Processes ==
    {"none",
     "gated",      \* supervisor ready, project blocked on the launch gate
     "released",   \* START is in the pipe
     "abandoned",  \* as released, but TrueCoder has disappeared
     "live",       \* the command executes under its supervisor
     "orphan",     \* as live, but TrueCoder has disappeared
     "stray",      \* the command executes and its supervisor is dead
     "dead"}

Executing == {"live", "orphan", "stray"}

Exits == {"none", "zero", "nonzero", "limit", "no_code", "lost"}

(* A CleanupResult, or none where cleanup() raised. *)
Cleanups == {"complete", "incomplete", "unknown"}

Claims ==
    {"none", "exit_zero", "exit_nonzero", "exit_no_code", "output_limit",
     "resource_limit", "cancellation", "timeout"}

NaturalExits == {"exit_zero", "exit_nonzero", "exit_no_code"}

(* TERMINAL_PRIORITY: the smaller rank wins. *)
Rank ==
    [exit_zero |-> 0, exit_nonzero |-> 0, exit_no_code |-> 0, output_limit |-> 1,
     resource_limit |-> 2, cancellation |-> 3, timeout |-> 4]

Routes ==
    {"none", "cancelled", "denied", "rejected", "start_failed", "start_raised",
     "event_lost", "evidence_lost", "supervised"}

EventPcs ==
    {"write_denied", "write_allowed", "write_requested", "write_verdict",
     "write_starting", "write_reason", "write_terminating"}

WritePcs == EventPcs \cup {"admit", "attach", "write_running", "settle"}

StopPcs == {"idle", "done", "lost"}

Pcs == WritePcs \cup StopPcs \cup
       {"gate", "spawn", "release", "undo", "watch", "terminate", "reclaim", "salvage",
        "hung"}

(* Mutant: a command ended without an exit code counts as a failure. *)
MutantStatusOfNoCode ==
    [exit_zero    |-> "completed",      exit_nonzero   |-> "failed",
     exit_no_code |-> "failed",         cancellation   |-> "cancelled",
     output_limit |-> "limit_exceeded", resource_limit |-> "limit_exceeded",
     timeout      |-> "timed_out",      none           |-> "cancelled"]

(* Mutant: the termination reason is used for the status. *)
MutantStatusIsReason == [c \in Claims |-> c]

(* The status a claim stands for (claim_for_exit and its siblings), which  *)
(* is also the name of its outcome and of its lifecycle stage.             *)
ClaimStatus ==
    [exit_zero    |-> "completed",      exit_nonzero   |-> "failed",
     exit_no_code |-> "cancelled",      cancellation   |-> "cancelled",
     output_limit |-> "limit_exceeded", resource_limit |-> "limit_exceeded",
     timeout      |-> "timed_out",      none           |-> "cancelled"]

(* Mutant: the token is not read after the awaits. *)
MutantTokenUnread(r) == FALSE

(* CancellationToken.cancelled *)
TokenSet(r) == r \in cancelled

----------------------------------------------------------------------------
(* Audit writes *)

(* The event each suspended append_event is about to store. *)
EventAt ==
    [write_denied   |-> "policy_denied",      write_allowed     |-> "policy_allowed",
     write_requested |-> "approval_requested", write_verdict    |-> "approval_granted",
     write_starting |-> "backend_starting",   write_terminating |-> "termination_started"]

(* _EVENT_BY_SOURCE *)
EventOfClaim ==
    [timeout        |-> "timeout_reached", cancellation |-> "cancellation_requested",
     resource_limit |-> "limit_reached",   output_limit |-> "limit_reached"]

PendingEvent(r) ==
    CASE pc[r] = "write_reason" -> EventOfClaim[claim[r]]
      [] pc[r] = "write_verdict" /\ route[r] = "rejected" -> "approval_rejected"
      [] OTHER -> EventAt[pc[r]]

CommandStarted(r) == route[r] \in {"supervised", "evidence_lost"}

(* TerminalMaterial.cleanup_incomplete: no result at all does not count.   *)
CleanupFailed(r) == clean[r] = "incomplete"

(* Mutant: a rejection is recorded as a failed start. *)
MutantRejectionAsFailedStart(r) ==
    CASE CommandStarted(r) /\ CleanupFailed(r)  -> "cleanup_failed"
      [] CommandStarted(r) /\ ~CleanupFailed(r) -> ClaimStatus[claim[r]]
      [] route[r] = "denied"             -> "policy_denied"
      [] OTHER                           -> "failed_to_start"

(* build_finalization: incomplete cleanup replaces the outcome. *)
SettledOutcome(r) ==
    CASE CommandStarted(r) /\ CleanupFailed(r)  -> "cleanup_failed"
      [] CommandStarted(r) /\ ~CleanupFailed(r) -> ClaimStatus[claim[r]]
      [] route[r] = "denied"             -> "policy_denied"
      [] route[r] = "rejected"           -> "approval_rejected"
      [] OTHER                           -> "failed_to_start"

(* Mutant: the finalization of a supervised run drops its resource. *)
MutantResourceDropped(r) == r \in attached /\ ~CommandStarted(r)

NamesResource(r) == CommandStarted(r) \/ r \in attached

(* Does the store accept the write the run is suspended at, and what does  *)
(* the row hold once it is committed.                                      *)
Accepted(r) ==
    CASE pc[r] = "admit"         -> row[r].phase = "absent"
      [] pc[r] = "attach"        -> CanAttach(row[r])
      [] pc[r] = "write_running" -> CanMarkRunning(row[r])
      [] pc[r] = "settle"        ->
            CanFinalize(row[r], IF CommandStarted(r) THEN "yes" ELSE "no", NamesResource(r))
      [] OTHER                   -> CanAppend(row[r])

WrittenRow(r) ==
    CASE pc[r] = "admit"         -> CreatePending(row[r])
      [] pc[r] = "attach"        -> AttachResource(row[r])
      [] pc[r] = "write_running" -> MarkRunning(row[r])
      [] pc[r] = "settle"        -> Finalize(row[r], SettledOutcome(r))
      [] OTHER                   -> AppendEvent(row[r], PendingEvent(r))

(* Mutant: an error of the store is swallowed. *)
MutantWriteSwallowed(r) == row' \in {row, [row EXCEPT ![r] = WrittenRow(r)]}

(* SQLiteAuditStore._write: the commit succeeds and returns; or nothing is *)
(* committed and it raises; or securing the sidecar files fails after the  *)
(* commit, and it raises all the same.                                     *)
WriteOk(r) == Accepted(r) /\ row' = [row EXCEPT ![r] = WrittenRow(r)]

WriteRaises(r) ==
    \/ /\ "write_fails" \in Faults \/ ~Accepted(r)
       /\ row' = row
    \/ /\ "write_late" \in Faults
       /\ Accepted(r)
       /\ row' = [row EXCEPT ![r] = WrittenRow(r)]

----------------------------------------------------------------------------
(* Control helpers *)

At(r, where) == pc[r] = where

Goto(r, where) == pc' = [pc EXCEPT ![r] = where]

Enter(r, target) == state' = [state EXCEPT ![r] = Moved(@, target)]

EnterBoth(r, first, second) ==
    state' = [state EXCEPT ![r] = Moved(Moved(@, first), second)]

(* Suspend in _settle on behalf of one of its callers. *)
SettleAs(r, why) ==
    /\ Goto(r, "settle")
    /\ route' = [route EXCEPT ![r] = why]

(* The coroutine ends: the registry entry goes and the caller resumes. *)
Return(r, what) ==
    /\ Goto(r, "done")
    /\ answer' = [answer EXCEPT ![r] = what]
    /\ active' = active \ {r}

(* TERMINAL_STAGES are published at most once per run. *)
PublishTerminal(r, what) == stage' = [stage EXCEPT ![r] = what]

(* What terminate() can leave of a command; without its supervisor's pid   *)
(* there is nothing left to signal.                                        *)
StopLeaves(p) ==
    IF p = "live" THEN {"dead"} \cup (IF "stuck" \in Faults THEN {"live"} ELSE {})
    ELSE {p}

(* Mutant: an aborted start leaves the command alone. *)
MutantAbortForgets(p) == {p}

(* What aborting a start can leave (_StartResources.abort).  Before the    *)
(* gate opens the blocked project dies; afterwards only the supervisor is  *)
(* signalled, and it may be killed before it has stopped the project.      *)
AbortLeaves(p) ==
    CASE p \in {"gated", "released"} -> {"dead"}
      [] p = "live" -> {"dead"} \cup (IF "leak" \in Faults THEN {"stray"} ELSE {})
      [] OTHER      -> {p}

----------------------------------------------------------------------------
Init ==
    /\ pc = [r \in Runs |-> "idle"]
    /\ state = [r \in Runs |-> "admitted"]
    /\ decision = [r \in Runs |-> "unset"]
    /\ cancelled = {} /\ noting = {} /\ active = {}
    /\ row = [r \in Runs |-> NoRow]
    /\ attached = {}
    /\ proc = [r \in Runs |-> "none"]
    /\ launched = {}
    /\ exit = [r \in Runs |-> "none"]
    /\ timers = [r \in Runs |-> {}]
    /\ claim = [r \in Runs |-> "none"]
    /\ reaped = [r \in Runs |-> TRUE]
    /\ clean = [r \in Runs |-> "complete"]
    /\ route = [r \in Runs |-> "none"]
    /\ stage = [r \in Runs |-> "none"]
    /\ answer = [r \in Runs |-> "none"]
    /\ boot = "up" /\ todo = {} /\ crashes = 0

----------------------------------------------------------------------------
(* Admission, policy and approval *)

(* ExecutionService.execute picks the route; the runner publishes          *)
(* "requested" and awaits admission.                                       *)
Submit(r) ==
    /\ At(r, "idle") /\ boot = "up"
    /\ \E d \in Decisions \ {"unset"} : decision' = [decision EXCEPT ![r] = d]
    /\ Goto(r, "admit")
    /\ UNCHANGED <<state, cancelled, noting, active, row, proc, launched,
                   volatile, stage, answer, world>>

(* Only run_prepared registers the run: deny and refuse never do. *)
Admit(r) ==
    /\ At(r, "admit") /\ WriteOk(r)
    /\ \/ /\ decision[r] = "refused"
          /\ EnterBoth(r, "policy_evaluated", "finalizing")
          /\ SettleAs(r, "start_failed")
          /\ UNCHANGED active
       \/ /\ decision[r] = "denied"
          /\ Enter(r, "policy_evaluated")
          /\ Goto(r, "write_denied")
          /\ UNCHANGED <<active, route>>
       \/ /\ decision[r] \in {"allowed", "ask", "ask_no_gate"}
          /\ Enter(r, "policy_evaluated")
          /\ Goto(r, "write_allowed")
          /\ active' = active \cup {r}
          /\ UNCHANGED route
    /\ UNCHANGED <<decision, cancelled, noting, proc, launched, attached, exit,
                   timers, claim, reaped, clean, stage, answer, world>>

AdmissionFails(r) ==
    /\ At(r, "admit") /\ WriteRaises(r)
    /\ Return(r, "audit_unavailable")
    /\ UNCHANGED <<state, decision, cancelled, noting, proc, launched, volatile,
                   stage, world>>

(* _cancel_before_start, up to its _settle. *)
CancelBeforeStart(r) ==
    /\ Enter(r, "finalizing")
    /\ SettleAs(r, "cancelled")

Denied(r) ==
    /\ At(r, "write_denied") /\ WriteOk(r)
    /\ Enter(r, "finalizing")
    /\ SettleAs(r, "denied")
    /\ UNCHANGED <<decision, cancelled, noting, active, proc, launched, attached,
                   exit, timers, claim, reaped, clean, stage, answer, world>>

(* POLICY_ALLOWED is durable: the token is read, then _approve starts, and *)
(* with no approval to ask for the token is read again.                    *)
Allowed(r) ==
    /\ At(r, "write_allowed") /\ WriteOk(r)
    /\ \/ TokenSet(r) /\ CancelBeforeStart(r)
       \/ /\ ~TokenSet(r) /\ decision[r] = "ask"
          /\ EnterBoth(r, "prepared", "awaiting_approval")
          /\ Goto(r, "write_requested")
          /\ UNCHANGED route
       \/ /\ ~TokenSet(r) /\ decision[r] = "ask_no_gate"
          /\ EnterBoth(r, "prepared", "finalizing")
          /\ SettleAs(r, "rejected")
       \/ /\ ~TokenSet(r) /\ decision[r] = "allowed"
          /\ EnterBoth(r, "prepared", "registered")
          /\ Goto(r, "write_starting")
          /\ UNCHANGED route
    /\ UNCHANGED <<decision, cancelled, noting, active, proc, launched, attached,
                   exit, timers, claim, reaped, clean, stage, answer, world>>

ApprovalRequested(r) ==
    /\ At(r, "write_requested") /\ WriteOk(r)
    /\ Goto(r, "gate")
    /\ UNCHANGED <<state, decision, cancelled, noting, active, proc, launched,
                   volatile, stage, answer, world>>

(* The user answers.  The token is not watched while the gate is awaited.  *)
GateAnswers(r) ==
    /\ At(r, "gate")
    /\ \E verdict \in {"none", "rejected"} : route' = [route EXCEPT ![r] = verdict]
    /\ Goto(r, "write_verdict")
    /\ UNCHANGED <<state, decision, cancelled, noting, active, row, proc, launched,
                   attached, exit, timers, claim, reaped, clean, stage, answer, world>>

(* An exception from the gate leaves the row pending. *)
GateRaises(r) ==
    /\ At(r, "gate")
    /\ Return(r, "approval_error")
    /\ UNCHANGED <<state, decision, cancelled, noting, row, proc, launched,
                   volatile, stage, world>>

(* The verdict is durable.  A cancellation outranks it, granted or not. *)
VerdictStored(r) ==
    /\ At(r, "write_verdict") /\ WriteOk(r)
    /\ \/ TokenSet(r) /\ CancelBeforeStart(r)
       \/ /\ ~TokenSet(r) /\ route[r] = "rejected"
          /\ Enter(r, "finalizing")
          /\ SettleAs(r, "rejected")
       \/ /\ ~TokenSet(r) /\ route[r] # "rejected"
          /\ Enter(r, "registered")
          /\ Goto(r, "write_starting")
          /\ UNCHANGED route
    /\ UNCHANGED <<decision, cancelled, noting, active, proc, launched, attached,
                   exit, timers, claim, reaped, clean, stage, answer, world>>

(* _write_pre_start_event: the run is over, and one settlement is tried. *)
PreStartEventLost(r) ==
    /\ pc[r] \in {"write_denied", "write_allowed", "write_requested", "write_verdict"}
    /\ WriteRaises(r)
    /\ Enter(r, "finalizing")
    /\ SettleAs(r, "event_lost")
    /\ UNCHANGED <<decision, cancelled, noting, active, proc, launched, attached,
                   exit, timers, claim, reaped, clean, stage, answer, world>>

----------------------------------------------------------------------------
(* Starting the backend *)

StartingStored(r) ==
    /\ At(r, "write_starting") /\ WriteOk(r)
    /\ \/ TokenSet(r) /\ CancelBeforeStart(r)
       \/ /\ ~TokenSet(r)
          /\ Enter(r, "starting")
          /\ Goto(r, "spawn")
          /\ UNCHANGED route
    /\ UNCHANGED <<decision, cancelled, noting, active, proc, launched, attached,
                   exit, timers, claim, reaped, clean, stage, answer, world>>

StartingEventLost(r) ==
    /\ At(r, "write_starting") /\ WriteRaises(r)
    /\ Enter(r, "finalizing")
    /\ SettleAs(r, "start_failed")
    /\ UNCHANGED <<decision, cancelled, noting, active, proc, launched, attached,
                   exit, timers, claim, reaped, clean, stage, answer, world>>

(* get_exact is called outside the try: its error leaves the row pending. *)
BackendDrifted(r) ==
    /\ At(r, "spawn")
    /\ Return(r, "backend_unavailable")
    /\ UNCHANGED <<state, decision, cancelled, noting, row, proc, launched,
                   volatile, stage, world>>

(* The supervisor reports READY and start() reads the token once more. *)
Spawn(r) ==
    /\ At(r, "spawn") /\ ~TokenSet(r)
    /\ proc' = [proc EXCEPT ![r] = "gated"]
    /\ Goto(r, "attach")
    /\ UNCHANGED <<state, decision, cancelled, noting, active, row, launched,
                   volatile, stage, answer, world>>

(* A cancellation, or a failure, before anything is attached: start()      *)
(* aborts.  A BackendStartError is answered, any other error is raised.    *)
SpawnEnds(r) ==
    /\ At(r, "spawn")
    /\ Enter(r, "finalizing")
    /\ \/ TokenSet(r) /\ SettleAs(r, "cancelled")
       \/ SettleAs(r, "start_failed")
       \/ SettleAs(r, "start_raised")
    /\ UNCHANGED <<decision, cancelled, noting, active, row, proc, launched, attached,
                   exit, timers, claim, reaped, clean, stage, answer, world>>

(* The resource identity is durable.  Unless the token is set by now, the  *)
(* launch gate opens.                                                      *)
Attach(r) ==
    /\ At(r, "attach") /\ WriteOk(r)
    /\ attached' = attached \cup {r}
    /\ \/ /\ TokenSet(r)
          /\ CancelBeforeStart(r)
          /\ \E p \in AbortLeaves(proc[r]) : proc' = [proc EXCEPT ![r] = p]
       \/ /\ ~TokenSet(r)
          /\ Goto(r, "release")
          /\ proc' = [proc EXCEPT ![r] = "released"]
          /\ UNCHANGED <<state, route>>
    /\ UNCHANGED <<decision, cancelled, noting, active, launched, exit, timers,
                   claim, reaped, clean, stage, answer, world>>

(* The callback raises, start() aborts and the error is not a              *)
(* BackendStartError.                                                      *)
AttachFails(r) ==
    /\ At(r, "attach") /\ WriteRaises(r)
    /\ \E p \in AbortLeaves(proc[r]) : proc' = [proc EXCEPT ![r] = p]
    /\ Enter(r, "finalizing")
    /\ SettleAs(r, "start_raised")
    /\ UNCHANGED <<decision, cancelled, noting, active, launched, attached, exit,
                   timers, claim, reaped, clean, stage, answer, world>>

(* The STARTED frame is read and the handle is returned. *)
Started(r) ==
    /\ At(r, "release") /\ ~TokenSet(r)
    /\ r \in launched
    /\ Goto(r, "write_running")
    /\ UNCHANGED <<state, decision, cancelled, noting, active, row, proc, launched,
                   volatile, stage, answer, world>>

(* While STARTED is awaited a cancellation wins over the frame; an ERROR   *)
(* frame, a broken pipe or the startup deadline is a BackendStartError.    *)
(* Both abort, whether or not the command has begun to execute.            *)
ReleaseEnds(r) ==
    /\ At(r, "release")
    /\ \E p \in AbortLeaves(proc[r]) : proc' = [proc EXCEPT ![r] = p]
    /\ \/ TokenSet(r) /\ CancelBeforeStart(r)
       \/ /\ Enter(r, "finalizing")
          /\ SettleAs(r, "start_failed")
    /\ UNCHANGED <<decision, cancelled, noting, active, row, launched, attached,
                   exit, timers, claim, reaped, clean, stage, answer, world>>

MarkedRunning(r) ==
    /\ At(r, "write_running") /\ WriteOk(r)
    /\ Enter(r, "running")
    /\ Goto(r, "watch")
    /\ UNCHANGED <<decision, cancelled, noting, active, proc, launched, volatile,
                   stage, answer, world>>

MarkRunningFails(r) ==
    /\ At(r, "write_running") /\ WriteRaises(r)
    /\ Goto(r, "undo")
    /\ UNCHANGED <<state, decision, cancelled, noting, active, proc, launched,
                   volatile, stage, answer, world>>

(* The handle is terminated and cleaned up; nothing is settled. *)
UndoStart(r) ==
    /\ At(r, "undo")
    /\ \E p \in StopLeaves(proc[r]) : proc' = [proc EXCEPT ![r] = p]
    /\ Return(r, "evidence_lost")
    /\ UNCHANGED <<state, decision, cancelled, noting, row, launched, volatile,
                   stage, world>>

----------------------------------------------------------------------------
(* Supervision *)

(* The timeout, the output limit and the output pump of a watched run; the *)
(* pump goes on, and may fail, after the terminal claim.                   *)
TimerFires(r) ==
    /\ \/ At(r, "watch")
       \/ "full" \in Faults /\ pc[r] \in {"reclaim", "salvage"}
    /\ \E t \in {"timeout", "output_limit", "pump_failed"} \ timers[r] :
          /\ t # "pump_failed" => At(r, "watch")
          /\ timers' = [timers EXCEPT ![r] = @ \cup {t}]
    /\ UNCHANGED <<pc, state, decision, cancelled, noting, active, row, proc,
                   launched, attached, exit, claim, reaped, clean, route, stage,
                   answer, world>>

(* Mutant: the timeout, limit and pump watchers are not awaited. *)
MutantTimersUnwatched(r) ==
    (IF exit[r] # "none" THEN {"exit"} ELSE {}) \cup (IF TokenSet(r) THEN {"cancel"} ELSE {})

(* Watchers that have something to report. *)
Ready(r) ==
    timers[r] \cup (IF exit[r] # "none" THEN {"exit"} ELSE {})
              \cup (IF TokenSet(r) THEN {"cancel"} ELSE {})

(* claim_for_exit and the other candidates of choose_terminal_candidate;   *)
(* a wait() that raised counts as a failed pump, which cancels.            *)
Candidate(r, signal) ==
    CASE signal = "exit" ->
            (CASE exit[r] = "zero"    -> "exit_zero"
               [] exit[r] = "nonzero" -> "exit_nonzero"
               [] exit[r] = "no_code" -> "exit_no_code"
               [] exit[r] = "limit"   -> "resource_limit"
               [] OTHER               -> "cancellation")
      [] signal = "timeout"      -> "timeout"
      [] signal = "output_limit" -> "output_limit"
      [] OTHER                   -> "cancellation"

Best(candidates) ==
    CHOOSE c \in candidates : \A other \in candidates : Rank[c] <= Rank[other]

(* asyncio.wait returns: some of the ready watchers are done, and the      *)
(* arbiter takes the first claim.                                          *)
ChooseTerminal(r) ==
    /\ At(r, "watch")
    /\ \E done \in (SUBSET Ready(r)) \ {{}} :
          LET winner == Best({Candidate(r, s) : s \in done}) IN
          /\ claim' = [claim EXCEPT ![r] = winner]
          /\ IF winner \in NaturalExits
             THEN Goto(r, "reclaim") /\ UNCHANGED state
             ELSE Goto(r, "write_reason") /\ Enter(r, "terminating")
    /\ UNCHANGED <<decision, cancelled, noting, active, row, proc, launched,
                   attached, exit, timers, reaped, clean, route, stage, answer, world>>

(* The two runtime events of a termination, then terminate() itself. *)
RuntimeEvent(r) ==
    /\ \/ At(r, "write_reason") /\ Goto(r, "write_terminating")
       \/ At(r, "write_terminating") /\ Goto(r, "terminate")
    /\ WriteOk(r)
    /\ UNCHANGED <<state, decision, cancelled, noting, active, proc, launched,
                   volatile, stage, answer, world>>

EvidenceLost(r) ==
    /\ pc[r] \in {"write_reason", "write_terminating"} /\ WriteRaises(r)
    /\ Goto(r, "salvage")
    /\ UNCHANGED <<state, decision, cancelled, noting, active, proc, launched,
                   volatile, stage, answer, world>>

Terminate(r) ==
    /\ At(r, "terminate")
    /\ \E p \in StopLeaves(proc[r]) : proc' = [proc EXCEPT ![r] = p]
    /\ Goto(r, "reclaim")
    /\ UNCHANGED <<state, decision, cancelled, noting, active, row, launched,
                   volatile, stage, answer, world>>

(* cleanup() fails when the command is still there, may fail anyway, and   *)
(* may raise instead of telling.                                           *)
CleanupResults(p) ==
    (IF p = "live" THEN {} ELSE {"complete"}) \cup
    (IF p = "live" \/ "stuck" \in Faults THEN {"incomplete"} ELSE {}) \cup
    (IF "raises" \in Faults THEN {"unknown"} ELSE {})

(* _reap under its safety deadline, output to its end, cleanup.            *)
(* _finish_cleanup makes an incomplete result of what cleanup() raises.    *)
Reclaim(r) ==
    /\ At(r, "reclaim")
    /\ reaped' = [reaped EXCEPT ![r] = proc[r] # "live"]
    /\ \E c \in CleanupResults(proc[r]) :
          clean' = [clean EXCEPT ![r] = IF c = "unknown" THEN "incomplete" ELSE c]
    /\ Enter(r, "finalizing")
    /\ SettleAs(r, "supervised")
    /\ UNCHANGED <<decision, cancelled, noting, active, row, proc, launched,
                   attached, exit, timers, claim, stage, answer, world>>

(* _salvage: the arbiter keeps the claim it has; the run stays TERMINATING. *)
(* _cleanup_quietly drops what cleanup() raises and has no result then.     *)
Salvage(r) ==
    /\ At(r, "salvage")
    /\ \E p \in StopLeaves(proc[r]) :
          /\ proc' = [proc EXCEPT ![r] = p]
          /\ \E c \in CleanupResults(p) : clean' = [clean EXCEPT ![r] = c]
    /\ SettleAs(r, "evidence_lost")
    /\ UNCHANGED <<state, decision, cancelled, noting, active, row, launched,
                   attached, exit, timers, claim, reaped, stage, answer, world>>

(* The reader of the output queue failed, or was never created. *)
Unread(r) == state[r] = "starting" \/ "pump_failed" \in timers[r]

(* cleanup() cancels the backend's pumps and gathers them, and each still  *)
(* puts the end of its stream into the queue.  The queue is bounded and no *)
(* deadline is set: full and unread, it holds the run for ever.            *)
CleanupHangs(r) ==
    /\ "full" \in Faults /\ Unread(r)
    /\ \/ /\ pc[r] \in {"undo", "salvage"}
          /\ \E p \in StopLeaves(proc[r]) : proc' = [proc EXCEPT ![r] = p]
       \/ At(r, "reclaim") /\ UNCHANGED proc
    /\ Goto(r, "hung")
    /\ UNCHANGED <<state, decision, cancelled, noting, active, row, launched,
                   volatile, stage, answer, world>>

----------------------------------------------------------------------------
(* Settlement *)

(* What the caller of each kind of settlement receives once it is stored. *)
SettledAnswer(r) ==
    CASE route[r] = "cancelled"            -> "cancelled"
      [] route[r] \in {"denied", "rejected"} -> "denied"
      [] route[r] = "start_failed"         -> "failed_to_start"
      [] route[r] = "start_raised"         -> "start_error"
      [] route[r] \in {"event_lost", "evidence_lost"} -> "evidence_lost"
      [] route[r] = "supervised" /\ ~reaped[r]            -> "reap_error"
      [] route[r] = "supervised" /\ reaped[r] /\ CleanupFailed(r) -> "cleanup_error"
      [] OTHER                             -> ClaimStatus[claim[r]]

SettledStage(r) ==
    CASE route[r] = "cancelled"            -> "cancelled"
      [] route[r] \in {"denied", "rejected"} -> "denied"
      [] route[r] \in {"start_failed", "start_raised", "event_lost"} -> "failed_to_start"
      [] route[r] = "evidence_lost"        -> stage[r]
      [] OTHER                             -> ClaimStatus[claim[r]]

(* The lost-event paths never enter TERMINAL. *)
Settle(r) ==
    /\ At(r, "settle") /\ WriteOk(r)
    /\ IF route[r] \in {"event_lost", "evidence_lost"} THEN UNCHANGED state
       ELSE Enter(r, "terminal")
    /\ PublishTerminal(r, SettledStage(r))
    /\ Return(r, SettledAnswer(r))
    /\ UNCHANGED <<decision, cancelled, noting, proc, launched, volatile, world>>

(* The finalization raises.  _try_settle swallows that for a failed start  *)
(* and a lost event; otherwise the result is withheld.                     *)
SettleFails(r) ==
    /\ At(r, "settle") /\ WriteRaises(r)
    /\ CASE route[r] \in {"start_failed", "start_raised"} ->
              /\ Enter(r, "terminal")
              /\ PublishTerminal(r, "failed_to_start")
              /\ Return(r, "start_error")
         [] route[r] = "event_lost" ->
              /\ PublishTerminal(r, "failed_to_start")
              /\ Return(r, "evidence_lost")
              /\ UNCHANGED state
         [] route[r] = "evidence_lost" ->
              Return(r, "evidence_lost") /\ UNCHANGED <<state, stage>>
         [] OTHER ->
              Return(r, "withheld") /\ UNCHANGED <<state, stage>>
    /\ UNCHANGED <<decision, cancelled, noting, proc, launched, volatile, world>>

----------------------------------------------------------------------------
(* The command *)

(* The blocked project reads START and executes the command; it may find   *)
(* START before the end of its lifetime pipe.                              *)
Exec(r) ==
    /\ proc[r] \in {"released", "abandoned"}
    /\ proc' = [proc EXCEPT ![r] = IF @ = "released" THEN "live" ELSE "orphan"]
    /\ launched' = launched \cup {r}
    /\ UNCHANGED <<pc, state, decision, cancelled, noting, active, row, volatile,
                   stage, answer, world>>

(* It ends by itself, or its supervisor ends it on a limit or a signal.    *)
CommandExits(r) ==
    /\ proc[r] = "live"
    /\ proc' = [proc EXCEPT ![r] = "dead"]
    /\ \E e \in Exits \ {"none"} : exit' = [exit EXCEPT ![r] = e]
    /\ UNCHANGED <<pc, state, decision, cancelled, noting, active, row, launched,
                   attached, timers, claim, reaped, clean, route, stage, answer, world>>

(* Something kills the supervisor: wait() raises and the project goes on.  *)
SupervisorDies(r) ==
    /\ "leak" \in Faults
    /\ proc[r] = "live"
    /\ proc' = [proc EXCEPT ![r] = "stray"]
    /\ exit' = [exit EXCEPT ![r] = "lost"]
    /\ UNCHANGED <<pc, state, decision, cancelled, noting, active, row, launched,
                   attached, timers, claim, reaped, clean, route, stage, answer, world>>

(* The lifetime pipe of a vanished TrueCoder is at its end, and the        *)
(* supervisor stops the project group.                                     *)
OrphanStops(r) ==
    /\ proc[r] \in {"orphan", "abandoned"}
    /\ proc' = [proc EXCEPT ![r] = "dead"]
    /\ UNCHANGED <<pc, state, decision, cancelled, noting, active, row, launched,
                   volatile, stage, answer, world>>

----------------------------------------------------------------------------
(* Cancellation *)

(* CancellationSource.cancel, called by the tool that owns the source, or  *)
(* through ExecutionService.cancel, which then records the request.        *)
Cancel(r) ==
    /\ pc[r] \notin StopPcs /\ r \notin cancelled
    /\ cancelled' = cancelled \cup {r}
    /\ \/ noting' = noting
       \/ r \in active /\ noting' = noting \cup {r}
    /\ UNCHANGED <<pc, state, decision, active, row, proc, launched, volatile,
                   stage, answer, world>>

(* _record_cancellation_requested: whatever the append raises is dropped. *)
RecordCancellation(r) ==
    /\ r \in noting
    /\ noting' = noting \ {r}
    /\ \/ /\ CanAppend(row[r])
          /\ row' = [row EXCEPT ![r] = AppendEvent(@, "cancellation_requested")]
       \/ /\ "write_fails" \in Faults \/ ~CanAppend(row[r])
          /\ row' = row
    /\ UNCHANGED <<pc, state, decision, cancelled, active, proc, launched, volatile,
                   stage, answer, world>>

(* A second cancellation of the agent's turn reaches the coroutine itself: *)
(* no handler of the runner catches CancelledError.  The write it awaits   *)
(* runs on in its thread, and only the attach callback's caller aborts.    *)
HardCancel(r) ==
    /\ "hard_cancel" \in Faults
    /\ pc[r] \notin StopPcs
    /\ \/ row' = row
       \/ pc[r] \in WritePcs /\ WriteOk(r)
    /\ IF At(r, "attach")
       THEN \E p \in AbortLeaves(proc[r]) : proc' = [proc EXCEPT ![r] = p]
       ELSE UNCHANGED proc
    /\ Return(r, "task_cancelled")
    /\ UNCHANGED <<state, decision, cancelled, noting, launched, volatile, stage, world>>

----------------------------------------------------------------------------
(* Crash and startup recovery *)

(* TrueCoder disappears, its coroutines and registry with it.  The gate    *)
(* and lifetime pipes close: a blocked project dies unless START is in the *)
(* pipe already, a live one is left to its supervisor.                     *)
Crash ==
    /\ "crash" \in Faults /\ crashes < MaxCrashes /\ boot # "down"
    /\ crashes' = crashes + 1
    /\ boot' = "down" /\ todo' = {} /\ active' = {} /\ noting' = {}
    /\ pc' = [r \in Runs |-> IF pc[r] \in {"idle", "done"} THEN pc[r] ELSE "lost"]
    /\ proc' = [r \in Runs |->
                  CASE proc[r] = "gated"    -> "dead"
                    [] proc[r] = "released" -> "abandoned"
                    [] proc[r] = "live"     -> "orphan"
                    [] OTHER                -> proc[r]]
    /\ UNCHANGED <<state, decision, cancelled, row, launched, volatile, stage, answer>>

(* bootstrap_execution: recover_startup leases nonterminal rows; the lease *)
(* of a dead recovery and the claim limit may hide some.                   *)
Boot ==
    /\ boot = "down"
    /\ boot' = "recovering"
    /\ \E claimed \in SUBSET {r \in Runs : Nonterminal(row[r])} : todo' = claimed
    /\ UNCHANGED <<pc, state, decision, cancelled, noting, active, row, proc, launched,
                   volatile, stage, answer, crashes>>

(* _recover_one: the outcomes the exact resource may come to, and what is  *)
(* left of the command.  A supervisor that is still there is terminated.   *)
RecoveryCases(r) ==
    IF ~row[r].resource THEN {<<"recovered_no_resource", proc[r]>>}
    ELSE {<<"recovery_failed", proc[r]>>,
          IF proc[r] \in {"orphan", "abandoned"} THEN <<"recovered_terminated", "dead">>
          ELSE <<"recovered_resource_absent", proc[r]>>}

RecoveredRow(r, outcome) == Finalize(AppendEvent(row[r], "recovery_started"), outcome)

(* Any handler failure taints the start. *)
RecoverRow(r) ==
    /\ boot \in {"recovering", "tainted"} /\ r \in todo
    /\ todo' = todo \ {r}
    /\ \E case \in RecoveryCases(r) :
          /\ row' = [row EXCEPT ![r] = RecoveredRow(r, case[1])]
          /\ proc' = [proc EXCEPT ![r] = case[2]]
          /\ boot' = IF case[1] = "recovery_failed" THEN "tainted" ELSE boot
    /\ UNCHANGED <<pc, state, decision, cancelled, noting, active, launched, volatile,
                   stage, answer, crashes>>

(* A write of the recovery raises, before or after the handler has run,    *)
(* and the whole recovery is given up.                                     *)
RecoveryAborts(r) ==
    /\ {"write_fails", "write_late"} \cap Faults # {}
    /\ boot \in {"recovering", "tainted"} /\ r \in todo
    /\ todo' = {} /\ boot' = "refusing"
    /\ \E case \in RecoveryCases(r) :
          /\ row' \in {row, [row EXCEPT ![r] = AppendEvent(@, "recovery_started")]}
                     \cup (IF "write_late" \in Faults
                           THEN {[row EXCEPT ![r] = RecoveredRow(r, case[1])]} ELSE {})
          /\ proc' \in {[proc EXCEPT ![r] = case[2]]}
                      \cup (IF row'[r].phase = "terminal" THEN {} ELSE {proc})
    /\ UNCHANGED <<pc, state, decision, cancelled, noting, active, launched, volatile,
                   stage, answer, crashes>>

(* Shell execution is offered only when no recovery failed. *)
BootEnds ==
    /\ boot \in {"recovering", "tainted"} /\ todo = {}
    /\ boot' = IF boot = "recovering" THEN "up" ELSE "refusing"
    /\ UNCHANGED <<pc, state, decision, cancelled, noting, active, row, proc, launched,
                   volatile, stage, answer, todo, crashes>>

----------------------------------------------------------------------------
(* What the event loop runs for r without waiting for the user. *)
Proceed(r) ==
    \/ Admit(r) \/ AdmissionFails(r)
    \/ Denied(r) \/ Allowed(r) \/ ApprovalRequested(r) \/ VerdictStored(r)
    \/ PreStartEventLost(r)
    \/ StartingStored(r) \/ StartingEventLost(r)
    \/ BackendDrifted(r) \/ Spawn(r) \/ SpawnEnds(r)
    \/ Attach(r) \/ AttachFails(r) \/ Started(r) \/ ReleaseEnds(r)
    \/ MarkedRunning(r) \/ MarkRunningFails(r) \/ UndoStart(r)
    \/ ChooseTerminal(r) \/ RuntimeEvent(r) \/ EvidenceLost(r)
    \/ Terminate(r) \/ Reclaim(r) \/ Salvage(r) \/ CleanupHangs(r)
    \/ Settle(r) \/ SettleFails(r)

Command(r) ==
    \/ Exec(r) \/ CommandExits(r) \/ SupervisorDies(r) \/ OrphanStops(r)

Next ==
    \/ \E r \in Runs :
          \/ Submit(r) \/ Proceed(r) \/ GateAnswers(r) \/ GateRaises(r)
          \/ TimerFires(r) \/ Command(r)
          \/ Cancel(r) \/ RecordCancellation(r) \/ HardCancel(r)
          \/ RecoverRow(r) \/ RecoveryAborts(r)
    \/ Crash \/ Boot \/ BootEnds

Spec == Init /\ [][Next]_vars

(* The event loop schedules every ready coroutine, threads finish their    *)
(* writes and the clock's timeout fires; a supervisor acts on a closed     *)
(* lifetime pipe.  Nothing makes the user answer.                          *)
FairSpec ==
    /\ Spec
    /\ \A r \in Runs : /\ WF_vars(Proceed(r))
                        /\ WF_vars(TimerFires(r))
                        /\ WF_vars(OrphanStops(r))

----------------------------------------------------------------------------
(* Properties *)

TypeOK ==
    /\ pc \in [Runs -> Pcs]
    /\ state \in [Runs -> RunStates \cup {"illegal"}]
    /\ decision \in [Runs -> Decisions]
    /\ cancelled \in SUBSET Runs /\ noting \in SUBSET Runs /\ active \in SUBSET Runs
    /\ row \in [Runs -> Rows]
    /\ attached \in SUBSET Runs /\ launched \in SUBSET Runs
    /\ proc \in [Runs -> Processes]
    /\ exit \in [Runs -> Exits]
    /\ timers \in [Runs -> SUBSET {"timeout", "output_limit", "pump_failed"}]
    /\ claim \in [Runs -> Claims]
    /\ reaped \in [Runs -> BOOLEAN]
    /\ clean \in [Runs -> Cleanups]
    /\ route \in [Runs -> Routes]
    /\ stage \in [Runs -> Statuses \cup {"none"}]
    /\ answer \in [Runs -> Statuses \cup Errors \cup {"none"}]
    /\ boot \in {"up", "down", "recovering", "tainted", "refusing"}
    /\ todo \in SUBSET Runs
    /\ crashes \in 0..MaxCrashes

(* No route through the runner attempts a lifecycle move the table forbids *)
(* (LifecycleState.transition would raise in the middle of a settlement).  *)
LegalLifecycle == \A r \in Runs : state[r] # "illegal"

(* "Project-controlled code stays gated until its resource identity is     *)
(* durable", and nothing executes that policy, or the user where policy    *)
(* asks, has not durably allowed.                                          *)
LaunchIsAuthorised ==
    \A r \in launched :
        /\ row[r].resource
        /\ {"policy_allowed", "backend_starting"} \subseteq row[r].trail
        /\ decision[r] = "ask" => "approval_granted" \in row[r].trail
        /\ "approval_rejected" \notin row[r].trail

(* The runner never asks the store for a write the store refuses: no write *)
(* follows a terminal row, a pending run is never finalized as started and *)
(* a running one never as not started.                                     *)
WritesAreAccepted == \A r \in Runs : pc[r] \in WritePcs => Accepted(r)

(* A verdict that nothing ran is true: a refused, rejected or recovered    *)
(* run without a resource never executed.                                  *)
SilentVerdictsAreTrue ==
    \A r \in launched :
        row[r].outcome \notin {"policy_denied", "approval_rejected", "recovered_no_resource"}

(* The cleanup of a salvaged run raised, and its verdict does not tell. *)
CleanupUntold(r) == clean[r] = "unknown" /\ row[r].outcome \in Statuses

(* A terminal row means that the command is gone, unless the row itself    *)
(* says that cleanup or recovery failed, or the cleanup of a run that lost *)
(* its evidence raised.  A project that lost its supervisor escapes this;  *)
(* without such a loss nothing does.                                       *)
StoppedWhenTerminal ==
    \A r \in Runs :
        (/\ row[r].phase = "terminal"
         /\ row[r].outcome \notin {"cleanup_failed", "recovery_failed"}
         /\ ~CleanupUntold(r))
            => /\ proc[r] \notin {"gated", "released", "abandoned", "live", "orphan"}
               /\ "leak" \notin Faults => proc[r] # "stray"

(* The outcome that stands for a status in the database. *)
Records(status, outcome) ==
    \/ status \in {"completed", "failed", "timed_out", "limit_exceeded", "failed_to_start"}
          /\ outcome = status
    \/ status = "cancelled" /\ outcome \in {"cancelled", "failed_to_start"}
    \/ status = "denied" /\ outcome \in {"policy_denied", "approval_rejected"}

(* A result is returned only once the row is terminal and says the same.   *)
AnswersMatchEvidence ==
    \A r \in Runs :
        answer[r] \in Statuses =>
            /\ row[r].phase = "terminal"
            /\ Records(answer[r], row[r].outcome)
            /\ stage[r] = answer[r]

(* The terminal lifecycle event never contradicts the row the run wrote.   *)
StagesMatchEvidence ==
    \A r \in Runs :
        (stage[r] # "none" /\ row[r].outcome \in Outcomes \ RecoveryOutcomes)
            => row[r].outcome = "cleanup_failed" \/ Records(stage[r], row[r].outcome)

(* An outcome has its cause: an exit code came from the command itself, a  *)
(* timeout or limit from its watcher, a cancellation from the token, the   *)
(* output pump, a lost wait() or an exit without a code.                   *)
OutcomesHaveCauses ==
    \A r \in Runs :
        LET o == row[r].outcome IN
        /\ o = "completed" => exit[r] = "zero"
        /\ o = "failed" => exit[r] = "nonzero"
        /\ o = "timed_out" => "timeout" \in timers[r]
        /\ o = "limit_exceeded" => "output_limit" \in timers[r] \/ exit[r] = "limit"
        /\ o = "cancelled" => \/ r \in cancelled
                             \/ "pump_failed" \in timers[r]
                             \/ exit[r] \in {"no_code", "lost"}

(* A terminal row never changes again. *)
VerdictIsFinal ==
    [][\A r \in Runs : row[r].phase = "terminal" => row'[r] = row[r]]_vars

(* A run whose token is set before its launch gate opens never executes.   *)
CancelHoldsTheGate ==
    [][\A r \in cancelled : proc[r] \in {"none", "gated"} => proc'[r] # "released"]_vars

(* Every submitted run comes back, crashes with TrueCoder, or waits for    *)
(* the user; only a cleanup whose output queue nobody reads any more may   *)
(* keep it.                                                                *)
RunsReturn ==
    \A r \in Runs :
        pc[r] \notin {"idle"} ~> \/ pc[r] \in {"done", "lost", "gate"}
                                 \/ pc[r] = "hung" /\ Unread(r)

----------------------------------------------------------------------------
(* Refinement *)

EvidenceOf(r) == IF row[r].phase = "terminal" THEN row[r].outcome ELSE row[r].phase

CommandOf(r) ==
    IF proc[r] \in Executing THEN "executing"
    ELSE IF r \in launched THEN "ended" ELSE "never"

ReplyOf(r) == IF answer[r] \in Errors THEN "no_result" ELSE answer[r]

Contract == INSTANCE ExecutionContract WITH
    evidence <- [r \in Runs |-> EvidenceOf(r)],
    reserved <- {r \in Runs : row[r].resource},
    command  <- [r \in Runs |-> CommandOf(r)],
    reply    <- [r \in Runs |-> ReplyOf(r)]

(* The runner, its store, its backend and startup recovery together keep   *)
(* the contract of the control plane.                                      *)
KeepsContract == Contract!Spec

----------------------------------------------------------------------------
(* What the documentation says and the code does not do *)

(* "Pre-start cancellation returns cancelled and records that nothing      *)
(* started" (docs/ARCHITECTURE.md).  The run is recorded as never started  *)
(* although the cancellation found the command already executing.          *)
CancelledBeforeStartNeverRan ==
    \A r \in launched :
        ~(answer[r] = "cancelled" /\ row[r].outcome = "failed_to_start")
=============================================================================
