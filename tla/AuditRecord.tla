---------------------------- MODULE AuditRecord ----------------------------
(***************************************************************************)
(* One row of the execution audit database and the writes the store will   *)
(* accept on it (execution/audit/store.py, execution/audit/models.py).     *)
(* Each write is a pair: Can<Write> is the check the store makes inside    *)
(* its immediate transaction, and <Write> is the row after the commit.  A  *)
(* write whose check fails raises and leaves the row as it was.            *)
(*                                                                         *)
(* Timestamps, digests, previews and identities are left out.  The event   *)
(* log is kept as the set of the event types it holds: their order is      *)
(* fixed by the program counter of the only writer.                        *)
(***************************************************************************)
EXTENDS FiniteSets

Phases == {"absent", "pending", "running", "terminal"}

(* Outcomes that say the command never ran. *)
PreExecutionOutcomes == {"policy_denied", "approval_rejected", "failed_to_start"}

(* Outcomes only startup recovery writes. *)
RecoveryOutcomes ==
    {"recovered_no_resource", "recovered_resource_absent",
     "recovered_terminated", "recovery_failed"}

CommandOutcomes ==
    {"completed", "failed", "timed_out", "cancelled", "limit_exceeded",
     "cleanup_failed"}

Outcomes == PreExecutionOutcomes \cup RecoveryOutcomes \cup CommandOutcomes

EventTypes ==
    {"run_created", "policy_allowed", "policy_denied", "approval_requested",
     "approval_granted", "approval_rejected", "backend_starting",
     "resource_reserved", "backend_started", "cancellation_requested",
     "timeout_reached", "limit_reached", "termination_started",
     "recovery_started", "run_finalized"}

(* What a finalization says of the command: it ran, it did not, or the     *)
(* recovering process cannot know.                                         *)
StartedEvidence == {"yes", "no", "unknown"}

Rows == [phase : Phases, outcome : Outcomes \cup {"none"},
         resource : BOOLEAN, trail : SUBSET EventTypes]

NoRow == [phase |-> "absent", outcome |-> "none", resource |-> FALSE, trail |-> {}]

Nonterminal(row) == row.phase \in {"pending", "running"}

----------------------------------------------------------------------------

CreatePending(row) ==
    [row EXCEPT !.phase = "pending", !.trail = {"run_created"}]

(* Mutant: events are appended to a terminal run. *)
MutantAppendsAnywhere(row) == row.phase # "absent"

CanAppend(row) == Nonterminal(row)

AppendEvent(row, event) == [row EXCEPT !.trail = @ \cup {event}]

(* At most one resource is ever attached to a run. *)
CanAttach(row) == Nonterminal(row) /\ ~row.resource

(* Mutant: the resource is only remembered in memory. *)
MutantAttachVolatile(row) == row

AttachResource(row) ==
    [row EXCEPT !.resource = TRUE, !.trail = @ \cup {"resource_reserved"}]

CanMarkRunning(row) == row.phase = "pending" /\ row.resource

MarkRunning(row) ==
    [row EXCEPT !.phase = "running", !.trail = @ \cup {"backend_started"}]

(* `named' says whether the finalization carries the resource identity.    *)
CanFinalize(row, started, named) ==
    /\ Nonterminal(row)
    /\ row.phase = "pending" => started # "yes"
    /\ row.phase = "running" => /\ started # "no"
                                /\ named = row.resource
    /\ named => row.resource

Finalize(row, outcome) ==
    [row EXCEPT !.phase = "terminal", !.outcome = outcome,
                !.trail = @ \cup {"run_finalized"}]
=============================================================================
