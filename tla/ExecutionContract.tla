------------------------- MODULE ExecutionContract -------------------------
(***************************************************************************)
(* What the execution control plane promises of one command, whatever the  *)
(* runner, the backend, the user, the disk and crashes do: the design      *)
(* rules of docs/ARCHITECTURE.md as a state machine.                       *)
(*                                                                         *)
(*   evidence  the durable row: absent, pending, running, or one verdict   *)
(*   reserved  runs whose resource identity is durable                     *)
(*   command   never executed, executing, or ended                         *)
(*   reply     what the caller was told: a status, or that there is none   *)
(***************************************************************************)
EXTENDS AuditRecord

CONSTANTS Runs, Statuses, Records(_, _)

VARIABLES evidence, reserved, command, reply

vars == <<evidence, reserved, command, reply>>

Init ==
    /\ evidence = [r \in Runs |-> "absent"]
    /\ reserved = {}
    /\ command = [r \in Runs |-> "never"]
    /\ reply = [r \in Runs |-> "none"]

(* Evidence only advances, and a verdict is never replaced.  A run is      *)
(* marked running only when its resource is known, and gets no verdict of  *)
(* an exit code while its command executes.                                *)
EvidenceAdvances(r) ==
    \/ evidence' = evidence
    \/ evidence[r] = "absent" /\ evidence' = [evidence EXCEPT ![r] = "pending"]
    \/ /\ evidence[r] = "pending" /\ r \in reserved /\ command[r] # "never"
       /\ evidence' = [evidence EXCEPT ![r] = "running"]
    \/ /\ evidence[r] \in {"pending", "running"}
       /\ \E o \in Outcomes :
             /\ o \in {"policy_denied", "approval_rejected", "recovered_no_resource"}
                   => command[r] = "never"
             /\ o \in {"completed", "failed"} => command[r] = "ended"
             /\ o \in CommandOutcomes => evidence[r] = "running"
             /\ evidence' = [evidence EXCEPT ![r] = o]

(* One resource, named before the command may execute. *)
ResourceReserved(r) ==
    \/ reserved' = reserved
    \/ evidence[r] = "pending" /\ r \notin reserved /\ reserved' = reserved \cup {r}

(* A command executes at most once, and only behind durable evidence; a    *)
(* recovery that failed may have left it about to.                         *)
CommandMoves(r) ==
    \/ command' = command
    \/ /\ command[r] = "never" /\ r \in reserved
       /\ evidence[r] \in {"pending", "recovery_failed"}
       /\ command' = [command EXCEPT ![r] = "executing"]
    \/ command[r] = "executing" /\ command' = [command EXCEPT ![r] = "ended"]

(* The caller is told once; a status only together with the verdict. *)
Replies(r) ==
    \/ reply' = reply
    \/ /\ reply[r] = "none"
       /\ \/ reply' = [reply EXCEPT ![r] = "no_result"]
          \/ \E s \in Statuses :
                /\ evidence'[r] \in Outcomes /\ Records(s, evidence'[r])
                /\ reply' = [reply EXCEPT ![r] = s]

Step(r) ==
    EvidenceAdvances(r) /\ ResourceReserved(r) /\ CommandMoves(r) /\ Replies(r)

Next == \E r \in Runs : Step(r)

Spec == Init /\ [][Next]_vars
=============================================================================
