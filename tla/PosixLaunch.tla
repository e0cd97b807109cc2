---------------------------- MODULE PosixLaunch ----------------------------
(***************************************************************************)
(* One command under the POSIX backend: TrueCoder (execution/backends/     *)
(* posix.py), the supervisor it spawns (posix_supervisor.py), the project  *)
(* group the supervisor forks, and the recovery handler of the next        *)
(* TrueCoder (posix_recovery.py).  They share pipes and signals; each      *)
(* action is what one of them does between two waits.                      *)
(*                                                                         *)
(* Pipes: TrueCoder writes gate, lifetime and control and reads status.    *)
(* The config pipe, the output pipes and the cgroup are left out.  Time is *)
(* what the code compares: Slow lets any deadline pass, without it one     *)
(* passes only where a longer grace period is being waited out.  The       *)
(* project group is the leader and `kin', the rest of the group.           *)
(***************************************************************************)
EXTENDS Naturals, Sequences, SequencesExt

CONSTANTS
    Faults,     \* what the environment may do
    LongGrace,  \* termination_grace_seconds exceeds the second abort() waits
    Slow        \* any deadline may pass

FaultKinds == {"stubborn", "fork", "limit", "hard_cancel", "crash", "kill_supervisor"}

ASSUME LaunchAssumption ==
    Faults \subseteq FaultKinds /\ LongGrace \in BOOLEAN /\ Slow \in BOOLEAN

VARIABLES
    host,        \* where start(), abort() or the handle is suspended
    token,       \* the cancellation token is set
    registered,  \* the resource identity is durable
    pipes,       \* pipe ends TrueCoder holds open
    asked,       \* the handle's _termination_reason is set
    result,      \* what wait() reported
    gate,        \* an unread START in the gate pipe
    order,       \* an unread TERMINATE in the control pipe
    status,      \* unread frames of the status pipe
    sup,         \* the supervisor process
    stop,        \* its _terminate_requested
    report,      \* the kind of EXIT frame it is about to send
    leader,      \* the project leader
    kin,         \* other members of the project group exist
    stubborn,    \* the project ignores SIGTERM
    ran,         \* project code ever executed
    recovery,    \* PosixRecoveryHandler.recover
    struck       \* the supervisor was killed from outside

handle == <<asked, result>>
wire == <<gate, order, status>>
project == <<leader, kin, stubborn, ran>>
vars == <<host, token, registered, pipes, handle, wire, sup, stop, report, project, recovery,
          struck>>

Hosts ==
    {"idle", "await_ready", "registering", "await_started", "aborting", "aborted",
     "running", "terminating", "forcing", "stopped", "cleaned",
     "leaked",   \* the task was cancelled and start() or the runner is gone
     "gone"}     \* TrueCoder is gone

Supervisors ==
    {"none", "booting", "waiting", "starting", "monitoring", "stopping", "sweeping",
     "discarding", "dead"}

Leaders == {"none", "blocked", "released", "failed", "executing", "dead", "reaped"}

Ends == {"gate", "lifetime", "control"}

----------------------------------------------------------------------------
(* Processes and pipes *)

SupervisorLives == sup \notin {"none", "dead"}

(* killpg(pgid, 0): an unreaped leader still counts. *)
GroupExists ==
    \/ leader \in {"blocked", "released", "executing"} \/ kin
    \/ leader \in {"dead", "failed"} /\ SupervisorLives

ProjectRuns == leader \in {"released", "executing"} \/ kin

(* Mutant: the group is not signalled. *)
MutantSpareGroup == UNCHANGED project

(* SIGKILL to the project group. *)
KillGroup ==
    /\ leader' = IF leader \in {"blocked", "released", "executing"} THEN "dead" ELSE leader
    /\ kin' = FALSE
    /\ UNCHANGED <<stubborn, ran>>

(* SIGTERM: a leader that has not executed yet runs the handler it         *)
(* inherited from the supervisor, and stays.                               *)
TermGroup ==
    IF stubborn THEN UNCHANGED project
    ELSE /\ leader' = IF leader = "executing" THEN "dead" ELSE leader
         /\ kin' = FALSE
         /\ UNCHANGED <<stubborn, ran>>

(* write_frame_fd on the status pipe, whose reader lives with TrueCoder. *)
CanReport == host # "gone"

(* Mutant: a frame is written twice. *)
MutantReportsTwice(frame) ==
    status' = IF CanReport THEN status \o <<frame, frame>> ELSE status

Report(frame) == status' = IF CanReport THEN Append(status, frame) ELSE status

(* Mutant: the second is over at once. *)
MutantSecondOver == SupervisorLives

(* abort() and recover() wait one second for the supervisor, which may be  *)
(* waiting out the grace period of a project that ignores SIGTERM.         *)
SecondOver ==
    /\ SupervisorLives
    /\ Slow \/ (LongGrace /\ sup = "stopping" /\ leader = "executing")

----------------------------------------------------------------------------
Init ==
    /\ host = "idle" /\ token = FALSE /\ registered = FALSE /\ pipes = {}
    /\ asked = FALSE /\ result = "none"
    /\ gate = FALSE /\ order = FALSE /\ status = <<>>
    /\ sup = "none" /\ stop = FALSE /\ report = "none"
    /\ leader = "none" /\ kin = FALSE /\ stubborn = FALSE /\ ran = FALSE
    /\ recovery = "none" /\ struck = FALSE

----------------------------------------------------------------------------
(* TrueCoder: start() *)

Start ==
    /\ host = "idle" /\ ~token
    /\ host' = "await_ready"
    /\ pipes' = Ends
    /\ sup' = "booting"
    /\ UNCHANGED <<token, registered, handle, wire, stop, report, project, recovery,
                   struck>>

(* Mutant: the gate opens before the registration. *)
MutantOpensEarly ==
    /\ host = "await_ready" /\ ~token
    /\ status # <<>> /\ Head(status) = "READY"
    /\ status' = Tail(status) /\ gate' = TRUE
    /\ host' = "registering"
    /\ UNCHANGED <<token, registered, pipes, handle, order, sup, stop, report,
                   project, recovery, struck>>

ReadReady ==
    /\ host = "await_ready" /\ ~token
    /\ status # <<>> /\ Head(status) = "READY"
    /\ status' = Tail(status)
    /\ host' = "registering"
    /\ UNCHANGED <<token, registered, pipes, handle, gate, order, sup, stop, report,
                   project, recovery, struck>>

(* Closing TrueCoder's ends and asking the supervisor to stop; before its  *)
(* handlers are installed SIGTERM kills it.                                *)
BeginAbort ==
    /\ host' = "aborting"
    /\ pipes' = {}
    /\ IF SupervisorLives
       THEN \/ stop' = TRUE /\ sup' = sup
            \/ sup = "booting" /\ sup' = "dead" /\ stop' = stop
       ELSE UNCHANGED <<sup, stop>>

(* The registration is durable: unless the token is set, START is written  *)
(* and the gate pipe closed.                                               *)
Registered ==
    /\ host = "registering"
    /\ registered' = TRUE
    /\ \/ /\ ~token /\ SupervisorLives
          /\ gate' = TRUE /\ pipes' = pipes \ {"gate"}
          /\ host' = "await_started"
          /\ UNCHANGED <<sup, stop>>
       \/ (token \/ ~SupervisorLives) /\ BeginAbort /\ gate' = gate
    /\ UNCHANGED <<token, handle, order, status, report, project, recovery, struck>>

(* The callback raises, or the task is cancelled while it is awaited:      *)
(* abort(project_pgid), which also kills the blocked group.                *)
RegistrationFails ==
    /\ host = "registering"
    /\ registered' \in BOOLEAN
    /\ BeginAbort /\ KillGroup
    /\ UNCHANGED <<token, handle, wire, report, recovery, struck>>

ReadStarted ==
    /\ host = "await_started" /\ ~token
    /\ status # <<>> /\ Head(status) = "STARTED"
    /\ status' = Tail(status)
    /\ host' = "running"
    /\ UNCHANGED <<token, registered, pipes, handle, gate, order, sup, stop, report,
                   project, recovery, struck>>

(* Mutant: the end of the status pipe goes unnoticed. *)
MutantEndUnseen ==
    /\ host \in {"await_ready", "await_started"}
    /\ \/ token \/ Slow
       \/ status # <<>> /\ Head(status) \notin {"READY", "STARTED"}
    /\ BeginAbort
    /\ UNCHANGED <<token, registered, handle, wire, report, project, recovery, struck>>

(* Cancellation wins over a frame; an ERROR frame, the end of the status   *)
(* pipe and the startup timeout abort too.  abort() is not told the pgid.  *)
StartFails ==
    /\ host \in {"await_ready", "await_started"}
    /\ \/ token \/ Slow
       \/ status # <<>> /\ Head(status) \notin {"READY", "STARTED"}
       \/ status = <<>> /\ ~SupervisorLives
    /\ BeginAbort
    /\ UNCHANGED <<token, registered, handle, wire, report, project, recovery, struck>>

AbortKills ==
    /\ host = "aborting" /\ SecondOver
    /\ sup' = "dead"
    /\ UNCHANGED <<host, token, registered, pipes, handle, wire, stop, report,
                   project, recovery, struck>>

AbortEnds ==
    /\ host = "aborting" /\ ~SupervisorLives
    /\ host' = "aborted"
    /\ UNCHANGED <<token, registered, pipes, handle, wire, sup, stop, report,
                   project, recovery, struck>>

----------------------------------------------------------------------------
(* TrueCoder: the handle *)

(* wait(): the terminal frame, or its absence, once the supervisor exited. *)
WaitEnds ==
    /\ host \in {"running", "terminating", "forcing"} /\ result = "none"
    /\ sup = "dead"
    /\ result' = CASE status # <<>>           -> Head(status)
                   [] status = <<>> /\ asked  -> "reason"
                   [] status = <<>> /\ ~asked -> "ERROR"
    /\ status' = IF status = <<>> THEN status ELSE Tail(status)
    /\ UNCHANGED <<host, token, registered, pipes, asked, gate, order, sup, stop,
                   report, project, recovery, struck>>

(* terminate(): nothing is left to do once the supervisor's exit is known. *)
Terminate ==
    /\ host = "running" /\ result = "none"
    /\ asked' = TRUE
    /\ IF SupervisorLives THEN order' = TRUE /\ host' = "terminating"
       ELSE order' = order /\ host' \in {"terminating", "forcing"}
    /\ UNCHANGED <<token, registered, pipes, result, gate, status, sup, stop, report,
                   project, recovery, struck>>

(* The grace period and two more seconds pass: SIGTERM to the supervisor.  *)
ForceTerminate ==
    /\ host = "terminating" /\ result = "none" /\ Slow
    /\ host' = "forcing"
    /\ stop' = (stop \/ SupervisorLives)
    /\ UNCHANGED <<token, registered, pipes, handle, wire, sup, report, project,
                   recovery, struck>>

ForceKills ==
    /\ host = "forcing" /\ SupervisorLives /\ Slow
    /\ KillGroup
    /\ sup' = "dead"
    /\ UNCHANGED <<host, token, registered, pipes, handle, wire, stop, report,
                   recovery, struck>>

Stopped ==
    /\ host \in {"running", "terminating", "forcing"} /\ result # "none"
    /\ host' = "stopped"
    /\ UNCHANGED <<token, registered, pipes, handle, wire, sup, stop, report,
                   project, recovery, struck>>

Cleanup ==
    /\ host = "stopped"
    /\ host' = "cleaned"
    /\ pipes' = {}
    /\ UNCHANGED <<token, registered, handle, wire, sup, stop, report, project,
                   recovery, struck>>

----------------------------------------------------------------------------
(* TrueCoder: cancellation, a cancelled task, a crash *)

Cancel ==
    /\ ~token /\ host \notin {"gone", "leaked"}
    /\ token' = TRUE
    /\ UNCHANGED <<host, registered, pipes, handle, wire, sup, stop, report, project,
                   recovery, struck>>

(* No handler of start() catches CancelledError, except around the         *)
(* registration; the pipes stay open as long as TrueCoder lives.           *)
HardCancel ==
    /\ "hard_cancel" \in Faults
    /\ host \in {"await_ready", "await_started", "running"}
    /\ host' = "leaked"
    /\ UNCHANGED <<token, registered, pipes, handle, wire, sup, stop, report,
                   project, recovery, struck>>

Crash ==
    /\ "crash" \in Faults
    /\ host \notin {"idle", "aborted", "cleaned", "gone"}
    /\ host' = "gone" /\ pipes' = {} /\ status' = <<>>
    /\ UNCHANGED <<token, registered, handle, gate, order, sup, stop, report,
                   project, recovery, struck>>

----------------------------------------------------------------------------
(* The supervisor *)

(* An exception: the project is stopped with the fallback grace. *)
Discards == sup' = "discarding"

(* It forks the blocked leader and reports READY. *)
Boots ==
    /\ sup = "booting"
    /\ leader' = "blocked"
    /\ Report("READY")
    /\ IF CanReport THEN sup' = "waiting" ELSE Discards
    /\ UNCHANGED <<host, token, registered, pipes, handle, gate, order, stop, report,
                   kin, stubborn, ran, recovery, struck>>

SetupFails ==
    /\ sup = "booting"
    /\ leader' = "failed"
    /\ Report("ERROR")
    /\ Discards
    /\ UNCHANGED <<host, token, registered, pipes, handle, gate, order, stop, report,
                   kin, stubborn, ran, recovery, struck>>

(* START arrives and is passed on. *)
PassesStart ==
    /\ sup = "waiting" /\ gate /\ leader = "blocked"
    /\ gate' = FALSE
    /\ leader' = "released" /\ sup' = "starting"
    /\ UNCHANGED <<host, token, registered, pipes, handle, order, status, stop, report,
                   kin, stubborn, ran, recovery, struck>>

(* Mutant: only SIGTERM is watched. *)
MutantIgnoresPipes == stop

(* A signal, the end of a pipe or a TERMINATE frame. *)
ToldToStop == stop \/ order \/ ~({"lifetime", "control"} \subseteq pipes)

Withdraws ==
    /\ sup = "waiting"
    /\ ToldToStop \/ ("gate" \notin pipes /\ ~gate)
    /\ Discards
    /\ UNCHANGED <<host, token, registered, pipes, handle, wire, stop, report,
                   project, recovery, struck>>

ReportsStarted ==
    /\ sup = "starting" /\ leader \in {"executing", "dead"}
    /\ Report("STARTED")
    /\ IF CanReport THEN sup' = "monitoring" ELSE Discards
    /\ UNCHANGED <<host, token, registered, pipes, handle, gate, order, stop, report,
                   project, recovery, struck>>

ReportsExecError ==
    /\ sup = "starting" /\ leader = "failed"
    /\ Report("ERROR")
    /\ sup' = "dead" /\ leader' = "reaped"
    /\ UNCHANGED <<host, token, registered, pipes, handle, gate, order, stop, report,
                   kin, stubborn, ran, recovery, struck>>

(* _monitor_project stops the group: on request, or on a limit.            *)
BeginsStop ==
    /\ sup = "monitoring" /\ leader = "executing"
    /\ TermGroup
    /\ sup' = "stopping" /\ report' = "reason"
    /\ UNCHANGED <<host, token, registered, pipes, handle, wire, stop, recovery, struck>>

StopsGroup == ToldToStop /\ BeginsStop

LimitReached == "limit" \in Faults /\ BeginsStop

(* _terminate_and_reap: the leader exits, or the grace period is over;     *)
(* either way the rest of the group is killed.                             *)
GroupStopped ==
    /\ sup = "stopping"
    /\ leader' = "reaped" /\ kin' = FALSE
    /\ sup' = "sweeping"
    /\ UNCHANGED <<host, token, registered, pipes, handle, wire, stop, report, stubborn,
                   ran, recovery, struck>>

(* waitpid finds the leader, though a request may have come before. *)
SeesExit ==
    /\ sup = "monitoring" /\ leader = "dead"
    /\ leader' = "reaped"
    /\ sup' = "sweeping"
    /\ \/ report' = "exit"
       \/ ToldToStop /\ report' = "reason"
    /\ UNCHANGED <<host, token, registered, pipes, handle, wire, stop, kin, stubborn, ran,
                   recovery, struck>>

(* Mutant: what is left of the group is not swept. *)
MutantNoSweep == kin' = kin

(* _terminate_group_only *)
SweepGroup == kin' = FALSE

Finishes ==
    /\ sup = "sweeping"
    /\ SweepGroup
    /\ Report(report)
    /\ sup' = "dead"
    /\ UNCHANGED <<host, token, registered, pipes, handle, gate, order, stop, report,
                   leader, stubborn, ran, recovery, struck>>

DiscardsProject ==
    /\ sup = "discarding"
    /\ leader' = "reaped" /\ kin' = FALSE
    /\ sup' = "dead"
    /\ UNCHANGED <<host, token, registered, pipes, handle, wire, stop, report, stubborn,
                   ran, recovery, struck>>

SupervisorKilled ==
    /\ "kill_supervisor" \in Faults /\ SupervisorLives
    /\ sup' = "dead" /\ struck' = TRUE
    /\ UNCHANGED <<host, token, registered, pipes, handle, wire, stop, report,
                   project, recovery>>

----------------------------------------------------------------------------
(* The project *)

Exec ==
    /\ leader = "released"
    /\ leader' = "executing" /\ ran' = TRUE
    /\ stubborn' \in {FALSE} \cup (IF "stubborn" \in Faults THEN {TRUE} ELSE {})
    /\ UNCHANGED <<host, token, registered, pipes, handle, wire, sup, stop, report, kin,
                   recovery, struck>>

ExecFails ==
    /\ leader = "released"
    /\ leader' = "failed"
    /\ UNCHANGED <<host, token, registered, pipes, handle, wire, sup, stop, report, kin,
                   stubborn, ran, recovery, struck>>

Forks ==
    /\ "fork" \in Faults /\ leader = "executing" /\ ~kin
    /\ kin' = TRUE
    /\ UNCHANGED <<host, token, registered, pipes, handle, wire, sup, stop, report, leader,
                   stubborn, ran, recovery, struck>>

Exits ==
    /\ \/ leader = "executing" /\ leader' = "dead" /\ kin' = kin
       \/ kin /\ kin' = FALSE /\ leader' = leader
    /\ UNCHANGED <<host, token, registered, pipes, handle, wire, sup, stop, report,
                   stubborn, ran, recovery, struck>>

(* The blocked leader finds the end of its gate. *)
GateEof ==
    /\ leader = "blocked" /\ sup = "dead"
    /\ leader' = "reaped"
    /\ UNCHANGED <<host, token, registered, pipes, handle, wire, sup, stop, report, kin,
                   stubborn, ran, recovery, struck>>

----------------------------------------------------------------------------
(* The recovery handler *)

(* verify_posix_resource; on an exact match the supervisor gets SIGTERM.   *)
RecoveryLooks ==
    /\ host = "gone" /\ registered /\ recovery = "none"
    /\ recovery' = CASE ~SupervisorLives                 -> "absent"
                     [] SupervisorLives /\ ~GroupExists  -> "failed"
                     [] SupervisorLives /\ GroupExists   -> "waiting"
    /\ stop' = (stop \/ recovery' = "waiting")
    /\ UNCHANGED <<host, token, registered, pipes, handle, wire, sup, report,
                   project, struck>>

(* Whatever is left of the group is killed. *)
RecoveryEnds ==
    /\ recovery = "waiting" /\ ~SupervisorLives
    /\ KillGroup
    /\ recovery' = "terminated"
    /\ UNCHANGED <<host, token, registered, pipes, handle, wire, sup, stop, report, struck>>

RecoveryKills ==
    /\ recovery = "waiting" /\ SecondOver
    /\ KillGroup
    /\ sup' = "dead" /\ recovery' = "terminated"
    /\ UNCHANGED <<host, token, registered, pipes, handle, wire, stop, report, struck>>

----------------------------------------------------------------------------
Host ==
    \/ ReadReady \/ Registered \/ RegistrationFails \/ ReadStarted \/ StartFails
    \/ AbortKills \/ AbortEnds \/ WaitEnds \/ ForceTerminate \/ ForceKills
    \/ Stopped \/ Cleanup

Supervisor ==
    \/ Boots \/ SetupFails \/ PassesStart \/ Withdraws \/ ReportsStarted
    \/ ReportsExecError \/ StopsGroup \/ GroupStopped \/ SeesExit \/ Finishes
    \/ DiscardsProject

Project == Exec \/ ExecFails \/ GateEof

Recovery == RecoveryLooks \/ RecoveryEnds \/ RecoveryKills

Next ==
    \/ Start \/ Host \/ Terminate \/ Cancel \/ HardCancel \/ Crash
    \/ Supervisor \/ SupervisorKilled
    \/ LimitReached
    \/ Project \/ Forks \/ Exits
    \/ Recovery

Spec == Init /\ [][Next]_vars

(* Every process runs; nothing makes a command exit, fork, reach a limit   *)
(* or be cancelled, and nobody has to start the next TrueCoder.            *)
FairSpec == Spec /\ WF_vars(Host) /\ WF_vars(Supervisor) /\ WF_vars(Project)

----------------------------------------------------------------------------
(* Properties *)

TypeOK ==
    /\ host \in Hosts /\ token \in BOOLEAN /\ registered \in BOOLEAN
    /\ pipes \subseteq Ends
    /\ asked \in BOOLEAN /\ result \in {"none", "exit", "reason", "ERROR"}
    /\ gate \in BOOLEAN /\ order \in BOOLEAN
    /\ status \in BoundedSeq({"READY", "STARTED", "exit", "reason", "ERROR"}, 2)
    /\ sup \in Supervisors /\ stop \in BOOLEAN /\ report \in {"none", "exit", "reason"}
    /\ leader \in Leaders /\ kin \in BOOLEAN /\ stubborn \in BOOLEAN /\ ran \in BOOLEAN
    /\ recovery \in {"none", "waiting", "absent", "terminated", "failed"}
    /\ struck \in BOOLEAN

(* Project code never executes before the resource identity is durable,    *)
(* whichever of the five parties fails or is killed, and when.             *)
GateHolds == ran => registered

(* An exit code reported by wait() is the whole group's: nothing of the    *)
(* project is left, even when the supervisor may be killed.                *)
ExitMeansOver == result = "exit" => ~ProjectRuns

(* When cleanup() says that it is complete nothing of the project runs,    *)
(* however slow the supervisor was, unless something else killed it.       *)
CleanedMeansStopped == host = "cleaned" => ~ProjectRuns \/ struck

(* A recovery that reports a terminated resource has terminated it all.    *)
RecoveryIsTrue == recovery = "terminated" => ~ProjectRuns

(* "Closing the POSIX parent-lifetime pipe terminates and reaps the        *)
(* project tree" (docs/ARCHITECTURE.md): once the pipe is closed the       *)
(* supervisor, unless it is killed, does not end before the project.       *)
ClosedLifetimeReaps ==
    (sup = "dead" /\ "lifetime" \notin pipes) => ~ProjectRuns \/ struck

(* A project whose TrueCoder is gone does not run for ever, even when it   *)
(* ignores SIGTERM or has forked, unless its supervisor was killed.        *)
OrphansStop == host = "gone" ~> ~ProjectRuns \/ struck

(* A start comes to an end, a running handle or an abort, although the     *)
(* supervisor may be killed at any moment and no timeout helps.            *)
StartSettles ==
    host = "await_ready" ~> host \notin {"await_ready", "registering", "await_started", "aborting"}

(* A termination comes to an end although the project ignores SIGTERM. *)
TerminationSettles == host \in {"terminating", "forcing"} ~> host \in {"cleaned", "gone"}
=============================================================================
