----------------------------- MODULE ControlGroup -----------------------------
(***************************************************************************)
(* The control group of one POSIX execution on Linux, which PosixLaunch    *)
(* leaves out: who creates it, joins it, reads its counters, kills what is *)
(* in it and removes it (posix_cgroup.py with posix.py, posix_supervisor.py*)
(* and posix_recovery.py), and processes that leave the process group.     *)
(*                                                                         *)
(*   leader   the project, blocked at its gate until it is executed        *)
(*   worker   a process that it has started, in the same process group     *)
(*   stray    one that has left the process group: setsid                  *)
(***************************************************************************)
EXTENDS FiniteSets

CONSTANTS
    Limits,   \* controllers that the limits may ask for: "memory", "pids", "cpu"
    Faults    \* subset of {"fails", "unplanned", "cancelled", "slow", "old_kernel", "crash"}

VARIABLES
    enforced,  \* controllers that are asked for and enabled
    kills,     \* the kernel has cgroup.kill
    dir,       \* the directory: "none", "made", "gone"
    procs,     \* processes that are alive
    gate,      \* the leader: "apart" from the group, "joined" to it, "open": executed
    doomed,    \* processes that were killed and are not yet gone
    raised,    \* controllers whose counters have passed a limit
    hit,       \* those at the end of the leader
    host,      \* where the backend and its handle are
    row,       \* the audit row durably names the group
    asked,     \* a TERMINATE frame was sent
    sup, reason, told,   \* the supervisor, its reason to stop, its EXIT frame
    rec        \* the recovery by a later process

processes == <<procs, gate, doomed, raised, hit>>
supervisor == <<sup, reason, told>>
vars == <<enforced, kills, dir, processes, host, row, asked, supervisor, rec>>

May(fault) == fault \in Faults
Group == procs \ {"stray"}
Members == IF gate # "apart" /\ dir = "made" THEN procs ELSE {}

\* cgroup.kill, if there is one; a missing directory raises and is passed over
Killed == IF kills THEN doomed \cup Members ELSE doomed

\* Mutant: processes that fail to fork are not told from none.
MutantBlame == IF "memory" \in raised THEN "memory" ELSE IF "cpu" \in raised THEN "cpu" ELSE "none"

\* limit_reason
Blame ==
    IF "memory" \in raised THEN "memory" ELSE IF "pids" \in raised THEN "pids"
    ELSE IF "cpu" \in raised THEN "cpu" ELSE "none"

Init ==
    /\ enforced \in SUBSET Limits /\ kills \in IF May("old_kernel") THEN BOOLEAN ELSE {TRUE}
    /\ dir = "none" /\ procs = {} /\ gate = "apart" /\ doomed = {} /\ raised = {} /\ hit = {}
    /\ host = "create" /\ row = FALSE /\ asked = FALSE
    /\ sup = "none" /\ reason = "none" /\ told = "none" /\ rec = "no"

-----------------------------------------------------------------------------
(* PosixBackend.start and the handle. *)

\* create_execution_cgroup: what fails half way is removed again
Create ==
    /\ host = "create"
    /\ \/ host' = "spawn" /\ dir' = IF enforced = {} THEN "none" ELSE "made"
       \/ May("fails") /\ enforced # {} /\ host' = "failed" /\ UNCHANGED dir
    /\ UNCHANGED <<enforced, kills, processes, row, asked, supervisor, rec>>

\* build_posix_launch_plan, which is not under the try, and resources.spawn
Spawn ==
    /\ host = "spawn"
    /\ \/ host' = "ready" /\ sup' = "spawn" /\ procs' = {"leader"}
       \/ /\ host' \in (IF May("fails") THEN {"aborted"} ELSE {})
                    \cup (IF May("unplanned") THEN {"failed"} ELSE {})
          /\ UNCHANGED <<sup, procs>>
    /\ UNCHANGED <<enforced, kills, dir, gate, doomed, raised, hit, row, asked, reason, told, rec>>

\* READY is read, the row is written, START is sent, STARTED is read.
StartStep ==
    /\ \/ host = "ready" /\ sup = "gate" /\ host' = "register" /\ UNCHANGED <<row, sup, gate>>
       \/ host = "register" /\ row' = TRUE /\ host' = "start" /\ UNCHANGED <<sup, gate>>
       \/ host = "start" /\ sup = "gate" /\ host' = "started" /\ UNCHANGED row
          /\ sup' = "monitor" /\ gate' = "open"
       \/ host = "started" /\ host' = "running" /\ UNCHANGED <<row, sup, gate>>
    /\ UNCHANGED <<enforced, kills, dir, procs, doomed, raised, hit, asked, reason, told, rec>>

\* A cancellation, a deadline, an ERROR frame or a failed registration: abort
\* kills the group and closes the pipes.
Abort ==
    /\ host \in {"ready", "register", "start", "started"}
    /\ May("cancelled") \/ sup = "gone"
    /\ doomed' = Killed /\ host' = "aborting"
    /\ row' \in IF host = "register" THEN BOOLEAN ELSE {row}
    /\ UNCHANGED <<enforced, kills, dir, procs, gate, raised, hit, asked, supervisor, rec>>

\* The supervisor ends, or is killed after one second.
Aborted ==
    /\ host = "aborting"
    /\ sup = "gone" \/ May("slow")
    /\ host' = "aborted" /\ sup' = "gone"
    /\ UNCHANGED <<enforced, kills, dir, processes, row, asked, reason, told, rec>>

\* terminate
Ask ==
    /\ host = "running" /\ host' = "terminating" /\ asked' = TRUE
    /\ UNCHANGED <<enforced, kills, dir, processes, row, supervisor, rec>>

\* wait sees the EXIT frame, or the end of the pipe; then cleanup
Seen ==
    /\ host \in {"running", "terminating"} /\ sup = "gone"
    /\ host' = "sweep"
    /\ UNCHANGED <<enforced, kills, dir, processes, row, asked, supervisor, rec>>

\* _force_terminate
ForceStop ==
    /\ host = "terminating" /\ May("slow")
    /\ doomed' = Killed \cup Group /\ sup' = "gone" /\ host' = "sweep"
    /\ UNCHANGED <<enforced, kills, dir, procs, gate, raised, hit, row, asked, reason, told, rec>>

Crash ==
    /\ May("crash") /\ host \notin {"create", "gone", "failed", "clean", "unclean"}
    /\ host' = "gone"
    /\ UNCHANGED <<enforced, kills, dir, processes, row, asked, supervisor, rec>>

\* Mutant: the directory is given up like one that never was.
MutantRemoves == dir = "made"

\* rmdir: only of a group without a process
Removes == dir = "made" /\ Members = {}

\* cleanup_cgroup and its retries: kill and try again, done, or given up
Sweep(outcome) ==
    \/ /\ outcome = "again" /\ kills /\ Members \ doomed # {}
       /\ doomed' = Killed /\ UNCHANGED dir
    \/ /\ outcome = "swept" /\ (dir # "made" \/ Removes)
       /\ dir' = (IF dir = "made" THEN "gone" ELSE dir) /\ UNCHANGED doomed
    \/ /\ outcome = "left" /\ Members # {} /\ (May("slow") \/ ~kills)
       /\ UNCHANGED <<dir, doomed>>

Cleanup ==
    /\ host \in {"sweep", "aborted"}
    /\ \E outcome \in {"again", "swept", "left"} :
          /\ Sweep(outcome)
          /\ host' = IF outcome = "again" THEN host ELSE IF host = "aborted" THEN "failed"
                     ELSE IF outcome = "swept" THEN "clean" ELSE "unclean"
    /\ UNCHANGED <<enforced, kills, procs, gate, raised, hit, row, asked, supervisor, rec>>

-----------------------------------------------------------------------------
(* The supervisor. *)

\* The lifetime pipe is closed, or SIGTERM came.
Shut == host \notin {"create", "spawn", "ready", "register", "start", "started", "running",
                     "terminating"} \/ rec # "no"

\* _run_blocked_project: the leader joins before it says that it is ready;
\* nothing of it runs when it cannot.
Join ==
    /\ sup \in {"spawn", "gone"} /\ "leader" \in procs \ doomed /\ gate = "apart"
    /\ \/ /\ dir # "gone" /\ gate' = "joined" /\ UNCHANGED procs
          /\ sup' = IF sup = "spawn" THEN "gate" ELSE sup
       \/ /\ dir = "gone" \/ May("fails")
          /\ procs' = {} /\ sup' = "gone" /\ UNCHANGED gate
    /\ UNCHANGED <<enforced, kills, dir, doomed, raised, hit, host, row, asked, reason, told, rec>>

\* _wait_for_start sees the pipe closed.
Withdraw ==
    /\ sup = "gate" /\ Shut
    /\ sup' = "leave" /\ doomed' = doomed \cup Group
    /\ UNCHANGED <<enforced, kills, dir, procs, gate, raised, hit, host, row, asked, reason,
                   told, rec>>

\* _monitor_project, one turn: the end of the leader, a limit, then the pipes.
\* What was read first stands: a stop that was read may come before the end of
\* the leader, or before the limit, is looked at.
Poll ==
    /\ sup = "monitor"
    /\ \/ (asked \/ Shut) /\ reason' = "stopped"
       \/ Blame # "none" /\ "leader" \in procs /\ reason' = Blame
       \/ "leader" \notin procs /\ UNCHANGED reason
    /\ IF "leader" \in procs THEN doomed' = doomed \cup Group /\ sup' = "stop"
       ELSE sup' = "end" /\ UNCHANGED doomed
    /\ UNCHANGED <<enforced, kills, dir, procs, gate, raised, hit, host, row, asked, told, rec>>

Reaped ==
    /\ sup \in {"stop", "leave"} /\ "leader" \notin procs
    /\ sup' = IF sup = "stop" THEN "end" ELSE "gone"
    /\ UNCHANGED <<enforced, kills, dir, processes, host, row, asked, reason, told, rec>>

\* Mutant: the counters are not read once more when the leader has ended.
MutantFinal == reason

\* final_limit_reason: the first reason stands
Final == IF reason = "none" THEN Blame ELSE reason

\* The last look at the counters, then _terminate_group_only.
Close ==
    /\ sup = "end" /\ sup' = "last"
    /\ reason' = Final /\ doomed' = doomed \cup Group
    /\ UNCHANGED <<enforced, kills, dir, procs, gate, raised, hit, host, row, asked, told, rec>>

Tell ==
    /\ sup = "last" /\ (Group = {} \/ May("slow"))
    /\ told' = (IF reason = "none" THEN "exit" ELSE reason) /\ sup' = "gone"
    /\ UNCHANGED <<enforced, kills, dir, processes, host, row, asked, reason, rec>>

-----------------------------------------------------------------------------
(* The processes. *)

Executed == gate = "open"

Fork ==
    /\ Executed /\ Group \ doomed # {}
    /\ \E p \in {"worker", "stray"} \ procs : procs' = procs \cup {p}
    /\ UNCHANGED <<enforced, kills, dir, gate, doomed, raised, hit, host, row, asked, supervisor, rec>>

\* The kernel kills one of the group, or all of it (memory.oom.group), or
\* refuses a fork, or counts the time.
Raise ==
    /\ Executed /\ Members \ doomed # {}
    /\ \E c \in enforced \ raised :
          /\ raised' = raised \cup {c}
          /\ IF c = "memory" THEN \E p \in Members : doomed' \in {doomed \cup {p}, doomed \cup Members}
             ELSE UNCHANGED doomed
    /\ UNCHANGED <<enforced, kills, dir, procs, gate, hit, host, row, asked, supervisor, rec>>

\* A process ends: it was killed, it is done, or its gate is closed.
Ends(p) ==
    /\ p \in doomed \/ Executed \/ sup = "gone"
    /\ procs' = procs \ {p} /\ doomed' = doomed \ {p}
    /\ hit' = IF p = "leader" THEN raised ELSE hit
    /\ UNCHANGED <<enforced, kills, dir, gate, raised, host, row, asked, supervisor, rec>>

-----------------------------------------------------------------------------
(* PosixRecoveryHandler.recover, of a row that names the group. *)

Recover ==
    /\ \/ /\ rec = "no" /\ host = "gone" /\ row
          /\ rec' = (IF sup = "gone" THEN "sweep" ELSE IF Group = {} THEN "raised" ELSE "stop")
          /\ UNCHANGED <<doomed, sup, dir>>
       \/ /\ rec = "stop" /\ (sup = "gone" \/ May("slow")) /\ rec' = "group" /\ sup' = "gone"
          /\ doomed' = doomed \cup Group /\ UNCHANGED dir
       \/ /\ rec = "group"
          /\ \/ Group = {} /\ rec' = "sweep"
             \/ Group # {} /\ May("slow") /\ rec' = "raised"
          /\ UNCHANGED <<doomed, sup, dir>>
       \/ /\ rec = "sweep" /\ UNCHANGED sup
          /\ \E outcome \in {"again", "swept", "left"} :
                /\ Sweep(outcome)
                /\ rec' = CASE outcome = "again" -> rec [] outcome = "swept" -> "recovered"
                            [] outcome = "left" -> "raised"
    /\ UNCHANGED <<enforced, kills, procs, gate, raised, hit, host, row, asked, reason, told>>

Next ==
    \/ Create \/ Spawn \/ StartStep \/ Abort \/ Aborted \/ Ask \/ Seen \/ ForceStop \/ Crash \/ Cleanup
    \/ Join \/ Withdraw \/ Poll \/ Reaped \/ Close \/ Tell
    \/ Fork \/ Raise \/ (\E p \in procs : Ends(p)) \/ Recover

Spec == Init /\ [][Next]_vars

-----------------------------------------------------------------------------
(* Properties. *)

\* Where there is a group, a complete cleanup and a recovery that succeeds
\* leave no process, also none that has left the process group, and no
\* directory; an aborted start leaves none unless its kernel cannot kill a group
\* or its processes are slow to go.
GroupsAreEmptied ==
    enforced # {} =>
        /\ host = "clean" \/ rec = "recovered" => procs = {} /\ dir # "made"
        /\ host = "failed" /\ kills /\ ~May("slow") => procs = {} /\ dir # "made"

\* A limit is blamed only when it was passed, and an exit is reported as one
\* only if no limit had been passed when the leader ended.
LimitsAreBlamed ==
    /\ told \in Limits => told \in raised
    /\ told = "exit" => hit = {}

GroupsAreTold == GroupsAreEmptied /\ LimitsAreBlamed
=============================================================================
