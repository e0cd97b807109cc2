----------------------------- MODULE MCPlatform -----------------------------
(***************************************************************************)
(* What owns processes, checked side by side: a POSIX launch (with a long  *)
(* grace period and any deadline passing, or a short one and none), the    *)
(* recovery of a process that starts (alone with two runs, of which one    *)
(* recovery takes two or one, or beside another process), a container, a   *)
(* Windows job, a control group (with deadlines that pass, or swift), and  *)
(* the runner with the fairness of its scheduler.  The components share no *)
(* state here.  A world is one of them: it moves, the others stay in their *)
(* initial states.                                                         *)
(***************************************************************************)
EXTENDS PosixLaunch     \* with LongGrace and Slow: the world "slow"

CONSTANTS
    Lives, Rivals,          \* processes that come one after another, and at the same time
    Backlog, Contested,     \* the runs of the first, and those of the second
    ClaimLimit, ShortLimit  \* rows one recovery takes: as many as there are, or fewer

ASSUME PlatformAssumption == ClaimLimit \in Nat /\ ShortLimit \in Nat

VARIABLES
    world,
    stage, todo, step, verdict, tainted, copy, row, lease, born, owner, pc, cmd,
    container, known, named, at, wait, reason, term, clean, rec, late, attach,
    await, state, decision, cancelled, noting, active, evidence, attached, proc,
    launched, exit, timers, claim, reaped, cleaned, route, published, answer,
    boot, leased, crashes,
    root, kids, job, noted, start, stopping, unread, drain, waiting, ending,
    closing, found,
    enforced, kills, dir, alive, joined, doomed, raised, hit, owning, listed, told,
    watch, blame, reported, later

Prompt == INSTANCE PosixLaunch WITH LongGrace <- FALSE, Slow <- FALSE

Alone == INSTANCE StartupRecovery WITH
    Processes <- Lives, Runs <- Backlog, Limit <- ClaimLimit,
    Faults <- {"crash", "write_fails", "handler_fails", "expiry", "rewrite"}

Full == INSTANCE StartupRecovery WITH
    Processes <- Lives, Runs <- Backlog, Limit <- ShortLimit,
    Faults <- {"crash", "write_fails"}

Overlap == INSTANCE StartupRecovery WITH
    Processes <- Rivals, Runs <- Contested, Limit <- ClaimLimit,
    Faults <- {"crash", "write_fails", "handler_fails", "expiry", "together"}

Container == INSTANCE ContainerRun WITH
    row <- named, pc <- at, Faults <- {"times_out", "fails", "cancelled", "crash"}

Live == INSTANCE ExecutionRun WITH
    pc <- await, row <- evidence, clean <- cleaned, stage <- published, todo <- leased,
    Runs <- Contested, Faults <- {"write_fails", "hard_cancel", "stuck", "full"}, MaxCrashes <- 0

Job == INSTANCE WindowsLaunch WITH
    row <- noted, cancelled <- stopping, wait <- waiting, term <- ending,
    clean <- closing, rec <- found, Faults <- {"crash", "fails", "pid_reused"}

Group == INSTANCE ControlGroup WITH
    procs <- alive, gate <- joined, host <- owning, row <- listed, asked <- told,
    sup <- watch, reason <- blame, told <- reported, rec <- later,
    Limits <- {"memory"}, Faults <- {"cancelled", "slow", "old_kernel", "crash"}

Swift == INSTANCE ControlGroup WITH
    procs <- alive, gate <- joined, host <- owning, row <- listed, asked <- told,
    sup <- watch, reason <- blame, told <- reported, rec <- later,
    Limits <- {"memory", "pids"}, Faults <- {"fails", "cancelled", "crash"}

launchVars == vars
recoveryVars == <<stage, todo, step, verdict, tainted, copy, row, lease, born, owner, pc, cmd>>
containerVars == <<container, known, named, at, wait, reason, term, clean, rec, late, attach>>
liveVars ==
    <<await, state, decision, cancelled, noting, active, evidence, attached, proc,
      launched, exit, timers, claim, reaped, cleaned, route, published, answer,
      boot, leased, crashes>>
jobVars ==
    <<root, kids, job, noted, start, stopping, unread, drain, waiting, ending,
      closing, found>>
groupVars ==
    <<enforced, kills, dir, alive, joined, doomed, raised, hit, owning, listed, told,
      watch, blame, reported, later>>
allVars == <<world, launchVars, recoveryVars, containerVars, liveVars, jobVars, groupVars>>

(* Two start-ups have functions of their own over processes and runs.      *)
MCInit ==
    /\ world \in {"prompt", "slow", "alone", "full", "overlap", "container", "live",
                 "job", "group", "swift"}
    /\ Init /\ Container!Init /\ Live!Init /\ Job!Init
    /\ IF world = "overlap" THEN Overlap!Init ELSE Alone!Init
    /\ IF world = "swift" THEN Swift!Init
       ELSE Group!Init /\ (world = "group" \/ (enforced = {} /\ kills))

MCNext ==
    /\ UNCHANGED world
    /\ \/ /\ \/ world = "prompt" /\ Prompt!Next
             \/ world = "slow" /\ Next
          /\ UNCHANGED <<recoveryVars, containerVars, liveVars, jobVars, groupVars>>
       \/ /\ \/ world = "alone" /\ Alone!Next
             \/ world = "full" /\ Full!Next
             \/ world = "overlap" /\ Overlap!Next
          /\ UNCHANGED <<launchVars, containerVars, liveVars, jobVars, groupVars>>
       \/ /\ world = "container" /\ Container!Next
          /\ UNCHANGED <<launchVars, recoveryVars, liveVars, jobVars, groupVars>>
       \/ /\ world = "live" /\ Live!Next
          /\ UNCHANGED <<launchVars, recoveryVars, containerVars, jobVars, groupVars>>
       \/ /\ world = "job" /\ Job!Next
          /\ UNCHANGED <<launchVars, recoveryVars, containerVars, liveVars, groupVars>>
       \/ /\ \/ world = "group" /\ Group!Next
             \/ world = "swift" /\ Swift!Next
          /\ UNCHANGED <<launchVars, recoveryVars, containerVars, liveVars, jobVars>>

MCSpec ==
    /\ MCInit /\ [][MCNext]_allVars
    /\ WF_launchVars(world = "prompt" /\ Prompt!Host)
    /\ WF_launchVars(world = "prompt" /\ Prompt!Supervisor)
    /\ WF_launchVars(world = "prompt" /\ Prompt!Project)
    /\ \A p \in Rivals : WF_recoveryVars(world = "overlap" /\ Overlap!Startup(p))
    /\ \A r \in Contested : /\ WF_liveVars(world = "live" /\ Live!Proceed(r))
                           /\ WF_liveVars(world = "live" /\ Live!TimerFires(r))
                           /\ WF_liveVars(world = "live" /\ Live!OrphanStops(r))
    /\ WF_jobVars(world = "job" /\ Job!Wait)
    /\ WF_jobVars(world = "job" /\ Job!Terminate)
    /\ WF_jobVars(world = "job" /\ Job!Drain)

-----------------------------------------------------------------------------
(* Every component keeps the types of its variables.                       *)
WellTyped ==
    /\ TypeOK /\ Container!TypeOK
    /\ IF world = "overlap" THEN Overlap!TypeOK ELSE Alone!TypeOK

(* PosixLaunch: with a short grace period and no deadline passing, the     *)
(* supervisor does not end before the project, whatever TrueCoder dies of. *)
LifetimeReaps == world = "prompt" => Prompt!ClosedLifetimeReaps

(* PosixLaunch: a project whose TrueCoder is gone ends.  A start ends in a *)
(* handle or an abort, a termination in a cleaned handle.  StartupRecovery:*)
(* every start-up ends.  WindowsLaunch: a termination stops the root, and  *)
(* the wait sees it.                                                       *)
CallsSettle ==
    /\ (world = "prompt" /\ host = "gone") ~> (~ProjectRuns \/ struck)
    /\ (world = "prompt" /\ host = "await_ready")
          ~> host \notin {"await_ready", "registering", "await_started", "aborting"}
    /\ (world = "prompt" /\ host \in {"terminating", "forcing"})
          ~> host \in {"cleaned", "gone"}
    /\ \A p \in Rivals :
          (world = "overlap" /\ stage[p] = "opened")
              ~> (world = "overlap" => stage[p] \in {"serving", "refusing", "off"})
    /\ Job!TerminationStops

(* StartupRecovery: the verdict that the resource is gone is true, of any  *)
(* two processes; that none ran, of a process alone, which in the end      *)
(* leaves no row without a verdict but behind those that one recovery      *)
(* takes.                                                                  *)
VerdictsAreTrue ==
    IF world = "overlap" THEN Overlap!RecoveredTruly
    ELSE /\ Alone!RecoveredTruly /\ Alone!NoResourceNeverRan
         /\ IF world = "full" THEN Full!NothingLeftBehind ELSE Alone!NothingLeftBehind

(* StartupRecovery: no step of two processes beside each other, none of    *)
(* which rewrites the file, changes a verdict, and no rewrite by a process *)
(* alone drops an unfinished row.                                          *)
EvidenceStays ==
    /\ [][world = "overlap" => \A r \in Contested : row[r].phase = "terminal" => row'[r] = row[r]]_allVars
    /\ [][(world \in {"alone", "full"}) =>
            \A r \in Backlog : Alone!Nonterminal(row[r]) => row'[r].phase # "absent"]_allVars

(* ExecutionRun: every submitted run comes back, or waits for the user, or *)
(* for a cleanup whose output queue is full and has no reader any more.    *)
RunsReturn == Live!RunsReturn

(* ContainerRun, WindowsLaunch, ControlGroup: nothing runs before the row  *)
(* names it, what is reported gone is gone, an exit code is that of a      *)
(* container that has ended, nothing of a job runs where nobody would stop *)
(* it, and a limit is blamed for the end of a command if it was passed.    *)
BackendsTellTruly ==
    /\ Container!ContainersAreTold /\ Job!JobsAreTold
    /\ IF world = "swift" THEN Swift!GroupsAreTold ELSE Group!GroupsAreTold
=============================================================================
