----------------------------- MODULE WindowsLaunch -----------------------------
(***************************************************************************)
(* One execution in a Windows Job Object: WindowsBackend.start, the wait,  *)
(* terminate, cleanup and output tasks of its handle, and the recovery of  *)
(* its row by a later process.                                             *)
(*                                                                         *)
(*   root     the command's process: "loose" while it is suspended and not *)
(*            yet in the job                                               *)
(*   kids     processes it started are running, in the same job            *)
(*   job      the handle of the job: KILL_ON_JOB_CLOSE is always set       *)
(*   row      the audit row durably names the job                          *)
(*   start    where start() is, then "handle", "failed", or "dead" when    *)
(*            TrueCoder is gone                                            *)
(*   unread   the root has written what nobody has read                    *)
(*   drain, wait, term, clean, rec   the tasks                             *)
(***************************************************************************)
EXTENDS Naturals

CONSTANT Faults  \* subset of {"crash", "fails", "still_active", "pid_reused"}

VARIABLES root, kids, job, row, start, cancelled, unread, drain, wait, term, clean, rec

project == <<root, kids, job, unread>>
tasks   == <<drain, wait, term, clean>>
vars == <<project, row, start, cancelled, tasks, rec>>

Runs == root = "running" \/ kids

Flags == kids \in BOOLEAN /\ row \in BOOLEAN /\ cancelled \in BOOLEAN /\ unread \in BOOLEAN

TypeOK ==
    /\ Flags
    /\ root \in {"none", "loose", "suspended", "running", "exited", "still_active"}
    /\ job \in {"none", "open", "closed"}
    /\ start \in {"begin", "create", "assign", "register", "check", "resume",
                  "handle", "failed", "dead"}
    /\ drain \in {"no", "read", "look", "last", "over"}
    /\ wait \in {"no", "poll", "exit"} /\ term \in {"no", "grace", "kill", "done", "raised"}
    /\ clean \in {"no", "close", "unclean", "complete", "incomplete"}
    /\ rec \in {"no", "recovery_failed", "absent", "terminated"}

Init ==
    /\ root = "none" /\ kids = FALSE /\ job = "none" /\ row = FALSE
    /\ start = "begin" /\ cancelled = FALSE /\ unread = FALSE
    /\ drain = "no" /\ wait = "no" /\ term = "no" /\ clean = "no" /\ rec = "no"

----------------------------------------------------------------------------
(* The calls of windows_native.                                            *)

CanFail == "fails" \in Faults

(* TerminateJobObject: every process assigned to the job.                  *)
TerminateJob ==
    /\ root' = IF root \in {"suspended", "running"} THEN "exited" ELSE root
    /\ kids' = FALSE

(* Mutant: the flag is set only along with another limit.                  *)
MutantKillOnClose == FALSE

(* build_job_limit_flags: JOB_OBJECT_LIMIT_KILL_ON_JOB_CLOSE, always.      *)
KillOnClose == TRUE

(* Closing the last handle kills what is still in the job.                 *)
CloseJob ==
    /\ job' = "closed"
    /\ IF KillOnClose THEN TerminateJob ELSE UNCHANGED <<root, kids>>

(* _discard: every failure is passed over; the handles are closed.         *)
Discard == CloseJob /\ start' = "failed" /\ UNCHANGED unread

(* Mutant: the command is over when its whole job is.                      *)
MutantExitCode == root = "exited" /\ ~kids

(* exit_code: what exited with 259 reads like what is still running.       *)
ExitCode == root = "exited"

----------------------------------------------------------------------------
(* start()                                                                 *)

(* create_job with the limits of build_job_limit_flags, and the pipes.     *)
CreateJob ==
    /\ start = "begin"
    /\ \/ ~cancelled /\ job' = "open" /\ start' = "create"
       \/ (cancelled \/ CanFail) /\ job' = job /\ start' = "failed"
    /\ UNCHANGED <<root, kids, unread, row, cancelled, tasks, rec>>

(* CreateProcessW, suspended.                                              *)
CreateSuspended ==
    /\ start = "create"
    /\ \/ root' = "loose" /\ start' = "assign" /\ job' = job
       \/ CanFail /\ root' = root /\ start' = "failed" /\ job' = "closed"
    /\ UNCHANGED <<kids, unread, row, cancelled, tasks, rec>>

(* AssignProcessToJobObject; if it fails, the process is terminated alone. *)
Assign ==
    /\ start = "assign"
    /\ \/ root' = "suspended" /\ start' = "register" /\ job' = job
       \/ CanFail /\ root' = "exited" /\ start' = "failed" /\ job' = "closed"
    /\ UNCHANGED <<kids, unread, row, cancelled, tasks, rec>>

(* Mutant: the thread is resumed while the registration is awaited.        *)
MutantRegister ==
    /\ start = "register"
    /\ start' = "check" /\ root' = "running" /\ row' \in BOOLEAN
    /\ UNCHANGED <<kids, job, unread>>

(* register_resource is awaited: it commits, fails, or does both.          *)
Register ==
    /\ start = "register"
    /\ \/ row' = TRUE /\ start' = "check" /\ UNCHANGED project
       \/ CanFail /\ row' \in BOOLEAN /\ Discard

Registers == Register /\ UNCHANGED <<cancelled, tasks, rec>>

(* The cancellation that came during the registration.                     *)
CheckCancelled ==
    /\ start = "check"
    /\ IF cancelled THEN Discard ELSE start' = "resume" /\ UNCHANGED project
    /\ UNCHANGED <<row, cancelled, tasks, rec>>

Resume ==
    /\ start = "resume"
    /\ \/ root' = "running" /\ start' = "handle" /\ UNCHANGED <<kids, job, unread>>
       \/ CanFail /\ Discard
    /\ UNCHANGED <<row, cancelled, tasks, rec>>

Cancel == start \in {"begin", "register"} /\ ~cancelled /\ cancelled' = TRUE
          /\ UNCHANGED <<project, row, start, tasks, rec>>

----------------------------------------------------------------------------
(* The project.                                                            *)
Writes   == root = "running" /\ unread' = TRUE /\ UNCHANGED <<root, kids, job>>
Spawns   == root = "running" /\ kids' = TRUE /\ UNCHANGED <<root, job, unread>>
KidsEnd  == kids /\ kids' = FALSE /\ UNCHANGED <<root, job, unread>>
RootEnds == /\ root = "running"
            /\ \/ root' = "exited"
               \/ "still_active" \in Faults /\ root' = "still_active"
            /\ UNCHANGED <<kids, job, unread>>

Project == (Writes \/ Spawns \/ KidsEnd \/ RootEnds)
           /\ UNCHANGED <<row, start, cancelled, tasks, rec>>

----------------------------------------------------------------------------
(* The handle.                                                             *)
Held == start = "handle" /\ UNCHANGED <<row, start, cancelled, rec>>

(* Mutant: the exit code ends the output without another read.             *)
MutantLastRead == IF drain = "look" /\ ExitCode THEN "over" ELSE "read"

(* The iterator's next state once the exit code has been looked at.        *)
LastRead == IF ExitCode THEN "last" ELSE "read"

(* _drain: read until both pipes are empty, look for the exit, and only    *)
(* then read once more.                                                    *)
Drain ==
    /\ Held /\ clean = "no"
    /\ \/ drain = "no" /\ drain' = "read" /\ unread' = unread
       \/ drain = "read" /\ unread /\ unread' = FALSE /\ drain' = drain
       \/ drain = "read" /\ ~unread /\ drain' = "look" /\ unread' = unread
       \/ drain = "look" /\ drain' = LastRead /\ unread' = unread
       \/ drain = "last" /\ drain' = "over" /\ unread' = FALSE
    /\ UNCHANGED <<root, kids, job, wait, term, clean>>

Wait ==
    /\ Held /\ clean = "no"
    /\ \/ wait = "no" /\ wait' = "poll"
       \/ wait = "poll" /\ ExitCode /\ wait' = "exit"
    /\ UNCHANGED <<project, drain, term, clean>>

(* _terminate_once: the whole grace is spent polling for the root's exit,  *)
(* then the job is terminated.                                             *)
Terminate ==
    /\ Held /\ clean = "no"
    /\ \/ term = "no" /\ term' = "grace" /\ UNCHANGED project
       \/ term = "grace" /\ ExitCode /\ term' = "done" /\ UNCHANGED project
       \/ term = "grace" /\ term' = "kill" /\ UNCHANGED project
       \/ term = "kill" /\ term' = "done" /\ TerminateJob /\ UNCHANGED <<job, unread>>
       \/ term = "kill" /\ CanFail /\ term' = "raised" /\ UNCHANGED project
    /\ UNCHANGED <<drain, wait, clean>>

(* Mutant: an exited root is taken for an empty job.                       *)
MutantStopAll == IF ExitCode THEN UNCHANGED <<root, kids>> ELSE TerminateJob

(* terminate_job comes first, whatever the root did.                       *)
StopAll == TerminateJob

(* _cleanup_once: every failed call makes the cleanup incomplete.          *)
CleanUp ==
    /\ Held
    /\ \/ clean = "no" /\ clean' = "close" /\ StopAll /\ UNCHANGED <<job, unread>>
       \/ clean = "no" /\ CanFail /\ clean' = "unclean" /\ UNCHANGED project
       \/ clean = "close" /\ clean' = "complete" /\ CloseJob /\ UNCHANGED unread
       \/ clean = "unclean" /\ clean' = "incomplete" /\ CloseJob /\ UNCHANGED unread
       \/ clean \in {"close", "unclean"} /\ CanFail /\ clean' = "incomplete" /\ UNCHANGED project
    /\ UNCHANGED <<drain, wait, term>>

----------------------------------------------------------------------------
(* TrueCoder disappears: its handles are closed, so the job is killed.     *)
Crash ==
    /\ "crash" \in Faults /\ start # "dead"
    /\ start' = "dead"
    /\ IF job = "open" THEN CloseJob ELSE UNCHANGED <<root, kids, job>>
    /\ UNCHANGED <<unread, row, cancelled, tasks, rec>>

(* WindowsRecoveryHandler.recover, by the process that starts next: the    *)
(* host id holds the process id.  Where that has been given out again the  *)
(* number of the handle is looked up, and may be that of any other object. *)
Recover ==
    /\ start = "dead" /\ row /\ rec = "no"
    /\ \/ rec' = "recovery_failed"
       \/ "pid_reused" \in Faults /\ rec' \in {"absent", "terminated"}
    /\ UNCHANGED <<project, row, start, cancelled, tasks>>

Next ==
    \/ CreateJob \/ CreateSuspended \/ Assign \/ Registers \/ CheckCancelled \/ Resume
    \/ Cancel \/ Project \/ Drain \/ Wait \/ Terminate \/ CleanUp \/ Crash \/ Recover

Spec ==
    /\ Init /\ [][Next]_vars
    /\ WF_vars(Wait) /\ WF_vars(Terminate) /\ WF_vars(Drain)

----------------------------------------------------------------------------
(* "project code stays suspended until its Job Object identity is          *)
(* durable": the root executes only once the row names its job.            *)
SuspendedUntilDurable == root = "running" => row

(* Nothing of a project executes where nobody would stop it: outside its   *)
(* job, before its handle is owned, after a failed start, a completed      *)
(* cleanup or the end of TrueCoder.                                        *)
NothingEscapes == Runs => job = "open" /\ start = "handle" /\ clean \notin {"close", "complete"}

(* A recovery that reports the job gone is right.                          *)
RecoveryIsTrue == rec \in {"absent", "terminated"} => ~Runs

(* What the root wrote before it exited is read before the output ends.    *)
OutputIsRead == drain = "over" => ~unread

JobsAreTold == SuspendedUntilDurable /\ NothingEscapes /\ RecoveryIsTrue /\ OutputIsRead

(* A termination stops the root, unless the system refuses it; and the     *)
(* wait then sees the exit.                                                *)
TerminationStops ==
    /\ (term = "grace") ~> (root # "running" \/ term = "raised" \/ clean # "no" \/ start = "dead")
    /\ (wait = "poll" /\ root = "exited") ~> (wait = "exit" \/ clean # "no" \/ start = "dead")
=============================================================================
