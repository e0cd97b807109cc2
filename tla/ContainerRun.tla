----------------------------- MODULE ContainerRun -----------------------------
(***************************************************************************)
(* One execution in a Docker container: ContainerBackend.start, the handle's *)
(* wait, terminate and cleanup, and the recovery of a registered container  *)
(* by a later process.                                                      *)
(*                                                                         *)
(* Every call of the runtime is a client process talking to the daemon.  A  *)
(* client that is killed (a timeout of 30 s, a cancellation, or this        *)
(* process dying: clients run in sessions of their own) leaves its request  *)
(* behind, in `late`: the daemon may still carry it out, or never have      *)
(* received it.  `docker start --attach` is never waited for, so its        *)
(* request is outstanding from the moment the handle exists.                *)
(*                                                                         *)
(*   container  what the daemon holds                                       *)
(*   known      start() has the container's id                              *)
(*   row        the audit row durably names the container                   *)
(*   pc         where start() is, then "running" with a handle, "failed"    *)
(*   wait       the exit the handle's wait reported                         *)
(*   reason     the termination reason was set                              *)
(*   term, clean, rec  the terminate, cleanup and recovery tasks            *)
(***************************************************************************)
EXTENDS Naturals

CONSTANT Faults     \* subset of {"times_out", "fails", "cancelled", "crash"}

VARIABLES container, known, row, pc, wait, reason, term, clean, rec, late,
          attach

vars == <<container, known, row, pc, wait, reason, term, clean, rec, late,
          attach>>

tasks == <<wait, reason, term, clean, rec>>

Present == {"created", "running", "exited"}
Gone    == {"none", "removed"}

TypeOK ==
    /\ container \in Present \cup Gone
    /\ known \in BOOLEAN /\ row \in BOOLEAN /\ reason \in BOOLEAN
    /\ pc \in {"create", "require", "verify", "register", "attach",
               "running", "abort", "failed", "dead"}
    /\ wait \in {"no", "inspect", "code", "reason", "raised"}
    /\ term \in {"no", "stop", "inspect", "kill", "done", "raised"}
    /\ clean \in {"no", "inspect", "stop", "look", "kill", "drain", "remove",
                  "unremoved", "verify", "complete", "incomplete", "raised"}
    /\ rec \in {"no", "inspect", "stop", "look", "kill", "again", "remove",
                "verify", "absent", "terminated", "raised"}
    /\ late \subseteq {"create", "start", "stop", "kill", "remove"}
    /\ attach \in {"no", "on", "over"}

Init ==
    /\ container = "none" /\ known = FALSE /\ row = FALSE /\ reason = FALSE
    /\ pc = "create" /\ wait = "no" /\ term = "no" /\ clean = "no"
    /\ rec = "no" /\ late = {} /\ attach = "no"

-----------------------------------------------------------------------------
(* The daemon.                                                              *)

Effect(command) ==
    CASE command = "create" /\ container = "none"    -> "created"
      [] command = "start" /\ container = "created"  -> "running"
      [] command \in {"stop", "kill"} /\ container = "running" -> "exited"
      [] command = "remove" /\ container \in Present -> "removed"
      [] OTHER -> container

\* A request whose client is gone, or that nobody waits for, arrives or is
\* lost on the way.
Arrives(command) ==
    /\ command \in late
    /\ late' = late \ {command}
    /\ \E arrives \in BOOLEAN :
         container' = IF arrives THEN Effect(command) ELSE container
    /\ UNCHANGED <<known, row, pc, attach, tasks>>

\* The project ends by itself.
Exits ==
    /\ container = "running"
    /\ container' = "exited"
    /\ UNCHANGED <<known, row, pc, late, attach, tasks>>

\* One call of the runtime that changes something, waited for: answered, or
\* refused, or given up on when the client is killed.  The code trusts no
\* answer but that of create: under "fails" the others may be answered with
\* nothing done.
Asks(command, answered, raised) ==
    \/ container' = Effect(command) /\ late' = late /\ answered
    \/ /\ "fails" \in Faults
       /\ UNCHANGED <<container, late>>
       /\ raised \/ (command # "create" /\ answered)
    \/ /\ "times_out" \in Faults
       /\ late' = late \cup {command} /\ UNCHANGED container
       /\ raised

\* inspect: reads, or raises.
Reads(answered, raised) ==
    /\ UNCHANGED <<container, late>>
    /\ answered \/ (Faults \cap {"fails", "times_out"} # {} /\ raised)

Running == container = "running"
Absent  == container \in Gone

-----------------------------------------------------------------------------
(* ContainerBackend.start: create, inspect, verify, register, start.        *)

Start(from, to) == pc = from /\ pc' = to /\ UNCHANGED <<attach, tasks>>

Created == known' = TRUE /\ pc' = "require"

Create ==
    /\ pc = "create"
    /\ Asks("create", Created, pc' = "abort" /\ UNCHANGED known)
    /\ UNCHANGED <<row, attach, tasks>>

\* Not found, or no longer stopped: the start is refused.
Require ==
    /\ pc = "require"
    /\ Reads(pc' = IF container = "created" THEN "register" ELSE "abort",
             pc' = "abort")
    /\ UNCHANGED <<known, row, attach, tasks>>

\* The durable registrar; an error may follow the commit.
Register ==
    /\ pc = "register"
    /\ \/ row' = TRUE /\ pc' = "attach"
       \/ "fails" \in Faults /\ row' \in BOOLEAN /\ pc' = "abort"
    /\ UNCHANGED <<container, known, late, attach, tasks>>

\* start_attached only spawns the client: its request is under way.
Attach ==
    /\ Start("attach", "running")
    /\ late' = late \cup {"start"}
    /\ UNCHANGED <<container, known, row>>

\* The client of a running container gives the handle its output.
Attached ==
    /\ pc = "running" /\ attach = "no" /\ container # "created"
    /\ attach' = "on"
    /\ UNCHANGED <<container, known, row, pc, late, tasks>>

\* The token is cancelled between two steps, or the start task is cancelled
\* inside one: a request then under way is left to the daemon.
Cancelled ==
    /\ "cancelled" \in Faults
    /\ pc \in {"create", "require", "register", "attach"}
    /\ pc' = "abort"
    /\ late' \in {late, late \cup (CASE pc = "create" -> {"create"}
                                     [] pc = "attach" -> {"start"}
                                     [] OTHER -> {})}
    /\ row' \in (IF pc = "register" THEN BOOLEAN ELSE {row})
    /\ UNCHANGED <<container, known, attach, tasks>>

\* _abort: removes the container whose id it has, and says nothing when it
\* cannot.
Abort ==
    /\ pc = "abort"
    /\ pc' = "failed"
    /\ IF known THEN Asks("remove", TRUE, TRUE)
                ELSE UNCHANGED <<container, late>>
    /\ UNCHANGED <<known, row, attach, tasks>>

-----------------------------------------------------------------------------
(* The handle.                                                              *)

Handle == pc = "running" /\ UNCHANGED <<known, row, pc>>

\* The attached client ends with the container it follows, or by itself.
ClientEnds ==
    /\ Handle /\ attach # "over"
    /\ container \in {"exited", "removed"} \/ "fails" \in Faults
    /\ attach' = "over"
    /\ UNCHANGED <<container, late, tasks>>

WaitBegins ==
    /\ Handle /\ wait = "no" /\ attach = "over"
    /\ wait' = "inspect"
    /\ UNCHANGED <<container, late, attach, reason, term, clean, rec>>

\* _exit_from; an inspection without a code and no reason makes an invalid
\* exit, which raises.
ExitFrom ==
    IF Absent \/ reason THEN "reason"
    ELSE IF container = "exited" THEN "code" ELSE "raised"

Wait ==
    /\ Handle /\ wait = "inspect"
    /\ Reads(wait' = ExitFrom, wait' = "raised")
    /\ UNCHANGED <<attach, reason, term, clean, rec>>

Terminate ==
    /\ Handle /\ UNCHANGED <<attach, wait, clean, rec>>
    /\ \/ /\ term = "no" /\ clean = "no"
          /\ term' = "stop" /\ reason' = TRUE
          /\ UNCHANGED <<container, late>>
       \/ /\ term = "stop" /\ UNCHANGED reason
          /\ Asks("stop", term' = "inspect", term' = "raised")
       \/ /\ term = "inspect" /\ UNCHANGED reason
          /\ Reads(term' = IF Running THEN "kill" ELSE "done", term' = "raised")
       \/ /\ term = "kill" /\ UNCHANGED reason
          /\ Asks("kill", term' = "done", term' = "raised")

\* The runner cleans up once the exit is known or a termination was tried.
Cleaning(from) == Handle /\ clean = from /\ UNCHANGED <<attach, wait, term, rec>>

(* Mutant: removal is not verified.                                      *)
MutantVerdict(present) == "complete"

Verdict(present) == IF present THEN "incomplete" ELSE "complete"

CleanUp ==
    \/ /\ Cleaning("no")
       /\ wait \in {"code", "reason", "raised"} \/ term \in {"done", "raised"}
       /\ clean' = "inspect" /\ UNCHANGED <<container, late, reason>>
    \/ /\ Cleaning("inspect")
       /\ Reads(/\ clean' = IF Running THEN "stop" ELSE "drain"
                /\ reason' = (reason \/ Running),
                clean' = "raised" /\ UNCHANGED reason)
    \/ /\ Cleaning("stop") /\ UNCHANGED reason
       /\ Asks("stop", clean' = "look", clean' = "drain")
    \/ /\ Cleaning("look") /\ UNCHANGED reason
       /\ Reads(clean' = IF Running THEN "kill" ELSE "drain", clean' = "drain")
    \/ /\ Cleaning("kill") /\ UNCHANGED reason
       /\ Asks("kill", clean' = "drain", clean' = "drain")
    \* the pumps are cancelled, the client waited for, 10 s at most
    \/ /\ Cleaning("drain") /\ UNCHANGED reason
       /\ clean' = "remove" /\ UNCHANGED <<container, late>>
    \/ /\ Cleaning("remove") /\ UNCHANGED reason
       /\ Asks("remove", clean' = "verify", clean' = "unremoved")
    \/ /\ Cleaning("verify") /\ UNCHANGED reason
       /\ Reads(clean' = Verdict(container \in Present), clean' = "raised")
    \/ /\ Cleaning("unremoved") /\ UNCHANGED reason
       /\ Reads(clean' = "incomplete", clean' = "raised")

-----------------------------------------------------------------------------
(* The process dies; a later one recovers what the row names.               *)

\* The requests this process is waiting for: any of them may go on alone.
Outstanding ==
    {command \in {"create", "stop", "kill", "remove"} :
       \/ command = pc
       \/ command = "remove" /\ pc = "abort" /\ known
       \/ command \in {term, clean}}

Crash ==
    /\ "crash" \in Faults /\ pc # "dead"
    /\ pc' = "dead"
    /\ \E left \in SUBSET Outstanding : late' = late \cup left
    /\ UNCHANGED <<container, known, row, attach, tasks>>

Recovering(from) ==
    /\ pc = "dead" /\ row /\ rec = from
    /\ UNCHANGED <<known, row, pc, attach, wait, reason, term, clean>>

Found == IF Absent THEN "absent" ELSE IF Running THEN "stop" ELSE "remove"

\* ContainerRecoveryHandler.recover; the identity of the one container here
\* always matches, so a mismatch is no case of its own: it raises.
Recover ==
    \/ /\ Recovering("no")
       /\ rec' = "inspect" /\ UNCHANGED <<container, late>>
    \/ /\ Recovering("inspect")
       /\ Reads(rec' = Found, rec' = "raised")
    \/ /\ Recovering("stop")
       /\ Asks("stop", rec' = "look", rec' = "raised")
    \/ /\ Recovering("look")
       /\ Reads(rec' = IF Running THEN "kill" ELSE "remove", rec' = "raised")
    \/ /\ Recovering("kill")
       /\ Asks("kill", rec' = "again", rec' = "raised")
    \/ /\ Recovering("again")
       /\ Reads(rec' = IF Running THEN "raised" ELSE "remove", rec' = "raised")
    \/ /\ Recovering("remove")
       /\ Asks("remove", rec' = "verify", rec' = "raised")
    \/ /\ Recovering("verify")
       /\ Reads(rec' = IF Absent THEN "terminated" ELSE "raised",
                rec' = "raised")

Settled ==
    /\ \/ pc = "failed"
       \/ pc = "running" /\ clean \in {"complete", "incomplete", "raised"}
       \/ pc = "dead" /\ (row => rec \in {"absent", "terminated", "raised"})
    /\ UNCHANGED vars

Next ==
    \/ \E command \in {"create", "start", "stop", "kill", "remove"} :
         Arrives(command)
    \/ Exits \/ Create \/ Require \/ Register \/ Attach \/ Attached
    \/ Cancelled \/ Abort \/ ClientEnds \/ WaitBegins \/ Wait \/ Terminate
    \/ CleanUp \/ Crash \/ Recover \/ Settled

Spec == Init /\ [][Next]_vars

-----------------------------------------------------------------------------
\* "Project code stays stopped until its container identity is durable"
\* (docs/ARCHITECTURE.md): whichever call was refused, given up on or left to
\* the daemon, so that a crash at any later moment leaves recovery a name.
NothingRunsUnregistered == Running => row

\* When a cleanup reports success, or recovery that the container is absent or
\* terminated, the container is gone and no request still under way brings it
\* back.
GoneIsGone ==
    clean = "complete" \/ rec \in {"absent", "terminated"} => Absent

\* An exit code is reported only of a container that has ended, though the
\* client the handle waits for may end long before it.
ReportedExitIsFinal == wait = "code" => container \notin {"created", "running"}

\* What is said of a container is so: that it is gone, that it has ended, and,
\* by its row, that it may exist.
ContainersAreTold == NothingRunsUnregistered /\ GoneIsGone /\ ReportedExitIsFinal

\* A start that failed leaves no container behind that no row names
\* (docs/ARCHITECTURE.md: "every partial path removes ...", "no container,
\* client, or temporary file leaks").
FailedStartLeavesNothing == pc = "failed" => Absent \/ row
=============================================================================
