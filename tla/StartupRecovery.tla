-------------------------- MODULE StartupRecovery --------------------------
(***************************************************************************)
(* What the next TrueCoder does with the rows it finds: the audit database *)
(* is one file per user, every process leases the nonterminal rows at its  *)
(* start (audit/recovery.py, audit/store.py), recovers them one after      *)
(* another, rewrites the file to drop expired rows (apply_retention), and  *)
(* only then serves executions (bootstrap.py).                             *)
(*                                                                         *)
(* An execution is cut down to the writes and the two moments that matter  *)
(* to another process: the blocked project and its launch.  ExecutionRun   *)
(* has the rest, PosixLaunch what the handler does.  Each action is one    *)
(* transaction, or one call of a handler.                                  *)
(***************************************************************************)
EXTENDS AuditRecord, Naturals, Sequences, SequencesExt

CONSTANTS
    Processes,  \* lives of TrueCoder
    Runs,
    Limit,      \* rows one recovery claims at most (100)
    Faults      \* "crash", "write_fails", "handler_fails", "expiry" (a lease of 30
                \* seconds ends), "rewrite" (the database has rows that retention
                \* deletes), "together" (two processes at the same time)

VARIABLES
    stage,    \* how far the start of a process is
    todo,     \* the snapshots it has claimed and not finished, in order
    step,     \* where it is with the first of them
    verdict,  \* the outcome it has for it
    tainted,  \* an outcome so far was recovery_failed
    copy,     \* the replacement database it has built
    row, lease,
    born,     \* the rows in the order of their creation
    owner,    \* the process whose coroutine drives the run
    pc,       \* how far that coroutine is
    cmd       \* the project of the run

startup == <<stage, todo, step, verdict, tainted, copy>>
database == <<row, lease, born>>
work == <<owner, pc, cmd>>
vars == <<startup, database, work>>

Stages == {"off", "opened", "recovering", "retaining", "installing", "serving", "refusing"}
Steps == {"note", "handle", "result", "finalize"}
Commands == {"none", "blocked", "executing", "stopped"}
Leases == {"free", "held", "expired"}

(* "ended": returned or raised.  "lost": the process is gone.              *)
Pcs == {"none", "admitted", "attached", "launched", "running", "settling", "ended", "lost"}

Snapshots == [run : Runs, phase : {"pending", "running"}, named : BOOLEAN]

NoCopy == [rows |-> [r \in Runs |-> NoRow], leases |-> [r \in Runs |-> "free"]]

Alive(r) == cmd[r] \in {"blocked", "executing"}

----------------------------------------------------------------------------
Init ==
    /\ stage = [p \in Processes |-> "off"]
    /\ todo = [p \in Processes |-> <<>>]
    /\ step = [p \in Processes |-> "note"]
    /\ verdict = [p \in Processes |-> "none"]
    /\ tainted = [p \in Processes |-> FALSE]
    /\ copy = [p \in Processes |-> NoCopy]
    /\ row = [r \in Runs |-> NoRow]
    /\ lease = [r \in Runs |-> "free"]
    /\ born = <<>>
    /\ owner = [r \in Runs |-> "nobody"]
    /\ pc = [r \in Runs |-> "none"]
    /\ cmd = [r \in Runs |-> "none"]

----------------------------------------------------------------------------
(* The life of a process *)

(* Every local of the start-up is new.                                     *)
Reset(p, to) ==
    /\ stage' = [stage EXCEPT ![p] = to]
    /\ todo' = [todo EXCEPT ![p] = <<>>]
    /\ step' = [step EXCEPT ![p] = "note"]
    /\ verdict' = [verdict EXCEPT ![p] = "none"]
    /\ tainted' = [tainted EXCEPT ![p] = FALSE]
    /\ copy' = [copy EXCEPT ![p] = NoCopy]

Boot(p) ==
    /\ stage[p] = "off"
    /\ "together" \in Faults \/ \A q \in Processes : stage[q] = "off"
    /\ Reset(p, "opened")
    /\ UNCHANGED <<database, work>>

(* The supervisor of a project whose TrueCoder is gone stops it, in its    *)
(* own time (OrphanStops).                                                 *)
Disowned(p) ==
    /\ owner' = [r \in Runs |-> IF owner[r] = p THEN "nobody" ELSE owner[r]]
    /\ pc' = [r \in Runs |-> IF owner[r] = p /\ pc[r] # "ended" THEN "lost" ELSE pc[r]]
    /\ cmd' = cmd

Crash(p) ==
    /\ "crash" \in Faults /\ stage[p] # "off"
    /\ Reset(p, "off") /\ Disowned(p)
    /\ UNCHANGED database

(* Leaving without a run in flight.                                        *)
Leave(p) ==
    /\ stage[p] \in {"serving", "refusing"}
    /\ \A r \in Runs : owner[r] = p => pc[r] = "ended"
    /\ Reset(p, "off") /\ Disowned(p)
    /\ UNCHANGED database

(* bootstrap_execution catches it: the process runs without executions.    *)
Refuse(p) == Reset(p, "refusing") /\ UNCHANGED <<database, work>>

(* A write that fails and stores nothing; ExecutionRun has those that fail *)
(* after they are stored.                                                  *)
WriteFails(p) ==
    /\ "write_fails" \in Faults
    /\ stage[p] \in {"opened", "recovering", "retaining", "installing"}
    /\ stage[p] = "recovering" => todo[p] # <<>> /\ step[p] # "handle"
    /\ Refuse(p)

----------------------------------------------------------------------------
(* recover_startup *)

(* Mutant: running rows are overlooked.                                    *)
MutantPendingOnly(r) == row[r].phase = "pending" /\ lease[r] # "held"

Claimable(r) == Nonterminal(row[r]) /\ lease[r] # "held"

SnapshotOf(r) == [run |-> r, phase |-> row[r].phase, named |-> row[r].resource]

(* Mutant: the last rows are claimed.                                      *)
MutantOldest(places) ==
    \A i \in DOMAIN born : Claimable(born[i]) =>
        i \in ToSet(places) \/ (Len(places) = Limit /\ \A j \in ToSet(places) : i < j)

(* ORDER BY created_at ... LIMIT: a row is left out behind Limit others.   *)
Oldest(places) ==
    \A i \in DOMAIN born : Claimable(born[i]) =>
        i \in ToSet(places) \/ (Len(places) = Limit /\ \A j \in ToSet(places) : j < i)

(* claim_nonterminal: one transaction for all the rows.                    *)
Claim(p) ==
    /\ stage[p] = "opened"
    /\ \E n \in 0..Limit : \E places \in [1..n -> DOMAIN born] :
          /\ \A i \in 1..n : Claimable(born[places[i]])
          /\ \A i, j \in 1..n : i < j => places[i] < places[j]
          /\ Oldest(places)
          /\ todo' = [todo EXCEPT ![p] = [i \in 1..n |-> SnapshotOf(born[places[i]])]]
          /\ lease' = [r \in Runs |-> IF \E i \in 1..n : born[places[i]] = r
                                     THEN "held" ELSE lease[r]]
    /\ stage' = [stage EXCEPT ![p] = "recovering"]
    /\ UNCHANGED <<step, verdict, tainted, copy, row, born, work>>

Recovering(p, s) == stage[p] = "recovering" /\ todo[p] # <<>> /\ step[p] = s

(* RECOVERY_STARTED is appended.                                           *)
Note(p) ==
    /\ Recovering(p, "note")
    /\ LET snapshot == Head(todo[p])
           r == snapshot.run
       IN /\ CanAppend(row[r])
          /\ row' = [row EXCEPT ![r] = AppendEvent(row[r], "recovery_started")]
          /\ IF snapshot.named
             THEN step' = [step EXCEPT ![p] = "handle"] /\ verdict' = verdict
             ELSE /\ step' = [step EXCEPT ![p] = "finalize"]
                  /\ verdict' = [verdict EXCEPT ![p] = "recovered_no_resource"]
    /\ UNCHANGED <<stage, todo, tainted, copy, lease, born, work>>

(* Mutant: the handler only looks.                                         *)
MutantLooks(r) == cmd' = cmd

(* The handler stops the exact resource, and its supervisor with it.       *)
StopResource(r) == cmd' = [cmd EXCEPT ![r] = "stopped"]

(* Any exception of the handler becomes recovery_failed.                   *)
Handle(p) ==
    /\ Recovering(p, "handle")
    /\ LET r == Head(todo[p]).run
       IN \/ /\ Alive(r) /\ StopResource(r)
             /\ verdict' = [verdict EXCEPT ![p] = "recovered_terminated"]
          \/ /\ ~Alive(r) /\ cmd' = cmd
             /\ verdict' = [verdict EXCEPT ![p] = "recovered_resource_absent"]
          \/ /\ "handler_fails" \in Faults /\ cmd' = cmd
             /\ verdict' = [verdict EXCEPT ![p] = "recovery_failed"]
    /\ step' = [step EXCEPT ![p] = "result"]
    /\ UNCHANGED <<stage, todo, tainted, copy, database, owner, pc>>

(* The event of the verdict is appended; the trail does not tell it from   *)
(* the one before.                                                         *)
Result(p) ==
    /\ Recovering(p, "result")
    /\ CanAppend(row[Head(todo[p]).run])
    /\ step' = [step EXCEPT ![p] = "finalize"]
    /\ UNCHANGED <<stage, todo, verdict, tainted, copy, database, work>>

(* Mutant: only the recovery itself is asked.                              *)
MutantClosesAnything(snapshot) == TRUE

(* mark_terminal also compares the phase with the snapshot's.              *)
CanClose(snapshot) ==
    LET stored == row[snapshot.run]
    IN CanFinalize(stored, "unknown", snapshot.named) /\ stored.phase = snapshot.phase

Close(p) ==
    /\ Recovering(p, "finalize")
    /\ LET snapshot == Head(todo[p])
           r == snapshot.run
       IN /\ CanClose(snapshot)
          /\ row' = [row EXCEPT ![r] = Finalize(row[r], verdict[p])]
          /\ lease' = [lease EXCEPT ![r] = "free"]
    /\ tainted' = [tainted EXCEPT ![p] = @ \/ verdict[p] = "recovery_failed"]
    /\ todo' = [todo EXCEPT ![p] = Tail(@)]
    /\ step' = [step EXCEPT ![p] = "note"]
    /\ verdict' = [verdict EXCEPT ![p] = "none"]
    /\ UNCHANGED <<stage, copy, born, work>>

(* The store refuses a write: the rest of the recovery is given up.        *)
WriteRefused(p) ==
    /\ \/ /\ Recovering(p, "note") \/ Recovering(p, "result")
          /\ ~CanAppend(row[Head(todo[p]).run])
       \/ Recovering(p, "finalize") /\ ~CanClose(Head(todo[p]))
    /\ Refuse(p)

Recovered(p) ==
    /\ stage[p] = "recovering" /\ todo[p] = <<>>
    /\ stage' = [stage EXCEPT ![p] = IF tainted[p] THEN "refusing" ELSE "retaining"]
    /\ UNCHANGED <<todo, step, verdict, tainted, copy, database, work>>

----------------------------------------------------------------------------
(* apply_retention *)

Kept(r) == row[r]

(* Which rows are kept is read, and what they hold is copied, outside any  *)
(* transaction.  The rows it deletes are old ones, not among Runs.         *)
Retain(p) ==
    /\ stage[p] = "retaining"
    /\ \/ stage' = [stage EXCEPT ![p] = "serving"] /\ copy' = copy
       \/ /\ "rewrite" \in Faults
          /\ stage' = [stage EXCEPT ![p] = "installing"]
          /\ copy' = [copy EXCEPT ![p] = [rows |-> [r \in Runs |-> Kept(r)],
                                                 leases |-> lease]]
    /\ UNCHANGED <<todo, step, verdict, tainted, database, work>>

(* os.replace: what was written since the copy is gone.                    *)
Install(p) ==
    /\ stage[p] = "installing"
    /\ row' = copy[p].rows /\ lease' = copy[p].leases
    /\ stage' = [stage EXCEPT ![p] = "serving"]
    /\ copy' = [copy EXCEPT ![p] = NoCopy]
    /\ UNCHANGED <<todo, step, verdict, tainted, born, work>>

----------------------------------------------------------------------------
(* Executions of a serving process *)

Drives(p, r, where) == owner[r] = p /\ stage[p] = "serving" /\ pc[r] = where

Admit(p, r) ==
    /\ stage[p] = "serving" /\ pc[r] = "none"
    /\ row' = [row EXCEPT ![r] = CreatePending(row[r])]
    /\ born' = Append(born, r)
    /\ owner' = [owner EXCEPT ![r] = p]
    /\ pc' = [pc EXCEPT ![r] = "admitted"]
    /\ UNCHANGED <<startup, lease, cmd>>

(* The project is blocked behind the gate and its identity is offered; a   *)
(* refusal aborts the start.                                               *)
Attach(p, r) ==
    /\ Drives(p, r, "admitted")
    /\ IF CanAttach(row[r])
       THEN /\ row' = [row EXCEPT ![r] = AttachResource(row[r])]
            /\ pc' = [pc EXCEPT ![r] = "attached"]
            /\ cmd' = [cmd EXCEPT ![r] = "blocked"]
       ELSE row' = row /\ pc' = [pc EXCEPT ![r] = "settling"] /\ cmd' = cmd
    /\ UNCHANGED <<startup, lease, born, owner>>

(* Nothing looks at the row again before the gate opens.                   *)
Launch(p, r) ==
    /\ Drives(p, r, "attached") /\ cmd[r] = "blocked"
    /\ cmd' = [cmd EXCEPT ![r] = "executing"]
    /\ pc' = [pc EXCEPT ![r] = "launched"]
    /\ UNCHANGED <<startup, database, owner>>

(* The blocked project was killed.                                         *)
LaunchFails(p, r) ==
    /\ Drives(p, r, "attached") /\ cmd[r] = "stopped"
    /\ pc' = [pc EXCEPT ![r] = "settling"]
    /\ UNCHANGED <<startup, database, owner, cmd>>

(* A refusal terminates the command and settles nothing.                   *)
Mark(p, r) ==
    /\ Drives(p, r, "launched")
    /\ IF CanMarkRunning(row[r])
       THEN /\ row' = [row EXCEPT ![r] = MarkRunning(row[r])]
            /\ pc' = [pc EXCEPT ![r] = "running"] /\ cmd' = cmd
       ELSE /\ row' = row /\ pc' = [pc EXCEPT ![r] = "ended"]
            /\ cmd' = [cmd EXCEPT ![r] = "stopped"]
    /\ UNCHANGED <<startup, lease, born, owner>>

(* The end of a run: the command is stopped and the row finalized; a       *)
(* refused finalization withholds the result.                              *)
Settle(p, r) ==
    /\ Drives(p, r, "running") \/ Drives(p, r, "settling") \/ Drives(p, r, "admitted")
    /\ cmd' = [cmd EXCEPT ![r] = IF Alive(r) THEN "stopped" ELSE @]
    /\ LET ran == pc[r] = "running"
           ok  == CanFinalize(row[r], IF ran THEN "yes" ELSE "no", cmd[r] # "none")
       IN /\ \/ ok /\ row' = [row EXCEPT ![r] =
                                 Finalize(@, IF ran THEN "completed" ELSE "failed_to_start")]
             \/ (~ok \/ "write_fails" \in Faults) /\ row' = row
          /\ lease' = [lease EXCEPT ![r] = IF row' = row THEN @ ELSE "free"]
    /\ pc' = [pc EXCEPT ![r] = "ended"]
    /\ UNCHANGED <<startup, born, owner>>

----------------------------------------------------------------------------
(* The project and the clock *)

Exits(r) ==
    /\ cmd[r] = "executing" \/ (Alive(r) /\ owner[r] = "nobody")
    /\ cmd' = [cmd EXCEPT ![r] = "stopped"]
    /\ UNCHANGED <<startup, database, owner, pc>>

Expires(r) ==
    /\ "expiry" \in Faults /\ lease[r] = "held"
    /\ lease' = [lease EXCEPT ![r] = "expired"]
    /\ UNCHANGED <<startup, row, born, work>>

----------------------------------------------------------------------------
Startup(p) ==
    \/ Claim(p) \/ Note(p) \/ Handle(p) \/ Result(p) \/ Close(p) \/ WriteRefused(p)
    \/ Recovered(p) \/ Retain(p) \/ Install(p)

Execution(p, r) ==
    \/ Admit(p, r) \/ Attach(p, r) \/ Launch(p, r) \/ LaunchFails(p, r) \/ Mark(p, r)
    \/ Settle(p, r)

Next ==
    \/ \E p \in Processes :
          \/ Boot(p) \/ Crash(p) \/ Leave(p) \/ WriteFails(p) \/ Startup(p)
          \/ \E r \in Runs : Execution(p, r)
    \/ \E r \in Runs : Exits(r) \/ Expires(r)

Spec == Init /\ [][Next]_vars

(* A start-up runs on; nothing makes the user open or close TrueCoder.     *)
FairSpec == Spec /\ \A p \in Processes : WF_vars(Startup(p))
----------------------------------------------------------------------------
(* Properties *)

TypeOK ==
    /\ stage \in [Processes -> Stages]
    /\ \A p \in Processes : \A i \in DOMAIN todo[p] : todo[p][i] \in Snapshots
    /\ step \in [Processes -> Steps]
    /\ verdict \in [Processes -> RecoveryOutcomes \cup {"none"}]
    /\ tainted \in [Processes -> BOOLEAN]
    /\ \A r \in Runs : row[r] \in Rows
    /\ lease \in [Runs -> Leases]
    /\ owner \in [Runs -> Processes \cup {"nobody"}]
    /\ pc \in [Runs -> Pcs] /\ cmd \in [Runs -> Commands]

(* Unfinished rows that are neither those of p nor in the hands of a       *)
(* recovery.                                                               *)
Left(p) == {r \in Runs : Nonterminal(row[r]) /\ owner[r] # p /\ lease[r] = "free"}

(* A process that serves has closed every row it found, or the row was     *)
(* held by another recovery: nothing of an earlier life is simply left,    *)
(* except behind as many older rows as one recovery takes (claim_nonterminal,*)
(* oldest first).                                                          *)
NothingLeftBehind ==
    \A p \in Processes : stage[p] = "serving" =>
        \A i \in DOMAIN born : born[i] \in Left(p) =>
            Cardinality({j \in 1..(i - 1) : born[j] \notin Left(p)}) >= Limit

(* A verdict that the resource is gone is true, whoever else writes rows,  *)
(* starts commands or recovers the same run.                               *)
RecoveredTruly ==
    \A r \in Runs :
        row[r].outcome \in {"recovered_terminated", "recovered_resource_absent"} => ~Alive(r)

(* "Pending runs with no resource close as never started"                  *)
(* (docs/ARCHITECTURE.md): of such a run nothing executes.                 *)
NoResourceNeverRan ==
    \A r \in Runs : row[r].outcome = "recovered_no_resource" => cmd[r] # "executing"

(* "audit retention never deletes nonterminal evidence"                    *)
(* (docs/ARCHITECTURE.md).                                                 *)
EvidenceIsKept ==
    [][\A r \in Runs : Nonterminal(row[r]) => row'[r].phase # "absent"]_vars

(* A verdict is final: no recovery, late writer or rewrite changes it.     *)
VerdictsStay ==
    [][\A r \in Runs : row[r].phase = "terminal" => row'[r] = row[r]]_vars

(* Every start-up ends, whatever the store refuses.                        *)
StartupEnds ==
    \A p \in Processes : stage[p] = "opened" ~> stage[p] \in {"serving", "refusing", "off"}
=============================================================================
