---------------------- MODULE StartupRecovery_proofs ----------------------
(***************************************************************************)
(* What startup recovery says and keeps, for any number of processes, runs *)
(* and rows claimed.  Whatever fails and whoever runs beside it, a verdict *)
(* that a resource is gone is true.  Where either no process rewrites the  *)
(* database or only one runs at a time, a verdict is final.  Of processes  *)
(* that run one at a time, a run said never to have had a resource never   *)
(* ran, no unfinished row is lost, and none is left but behind as many     *)
(* others as one recovery claims.                                          *)
(***************************************************************************)
EXTENDS StartupRecovery, FiniteSetTheorems, TLAPS

(* The types of TypeOK, with those of the sequences and of the copies.     *)
Copies == [rows : [Runs -> Rows], leases : [Runs -> Leases]]

Typed ==
    /\ stage \in [Processes -> Stages]
    /\ todo \in [Processes -> Seq(Snapshots)]
    /\ step \in [Processes -> Steps]
    /\ verdict \in [Processes -> RecoveryOutcomes \cup {"none"}]
    /\ tainted \in [Processes -> BOOLEAN]
    /\ copy \in [Processes -> Copies]
    /\ row \in [Runs -> Rows]
    /\ lease \in [Runs -> Leases]
    /\ born \in Seq(Runs)
    /\ owner \in [Runs -> Processes \cup {"nobody"}]
    /\ pc \in [Runs -> Pcs] /\ cmd \in [Runs -> Commands]

(* A project exists only of a run whose resource was offered.              *)
Unoffered == \A r \in Runs : pc[r] \in {"none", "admitted"} => cmd[r] = "none"

(* The outcomes that say the resource is gone.                             *)
GoneOutcomes == {"recovered_terminated", "recovered_resource_absent"}

(* What rows say of the projects is true, of a copy as of the database: a  *)
(* resource was there, a resource is gone.                                 *)
Backed(rows) ==
    \A r \in Runs : /\ rows[r].resource => cmd[r] # "none"
                    /\ rows[r].outcome \in GoneOutcomes => cmd[r] = "stopped"

Evidence == Backed(row) /\ \A p \in Processes : Backed(copy[p].rows)

Claimed ==
    \A p \in Processes : \A i \in 1..Len(todo[p]) :
        todo[p][i].named => cmd[todo[p][i].run] # "none"

(* A handler is asked for a named resource.                                *)
Asked ==
    \A p \in Processes : step[p] = "handle" =>
        stage[p] = "recovering" /\ todo[p] # <<>> /\ Head(todo[p]).named

Handled ==
    \A p \in Processes : verdict[p] \in GoneOutcomes =>
        /\ stage[p] = "recovering" /\ step[p] \in {"result", "finalize"}
        /\ todo[p] # <<>> /\ cmd[Head(todo[p]).run] = "stopped"

TruthInv == Typed /\ Unoffered /\ Evidence /\ Claimed /\ Asked /\ Handled

(* A run that was not admitted has no row anywhere.                        *)
Unborn ==
    \A r \in Runs : pc[r] = "none" =>
        /\ row[r].phase = "absent"
        /\ \A p \in Processes : copy[p].rows[r].phase = "absent"

(* One process at a time: nobody writes while it starts, so that what it   *)
(* has read stays true.                                                    *)
OneUp == \A p, q \in Processes : stage[p] # "off" /\ stage[q] # "off" => p = q

Copied ==
    \A p \in Processes : stage[p] = "installing" =>
        /\ copy[p].rows = row
        /\ \A r \in Runs : copy[p].leases[r] = "free" => lease[r] = "free"

Tracked == \A r \in Runs : cmd[r] # "none" => row[r].resource

(* The project of a launched run was there.                                *)
Launched == \A r \in Runs : pc[r] = "launched" => cmd[r] # "none"

Current ==
    \A p \in Processes : stage[p] = "recovering" =>
        \A i \in 1..Len(todo[p]) : todo[p][i].named = row[todo[p][i].run].resource

Unstarted ==
    /\ \A p \in Processes : verdict[p] = "recovered_no_resource" =>
          stage[p] = "recovering" /\ todo[p] # <<>> /\ ~Head(todo[p]).named
    /\ \A r \in Runs : row[r].outcome = "recovered_no_resource" =>
          row[r].phase = "terminal" /\ cmd[r] = "none"

Behind(p) ==
    \A i \in DOMAIN born : born[i] \in Left(p) =>
        Cardinality({j \in 1..(i - 1) : born[j] \notin Left(p)}) >= Limit

Looked == {"recovering", "retaining", "installing", "serving"}

Overtaken == \A p \in Processes : stage[p] \in Looked => Behind(p)

AloneInv ==
    OneUp /\ Copied /\ Tracked /\ Launched /\ Current /\ Unstarted /\ Overtaken

-----------------------------------------------------------------------------
(* What the writes leave of a row.                                         *)
LEMMA RowWrites ==
    ASSUME NEW w \in Rows
    PROVE  /\ CreatePending(w) \in Rows /\ CreatePending(w).phase = "pending"
           /\ CreatePending(w).outcome = w.outcome
           /\ CreatePending(w).resource = w.resource
           /\ AppendEvent(w, "recovery_started") \in Rows
           /\ AppendEvent(w, "recovery_started").phase = w.phase
           /\ AppendEvent(w, "recovery_started").outcome = w.outcome
           /\ AppendEvent(w, "recovery_started").resource = w.resource
           /\ AttachResource(w) \in Rows /\ AttachResource(w).phase = w.phase
           /\ AttachResource(w).outcome = w.outcome /\ AttachResource(w).resource
           /\ MarkRunning(w) \in Rows /\ MarkRunning(w).phase = "running"
           /\ MarkRunning(w).outcome = w.outcome
           /\ MarkRunning(w).resource = w.resource
<1>1. w.trail \cup {"recovery_started"} \in SUBSET EventTypes
    BY DEF Rows, EventTypes
<1>2. w.trail \cup {"resource_reserved"} \in SUBSET EventTypes
    BY DEF Rows, EventTypes
<1>3. w.trail \cup {"backend_started"} \in SUBSET EventTypes
    BY DEF Rows, EventTypes
<1>4. {"run_created"} \in SUBSET EventTypes
    BY DEF EventTypes
<1>5. AppendEvent(w, "recovery_started") \in Rows
    BY <1>1 DEF AppendEvent, Rows, Phases
<1>6. AttachResource(w) \in Rows
    BY <1>2 DEF AttachResource, Rows, Phases
<1>7. MarkRunning(w) \in Rows
    BY <1>3 DEF MarkRunning, Rows, Phases
<1>8. CreatePending(w) \in Rows
    BY <1>4 DEF CreatePending, Rows, Phases
<1> QED
    BY <1>5, <1>6, <1>7, <1>8
    DEF Rows, AppendEvent, AttachResource, MarkRunning, CreatePending

LEMMA FinalWrite ==
    ASSUME NEW w \in Rows, NEW o \in Outcomes \cup {"none"}
    PROVE  /\ Finalize(w, o) \in Rows /\ Finalize(w, o).phase = "terminal"
           /\ Finalize(w, o).outcome = o /\ Finalize(w, o).resource = w.resource
<1>1. w.trail \cup {"run_finalized"} \in SUBSET EventTypes
    BY DEF Rows, EventTypes
<1>2. Finalize(w, o) \in Rows
    BY <1>1 DEF Finalize, Rows, Phases
<1> QED BY <1>2 DEF Rows, Finalize

LEMMA NoRowIsRow == NoRow \in Rows
BY DEF NoRow, Rows, Phases, EventTypes

(* The first snapshot and the rest.                                        *)
LEMMA FirstSnapshot ==
    ASSUME Typed, NEW p \in Processes, todo[p] # <<>>
    PROVE  /\ Len(todo[p]) \in Nat \ {0} /\ Head(todo[p]) = todo[p][1]
           /\ Head(todo[p]) \in Snapshots /\ Head(todo[p]).run \in Runs
           /\ Tail(todo[p]) \in Seq(Snapshots)
           /\ \A i \in 1..Len(Tail(todo[p])) :
                 i + 1 \in 1..Len(todo[p]) /\ Tail(todo[p])[i] = todo[p][i + 1]
<1>1. todo[p] \in Seq(Snapshots)
    BY DEF Typed
<1>2. /\ Len(todo[p]) \in Nat \ {0} /\ Head(todo[p]) = todo[p][1]
      /\ Head(todo[p]) \in Snapshots /\ Tail(todo[p]) \in Seq(Snapshots)
    BY <1>1
<1>3. \A i \in 1..Len(Tail(todo[p])) :
          i + 1 \in 1..Len(todo[p]) /\ Tail(todo[p])[i] = todo[p][i + 1]
    BY <1>1, <1>2
<1> QED BY <1>2, <1>3 DEF Snapshots

LEMMA NoCopyIsCopy == NoCopy \in Copies
BY NoRowIsRow DEF NoCopy, Copies, Leases

LEMMA ResetTypes ==
    ASSUME Typed, NEW p \in Processes, NEW to \in Stages, Reset(p, to)
    PROVE  /\ stage' \in [Processes -> Stages] /\ todo' \in [Processes -> Seq(Snapshots)]
           /\ step' \in [Processes -> Steps]
           /\ verdict' \in [Processes -> RecoveryOutcomes \cup {"none"}]
           /\ tainted' \in [Processes -> BOOLEAN] /\ copy' \in [Processes -> Copies]
BY NoCopyIsCopy DEF Typed, Reset, Steps

LEMMA DisownedTypes ==
    ASSUME Typed, NEW p \in Processes, Disowned(p)
    PROVE  /\ owner' \in [Runs -> Processes \cup {"nobody"}]
           /\ pc' \in [Runs -> Pcs] /\ cmd' \in [Runs -> Commands]
BY DEF Typed, Disowned, Pcs

LEMMA StartupTypes ==
    ASSUME Typed, NEW p \in Processes, Startup(p)
    PROVE  Typed'
<1>1. CASE Claim(p)
    <2>0. PICK n \in 0..Limit : \E places \in [1..n -> DOMAIN born] :
             /\ \A i \in 1..n : Claimable(born[places[i]])
             /\ todo' = [todo EXCEPT ![p] = [i \in 1..n |-> SnapshotOf(born[places[i]])]]
             /\ lease' = [r \in Runs |-> IF \E i \in 1..n : born[places[i]] = r
                                        THEN "held" ELSE lease[r]]
        BY <1>1 DEF Claim
    <2>1. PICK places \in [1..n -> DOMAIN born] :
             /\ \A i \in 1..n : Claimable(born[places[i]])
             /\ todo' = [todo EXCEPT ![p] = [i \in 1..n |-> SnapshotOf(born[places[i]])]]
             /\ lease' = [r \in Runs |-> IF \E i \in 1..n : born[places[i]] = r
                                        THEN "held" ELSE lease[r]]
        BY <2>0
    <2>2. \A i \in 1..n : born[places[i]] \in Runs
        BY DEF Typed
    <2>3. \A r \in Runs : Claimable(r) => SnapshotOf(r) \in Snapshots
        BY DEF Typed, Claimable, Nonterminal, SnapshotOf, Snapshots, Rows
    <2>4. \A i \in 1..n : SnapshotOf(born[places[i]]) \in Snapshots
        BY <2>1, <2>2, <2>3
    <2>5. n \in Nat
        OBVIOUS
    <2>6. [i \in 1..n |-> SnapshotOf(born[places[i]])] \in Seq(Snapshots)
        BY <2>4, <2>5
    <2>7. todo' \in [Processes -> Seq(Snapshots)]
        BY <2>1, <2>6 DEF Typed
    <2>8. lease' \in [Runs -> Leases]
        BY <2>1 DEF Typed, Leases
    <2> QED BY <1>1, <2>7, <2>8 DEF Claim, work, Typed, Stages
<1>2. CASE Note(p)
    <2>1. Head(todo[p]).run \in Runs /\ row[Head(todo[p]).run] \in Rows
        BY <1>2, FirstSnapshot DEF Note, Recovering, Typed
    <2>2. row' \in [Runs -> Rows]
        BY <1>2, <2>1, RowWrites DEF Note, Typed
    <2>3. step' \in [Processes -> Steps] /\ verdict' \in [Processes -> RecoveryOutcomes \cup {"none"}]
        BY <1>2 DEF Note, Typed, Steps, RecoveryOutcomes
    <2> QED BY <1>2, <2>2, <2>3 DEF Note, work, Typed
<1>3. CASE Handle(p)
    <2>1. cmd' \in [Runs -> Commands]
        BY <1>3 DEF Handle, StopResource, Typed, Commands
    <2>2. step' \in [Processes -> Steps] /\ verdict' \in [Processes -> RecoveryOutcomes \cup {"none"}]
        BY <1>3 DEF Handle, Typed, Steps, RecoveryOutcomes
    <2> QED BY <1>3, <2>1, <2>2 DEF Handle, database, Typed
<1>4. CASE Result(p)
    BY <1>4 DEF Result, database, work, Typed, Steps
<1>5. CASE Close(p)
    <2>1. /\ Head(todo[p]).run \in Runs /\ row[Head(todo[p]).run] \in Rows
          /\ Tail(todo[p]) \in Seq(Snapshots)
        BY <1>5, FirstSnapshot DEF Close, Recovering, Typed
    <2>2. verdict[p] \in Outcomes \cup {"none"}
        BY DEF Typed, Outcomes
    <2>3. row' \in [Runs -> Rows]
        BY <1>5, <2>1, <2>2, FinalWrite DEF Close, Typed
    <2>4. todo' \in [Processes -> Seq(Snapshots)]
        BY <1>5, <2>1 DEF Close, Typed
    <2>5. lease' \in [Runs -> Leases]
        BY <1>5 DEF Close, Typed, Leases
    <2>6. tainted' \in [Processes -> BOOLEAN]
        BY <1>5 DEF Close, Typed
    <2>7. step' \in [Processes -> Steps] /\ verdict' \in [Processes -> RecoveryOutcomes \cup {"none"}]
        BY <1>5 DEF Close, Typed, Steps, RecoveryOutcomes
    <2> QED BY <1>5, <2>3, <2>4, <2>5, <2>6, <2>7 DEF Close, work, Typed
<1>6. CASE WriteRefused(p)
    BY <1>6, ResetTypes DEF WriteRefused, Refuse, database, work, Typed, Stages
<1>7. CASE Recovered(p)
    BY <1>7 DEF Recovered, database, work, Typed, Stages
<1>8. CASE Retain(p)
    <2>1. [rows |-> [r \in Runs |-> Kept(r)], leases |-> lease] \in Copies
        BY DEF Kept, Copies, Typed
    <2>2. copy' \in [Processes -> Copies]
        BY <1>8, <2>1 DEF Retain, Typed
    <2> QED BY <1>8, <2>2 DEF Retain, database, work, Typed, Stages
<1>9. CASE Install(p)
    <2>1. copy[p] \in Copies
        BY DEF Typed
    <2> QED BY <1>9, <2>1, NoCopyIsCopy DEF Install, work, Typed, Stages, Copies
<1> QED BY <1>1, <1>2, <1>3, <1>4, <1>5, <1>6, <1>7, <1>8, <1>9 DEF Startup

LEMMA ExecutionTypes ==
    ASSUME Typed, NEW p \in Processes, NEW r \in Runs, Execution(p, r)
    PROVE  Typed'
<1>1. /\ row[r] \in Rows /\ AttachResource(row[r]) \in Rows /\ MarkRunning(row[r]) \in Rows
      /\ \A o \in Outcomes : Finalize(row[r], o) \in Rows
    BY RowWrites, FinalWrite DEF Typed
<1>2. CASE Admit(p, r)
    <2>1. row' \in [Runs -> Rows]
        BY <1>1, <1>2, RowWrites DEF Admit, Typed
    <2>2. born' \in Seq(Runs)
        BY <1>2 DEF Admit, Typed
    <2> QED BY <1>2, <2>1, <2>2 DEF Admit, startup, Typed, Pcs
<1>3. CASE Attach(p, r)
    <2>1. row' \in [Runs -> Rows]
        BY <1>1, <1>3 DEF Attach, Typed
    <2>2. pc' \in [Runs -> Pcs] /\ cmd' \in [Runs -> Commands]
        BY <1>3 DEF Attach, Typed, Pcs, Commands
    <2>3. UNCHANGED <<startup, lease, born, owner>>
        BY <1>3 DEF Attach
    <2> QED BY <2>1, <2>2, <2>3 DEF startup, Typed
<1>4. CASE Launch(p, r)
    BY <1>4 DEF Launch, startup, database, Typed, Pcs, Commands
<1>5. CASE LaunchFails(p, r)
    BY <1>5 DEF LaunchFails, startup, database, Typed, Pcs
<1>6. CASE Mark(p, r)
    <2>1. row' \in [Runs -> Rows]
        BY <1>1, <1>6 DEF Mark, Typed
    <2>2. pc' \in [Runs -> Pcs] /\ cmd' \in [Runs -> Commands]
        BY <1>6 DEF Mark, Typed, Pcs, Commands
    <2>3. UNCHANGED <<startup, lease, born, owner>>
        BY <1>6 DEF Mark
    <2> QED BY <2>1, <2>2, <2>3 DEF startup, Typed
<1>7. CASE Settle(p, r)
    <2>1. row' = row \/ \E o \in {"completed", "failed_to_start"} :
                           row' = [row EXCEPT ![r] = Finalize(row[r], o)]
        BY <1>7 DEF Settle, Typed
    <2>2. {"completed", "failed_to_start"} \subseteq Outcomes
        BY DEF Outcomes, CommandOutcomes, PreExecutionOutcomes
    <2>3. row' \in [Runs -> Rows]
        <3>1. CASE row' = row
            BY <3>1 DEF Typed
        <3>2. ASSUME NEW o \in {"completed", "failed_to_start"},
                     row' = [row EXCEPT ![r] = Finalize(row[r], o)]
              PROVE  row' \in [Runs -> Rows]
            <4>1. Finalize(row[r], o) \in Rows
                BY <1>1, <2>2
            <4> QED BY <3>2, <4>1 DEF Typed
        <3> QED BY <2>1, <3>1, <3>2
    <2>4. lease' \in [Runs -> Leases]
        BY <1>7 DEF Settle, Typed, Leases
    <2>5. pc' \in [Runs -> Pcs]
        BY <1>7 DEF Settle, Typed, Pcs
    <2>6. cmd' \in [Runs -> Commands]
        BY <1>7 DEF Settle, Typed, Commands
    <2>7. UNCHANGED <<startup, born, owner>>
        BY <1>7 DEF Settle
    <2> QED BY <2>3, <2>4, <2>5, <2>6, <2>7 DEF startup, Typed
<1> QED BY <1>2, <1>3, <1>4, <1>5, <1>6, <1>7 DEF Execution

LEMMA TypedStep == Typed /\ Next => Typed'
<1> SUFFICES ASSUME Typed, Next PROVE Typed'
    OBVIOUS
<1>1. ASSUME NEW p \in Processes, Boot(p) PROVE Typed'
    BY <1>1, ResetTypes DEF Boot, database, work, Typed, Stages
<1>2. ASSUME NEW p \in Processes, Crash(p) \/ Leave(p) PROVE Typed'
    <2>1. Reset(p, "off") /\ Disowned(p) /\ UNCHANGED database
        BY <1>2 DEF Crash, Leave
    <2> QED BY <2>1, ResetTypes, DisownedTypes DEF database, Typed, Stages
<1>3. ASSUME NEW p \in Processes, WriteFails(p) PROVE Typed'
    BY <1>3, ResetTypes DEF WriteFails, Refuse, database, work, Typed, Stages
<1>4. ASSUME NEW r \in Runs, Exits(r) PROVE Typed'
    BY <1>4 DEF Exits, startup, database, Typed, Commands
<1>5. ASSUME NEW r \in Runs, Expires(r) PROVE Typed'
    BY <1>5 DEF Expires, startup, work, Typed, Leases
<1> QED BY <1>1, <1>2, <1>3, <1>4, <1>5, StartupTypes, ExecutionTypes DEF Next

-----------------------------------------------------------------------------
(* How a project and a row may move in one step.                           *)

(* A project that was there was there; one that has stopped stays stopped. *)
LEMMA CommandMoves ==
    ASSUME Typed, Unoffered, Next
    PROVE  \A r \in Runs : /\ cmd[r] # "none" => cmd'[r] # "none"
                           /\ cmd[r] = "stopped" => cmd'[r] = "stopped"
<1>1. ASSUME NEW p \in Processes, Handle(p)
      PROVE  cmd' = cmd \/ \E r \in Runs : cmd' = [cmd EXCEPT ![r] = "stopped"]
    <2>1. Head(todo[p]).run \in Runs
        BY <1>1, FirstSnapshot DEF Handle, Recovering
    <2> QED BY <1>1, <2>1 DEF Handle, StopResource
<1>2. ASSUME NEW p \in Processes, NEW r \in Runs, Attach(p, r)
      PROVE  cmd' = cmd \/ (cmd[r] = "none" /\ cmd' = [cmd EXCEPT ![r] = "blocked"])
    BY <1>2 DEF Attach, Drives, Unoffered
<1>3. ASSUME NEW p \in Processes, NEW r \in Runs, Launch(p, r)
      PROVE  cmd[r] = "blocked" /\ cmd' = [cmd EXCEPT ![r] = "executing"]
    BY <1>3 DEF Launch
<1>4. ASSUME NEW p \in Processes, NEW r \in Runs, Mark(p, r)
      PROVE  cmd' = cmd \/ cmd' = [cmd EXCEPT ![r] = "stopped"]
    BY <1>4 DEF Mark
<1>5. ASSUME NEW p \in Processes, NEW r \in Runs, Settle(p, r)
      PROVE  cmd' = [cmd EXCEPT ![r] = IF Alive(r) THEN "stopped" ELSE @]
    BY <1>5 DEF Settle
<1>6. ASSUME NEW r \in Runs, Exits(r) PROVE cmd' = [cmd EXCEPT ![r] = "stopped"]
    BY <1>6 DEF Exits
<1>7. \/ cmd' = cmd
      \/ \E p \in Processes : Handle(p)
      \/ \E p \in Processes, r \in Runs :
            Attach(p, r) \/ Launch(p, r) \/ Mark(p, r) \/ Settle(p, r)
      \/ \E r \in Runs : Exits(r)
    BY DEF Next, Boot, Crash, Leave, Disowned, WriteFails, Refuse, Startup, Claim, Note,
           Result, Close, WriteRefused, Recovered, Retain, Install, Execution, Admit,
           LaunchFails, Expires, work
<1> QED BY <1>1, <1>2, <1>3, <1>4, <1>5, <1>6, <1>7 DEF Typed

Written(r) ==
    \/ row'[r] = row[r]
    \/ pc[r] = "none" /\ pc'[r] # "none" /\ row'[r] = CreatePending(row[r])
    \/ /\ Nonterminal(row[r]) /\ Nonterminal(row'[r])
       /\ row'[r].outcome = row[r].outcome /\ row'[r].resource = row[r].resource
    \/ /\ Nonterminal(row[r]) /\ pc[r] = "admitted" /\ cmd'[r] = "blocked"
       /\ row'[r] = AttachResource(row[r])
       /\ \E p \in Processes : stage[p] = "serving"
    \/ \E p \in Processes :
          /\ Recovering(p, "finalize") /\ r = Head(todo[p]).run
          /\ CanClose(Head(todo[p])) /\ row'[r] = Finalize(row[r], verdict[p])
    \/ \E o \in {"completed", "failed_to_start"} :
          Nonterminal(row[r]) /\ row'[r] = Finalize(row[r], o)
    \/ \E p \in Processes : stage[p] = "installing" /\ row' = copy[p].rows

LEMMA RowMoves ==
    ASSUME Typed, Next
    PROVE  \A r \in Runs : Written(r)
<1> SUFFICES ASSUME NEW r \in Runs PROVE Written(r)
    OBVIOUS
<1>1. row \in [Runs -> Rows] /\ row[r] \in Rows /\ pc \in [Runs -> Pcs] /\ cmd \in [Runs -> Commands]
    BY DEF Typed
<1>2. ASSUME NEW p \in Processes, Note(p) PROVE Written(r)
    <2>1. Head(todo[p]).run \in Runs
        BY <1>2, FirstSnapshot DEF Note, Recovering
    <2> DEFINE q == Head(todo[p]).run
    <2>2. CanAppend(row[q]) /\ row' = [row EXCEPT ![q] = AppendEvent(row[q], "recovery_started")]
        BY <1>2 DEF Note
    <2>3. CASE r = q
        <3>1. row'[r] = AppendEvent(row[r], "recovery_started")
            BY <2>2, <2>3, <1>1
        <3> QED BY <2>2, <2>3, <3>1, <1>1, RowWrites DEF Written, CanAppend, Nonterminal
    <2>4. CASE r # q
        BY <1>1, <2>2, <2>4 DEF Written
    <2> QED BY <2>3, <2>4
<1>3. ASSUME NEW p \in Processes, Close(p) PROVE Written(r)
    <2>1. Head(todo[p]).run \in Runs
        BY <1>3, FirstSnapshot DEF Close, Recovering
    <2> QED BY <1>1, <1>3, <2>1 DEF Close, Written
<1>4. ASSUME NEW p \in Processes, Install(p) PROVE Written(r)
    BY <1>4 DEF Install, Written
<1>5. ASSUME NEW p \in Processes, NEW q \in Runs, Admit(p, q) PROVE Written(r)
    BY <1>1, <1>5 DEF Admit, Written
<1>6. ASSUME NEW p \in Processes, NEW q \in Runs, Attach(p, q) PROVE Written(r)
    BY <1>1, <1>6 DEF Attach, Drives, CanAttach, Written
<1>7. ASSUME NEW p \in Processes, NEW q \in Runs, Mark(p, q) PROVE Written(r)
    <2>1. \/ row' = row
          \/ CanMarkRunning(row[q]) /\ row' = [row EXCEPT ![q] = MarkRunning(row[q])]
        BY <1>7 DEF Mark
    <2>2. CASE r = q /\ row' # row
        BY <1>1, <2>1, <2>2, RowWrites DEF Written, CanMarkRunning, Nonterminal
    <2>3. CASE r # q \/ row' = row
        BY <1>1, <2>1, <2>3 DEF Written
    <2> QED BY <2>2, <2>3
<1>8. ASSUME NEW p \in Processes, NEW q \in Runs, Settle(p, q) PROVE Written(r)
    BY <1>1, <1>8 DEF Settle, CanFinalize, Written
<1>9. \/ row' = row
      \/ \E p \in Processes : Note(p) \/ Close(p) \/ Install(p)
      \/ \E p \in Processes, q \in Runs :
            Admit(p, q) \/ Attach(p, q) \/ Mark(p, q) \/ Settle(p, q)
    BY DEF Next, Boot, Crash, Leave, WriteFails, Refuse, Startup, Claim, Handle, Result,
           WriteRefused, Recovered, Retain, Execution, Launch, LaunchFails, Exits, Expires,
           database
<1> QED BY <1>2, <1>3, <1>4, <1>5, <1>6, <1>7, <1>8, <1>9 DEF Written

(* The locals of the start-up of q are what they were, or new.             *)
Same(q) ==
    /\ stage'[q] = stage[q] /\ todo'[q] = todo[q] /\ step'[q] = step[q]
    /\ verdict'[q] = verdict[q] /\ copy'[q] = copy[q]

Fresh(q) ==
    /\ stage'[q] \in {"off", "opened", "refusing"} /\ todo'[q] = <<>> /\ step'[q] = "note"
    /\ verdict'[q] = "none" /\ copy'[q] = NoCopy

LEMMA StartupMoves ==
    ASSUME Typed, Next, NEW q \in Processes
    PROVE  Same(q) \/ Fresh(q) \/ Startup(q)
<1>1. ASSUME NEW p \in Processes, NEW to \in {"off", "opened", "refusing"}, Reset(p, to)
      PROVE  Same(q) \/ Fresh(q)
    BY <1>1 DEF Reset, Same, Fresh, Typed
<1>2. ASSUME NEW p \in Processes, Boot(p) \/ Crash(p) \/ Leave(p) \/ WriteFails(p)
      PROVE  Same(q) \/ Fresh(q)
    BY <1>1, <1>2 DEF Boot, Crash, Leave, WriteFails, Refuse
<1>3. ASSUME NEW p \in Processes, Startup(p), p # q PROVE Same(q) \/ Fresh(q)
    <2>1. CASE WriteRefused(p)
        BY <1>1, <2>1 DEF WriteRefused, Refuse
    <2>2. CASE Claim(p)
        <3>1. todo'[q] = todo[q]
            BY <1>3, <2>2 DEF Claim, Typed
        <3> QED BY <1>3, <2>2, <3>1 DEF Claim, Same, Typed
    <2>3. CASE Note(p) \/ Handle(p) \/ Result(p)
        BY <1>3, <2>3 DEF Note, Handle, Result, Same, Typed
    <2>4. CASE Close(p) \/ Recovered(p) \/ Retain(p) \/ Install(p)
        BY <1>3, <2>4 DEF Close, Recovered, Retain, Install, Same, Typed
    <2> QED BY <1>3, <2>1, <2>2, <2>3, <2>4 DEF Startup
<1>4. UNCHANGED startup => Same(q)
    BY DEF startup, Same
<1>5. ASSUME NEW p \in Processes, NEW r \in Runs, Execution(p, r) PROVE Same(q)
    BY <1>4, <1>5 DEF Execution, Admit, Attach, Launch, LaunchFails, Mark, Settle
<1>6. ASSUME NEW r \in Runs, Exits(r) \/ Expires(r) PROVE Same(q)
    BY <1>4, <1>6 DEF Exits, Expires
<1> QED BY <1>2, <1>3, <1>5, <1>6 DEF Next

(* A copy is what it was, none, or the database as it is.                  *)
LEMMA CopyMoves ==
    ASSUME Typed, Next, NEW q \in Processes
    PROVE  copy'[q] = copy[q] \/ copy'[q] = NoCopy
              \/ (stage[q] = "retaining" /\ copy'[q].rows = row /\ copy'[q].leases = lease)
<1>1. CASE Startup(q)
    <2>1. CASE Retain(q)
        <3>1. row = [r \in Runs |-> Kept(r)]
            BY DEF Typed, Kept
        <3> QED BY <2>1, <3>1 DEF Retain, Typed
    <2> QED BY <1>1, <2>1 DEF Startup, Claim, Note, Handle, Result, Close, WriteRefused, Refuse,
                   Reset, Recovered, Install, Typed
<1> QED BY <1>1, StartupMoves DEF Same, Fresh

-----------------------------------------------------------------------------
(* A verdict that the resource is gone is true, whatever happens           *)

LEMMA UnofferedStep == Typed /\ Unoffered /\ Next => Unoffered'
<1> SUFFICES ASSUME Typed, Unoffered, Next, NEW r \in Runs,
                    pc'[r] \in {"none", "admitted"}
             PROVE  cmd'[r] = "none"
    BY DEF Unoffered
<1> USE DEF Typed, Unoffered
<1>1. ASSUME NEW p \in Processes, Disowned(p) PROVE cmd'[r] = "none"
    BY <1>1 DEF Disowned
<1>2. ASSUME NEW p \in Processes, Handle(p) PROVE cmd'[r] = "none"
    <2>1. Head(todo[p]).run \in Runs
        BY <1>2, FirstSnapshot DEF Handle, Recovering
    <2>2. cmd[r] = "none" /\ ~Alive(r)
        BY <1>2 DEF Handle, Alive
    <2> QED BY <1>2, <2>1, <2>2 DEF Handle, StopResource
<1>3. ASSUME NEW p \in Processes, NEW q \in Runs, Execution(p, q) PROVE cmd'[r] = "none"
    BY <1>3 DEF Execution, Admit, Attach, Launch, LaunchFails, Mark, Settle, Drives, Alive
<1>4. ASSUME NEW q \in Runs, Exits(q) PROVE cmd'[r] = "none"
    BY <1>4 DEF Exits, Alive
<1>5. \/ UNCHANGED work
      \/ \E p \in Processes : Disowned(p) \/ Handle(p) \/ \E q \in Runs : Execution(p, q)
      \/ \E q \in Runs : Exits(q)
    BY DEF Next, Boot, Crash, Leave, WriteFails, Refuse, Startup, Claim, Note, Result, Close,
           WriteRefused, Recovered, Retain, Install, Expires
<1> QED BY <1>1, <1>2, <1>3, <1>4, <1>5 DEF work

LEMMA EvidenceStep == TruthInv /\ Next => Evidence'
<1> SUFFICES ASSUME Typed, Unoffered, Evidence, Handled, Next PROVE Evidence'
    BY DEF TruthInv
<1>0. \A r \in Runs : /\ cmd[r] # "none" => cmd'[r] # "none"
                      /\ cmd[r] = "stopped" => cmd'[r] = "stopped"
    BY CommandMoves
<1>1. ASSUME NEW r \in Runs
      PROVE  /\ row'[r].resource => cmd'[r] # "none"
             /\ row'[r].outcome \in GoneOutcomes => cmd'[r] = "stopped"
    <2>1. /\ row[r] \in Rows /\ \A p \in Processes : copy[p].rows[r] \in Rows
          /\ cmd[r] # "none" => cmd'[r] # "none"
          /\ cmd[r] = "stopped" => cmd'[r] = "stopped"
          /\ row[r].resource => cmd[r] # "none"
          /\ row[r].outcome \in GoneOutcomes => cmd[r] = "stopped"
        <3>1. \A p \in Processes : copy[p] \in Copies
            BY DEF Typed
        <3>2. row[r] \in Rows /\ \A p \in Processes : copy[p].rows[r] \in Rows
            BY <3>1 DEF Typed, Copies
        <3>3. row[r].resource => cmd[r] # "none"
            BY DEF Evidence, Backed
        <3>4. row[r].outcome \in GoneOutcomes => cmd[r] = "stopped"
            BY DEF Evidence, Backed
        <3> QED BY <1>0, <3>2, <3>3, <3>4
    <2>2. CASE \E p \in Processes :
                  /\ Recovering(p, "finalize") /\ r = Head(todo[p]).run
                  /\ CanClose(Head(todo[p])) /\ row'[r] = Finalize(row[r], verdict[p])
        <3>1. PICK p \in Processes :
                  Recovering(p, "finalize") /\ r = Head(todo[p]).run
                      /\ row'[r] = Finalize(row[r], verdict[p])
            BY <2>2
        <3>2. verdict[p] \in Outcomes \cup {"none"}
            BY DEF Typed, Outcomes
        <3>3. row'[r].outcome = verdict[p] /\ row'[r].resource = row[r].resource
            BY <2>1, <3>1, <3>2, FinalWrite
        <3> QED BY <2>1, <3>1, <3>3 DEF Handled
    <2>3. CASE \E o \in {"completed", "failed_to_start"} :
                  Nonterminal(row[r]) /\ row'[r] = Finalize(row[r], o)
        <3>1. PICK o \in {"completed", "failed_to_start"} : row'[r] = Finalize(row[r], o)
            BY <2>3
        <3>2. o \in Outcomes /\ o \notin GoneOutcomes
            BY DEF Outcomes, CommandOutcomes, PreExecutionOutcomes, GoneOutcomes
        <3>3. row'[r].outcome = o /\ row'[r].resource = row[r].resource
            BY <2>1, <3>1, <3>2, FinalWrite
        <3> QED BY <2>1, <3>2, <3>3
    <2>4. CASE pc[r] = "admitted" /\ cmd'[r] = "blocked" /\ row'[r] = AttachResource(row[r])
        <3>1. cmd[r] = "none"
            BY <2>4 DEF Unoffered
        <3> QED BY <2>1, <2>4, <3>1, RowWrites
    <2>5. CASE \E p \in Processes : stage[p] = "installing" /\ row' = copy[p].rows
        BY <2>1, <2>5 DEF Evidence, Backed
    <2>6. CASE pc[r] = "none" /\ row'[r] = CreatePending(row[r])
        BY <2>1, <2>6, RowWrites
    <2> QED BY <2>1, <2>2, <2>3, <2>4, <2>5, <2>6, RowMoves DEF Written
<1>2. ASSUME NEW p \in Processes, NEW r \in Runs
      PROVE  /\ copy'[p].rows[r].resource => cmd'[r] # "none"
             /\ copy'[p].rows[r].outcome \in GoneOutcomes => cmd'[r] = "stopped"
    <2>1. \A rows \in {copy[p].rows, row} :
              rows[r].outcome \in GoneOutcomes => cmd'[r] = "stopped"
        BY <1>0 DEF Evidence, Backed
    <2>4. \A rows \in {copy[p].rows, row} : rows[r].resource => cmd'[r] # "none"
        BY <1>0 DEF Evidence, Backed
    <2>2. ~NoCopy.rows[r].resource /\ NoCopy.rows[r].outcome \notin GoneOutcomes
        BY DEF NoCopy, NoRow, GoneOutcomes
    <2>3. copy'[p].rows \in {copy[p].rows, NoCopy.rows, row}
        BY CopyMoves
    <2> QED BY <2>1, <2>2, <2>3, <2>4
<1> QED BY <1>1, <1>2 DEF Evidence, Backed

LEMMA ClaimedStep == TruthInv /\ Next => Claimed'
<1> SUFFICES ASSUME Typed, Unoffered, Evidence, Claimed, Next, NEW p \in Processes
             PROVE  \A i \in 1..Len(todo'[p]) :
                        todo'[p][i].named => cmd'[todo'[p][i].run] # "none"
    BY DEF TruthInv, Claimed
<1>1. \A r \in Runs : cmd[r] # "none" => cmd'[r] # "none"
    BY CommandMoves
<1>2. todo[p] \in Seq(Snapshots)
    BY DEF Typed
<1>3. \A i \in 1..Len(todo[p]) :
          todo[p][i].named => todo[p][i].run \in Runs /\ cmd[todo[p][i].run] # "none"
    <2>1. \A i \in 1..Len(todo[p]) : todo[p][i] \in Snapshots
        BY <1>2
    <2> QED BY <2>1 DEF Claimed, Snapshots
<1>4. CASE todo'[p] = todo[p]
    BY <1>1, <1>3, <1>4
<1>5. CASE todo'[p] = <<>>
    BY <1>5
<1>6. CASE Close(p)
    <2>1. todo[p] # <<>> /\ todo'[p] = Tail(todo[p])
        BY <1>6 DEF Close, Recovering, Typed
    <2>2. \A i \in 1..Len(Tail(todo[p])) :
             i + 1 \in 1..Len(todo[p]) /\ Tail(todo[p])[i] = todo[p][i + 1]
        BY <2>1, FirstSnapshot
    <2> QED BY <1>1, <1>3, <2>1, <2>2
<1>7. CASE Claim(p)
    <2>1. PICK n \in 0..Limit : \E places \in [1..n -> DOMAIN born] :
             todo' = [todo EXCEPT ![p] = [i \in 1..n |-> SnapshotOf(born[places[i]])]]
        BY <1>7 DEF Claim
    <2>2. PICK places \in [1..n -> DOMAIN born] :
             todo' = [todo EXCEPT ![p] = [i \in 1..n |-> SnapshotOf(born[places[i]])]]
        BY <2>1
    <2>3. n \in Nat /\ todo'[p] = [i \in 1..n |-> SnapshotOf(born[places[i]])]
        BY <2>2 DEF Typed
    <2>4. Len(todo'[p]) = n
        BY <2>3
    <2>5. \A i \in 1..n : born[places[i]] \in Runs
        BY <2>2 DEF Typed
    <2>6. \A r \in Runs : row[r].resource => cmd[r] # "none"
        BY DEF Evidence, Backed
    <2> QED BY <1>1, <2>3, <2>4, <2>5, <2>6 DEF SnapshotOf
<1>8. Startup(p) => todo'[p] = todo[p] \/ todo'[p] = <<>> \/ Close(p) \/ Claim(p)
    <2>1. WriteRefused(p) => todo'[p] = <<>>
        BY DEF WriteRefused, Refuse, Reset, Typed
    <2>2. Note(p) \/ Handle(p) \/ Result(p) \/ Recovered(p) \/ Retain(p) \/ Install(p)
              => todo'[p] = todo[p]
        BY DEF Note, Handle, Result, Recovered, Retain, Install
    <2> QED BY <2>1, <2>2 DEF Startup
<1> QED BY <1>4, <1>5, <1>6, <1>7, <1>8, StartupMoves DEF Same, Fresh

LEMMA AskedStep == TruthInv /\ Next => Asked'
<1> SUFFICES ASSUME Typed, Asked, Next, NEW p \in Processes, step'[p] = "handle"
             PROVE  stage'[p] = "recovering" /\ todo'[p] # <<>> /\ Head(todo'[p]).named
    BY DEF TruthInv, Asked
<1>1. CASE Same(p)
    BY <1>1 DEF Same, Asked
<1>2. CASE Note(p)
    BY <1>2 DEF Note, Recovering, Typed
<1>3. CASE Claim(p) \/ Recovered(p) \/ Retain(p) \/ Install(p)
    <2>1. step'[p] = step[p] /\ (stage[p] = "recovering" => todo[p] = <<>>)
        BY <1>3 DEF Claim, Recovered, Retain, Install
    <2> QED BY <2>1 DEF Asked
<1>4. CASE Handle(p) \/ Result(p) \/ Close(p)
    BY <1>4 DEF Handle, Result, Close, Typed
<1>5. CASE WriteRefused(p)
    BY <1>5 DEF WriteRefused, Refuse, Reset, Typed
<1> QED BY <1>1, <1>2, <1>3, <1>4, <1>5, StartupMoves DEF Fresh, Startup

LEMMA HandledStep == TruthInv /\ Next => Handled'
<1> SUFFICES ASSUME Typed, Unoffered, Claimed, Asked, Handled, Next, NEW p \in Processes,
                    verdict'[p] \in GoneOutcomes
             PROVE  /\ stage'[p] = "recovering" /\ step'[p] \in {"result", "finalize"}
                    /\ todo'[p] # <<>> /\ cmd'[Head(todo'[p]).run] = "stopped"
    BY DEF TruthInv, Handled
<1>1. \A r \in Runs : cmd[r] = "stopped" => cmd'[r] = "stopped"
    BY CommandMoves
<1>2. todo[p] # <<>> => Head(todo[p]).run \in Runs
    BY FirstSnapshot
<1>3. CASE Same(p)
    BY <1>1, <1>2, <1>3 DEF Same, Handled
<1>4. CASE Handle(p)
    <2> DEFINE r == Head(todo[p]).run
    <2>1. /\ stage'[p] = "recovering" /\ todo'[p] = todo[p] /\ todo[p] # <<>>
          /\ step'[p] = "result" /\ r \in Runs
        BY <1>2, <1>4 DEF Handle, Recovering, Typed
    <2>2. CASE Alive(r) /\ StopResource(r)
        BY <2>1, <2>2 DEF StopResource, Typed
    <2>3. CASE ~Alive(r) /\ cmd' = cmd
        <3>1. step[p] = "handle"
            BY <1>4 DEF Handle, Recovering
        <3>2. Head(todo[p]).named /\ Head(todo[p]) = todo[p][1] /\ 1 \in 1..Len(todo[p])
            BY <2>1, <3>1, FirstSnapshot DEF Asked
        <3>3. cmd[r] # "none"
            BY <3>2 DEF Claimed
        <3> QED BY <2>1, <2>3, <3>3 DEF Alive, Typed, Commands
    <2>4. CASE verdict' = [verdict EXCEPT ![p] = "recovery_failed"]
        BY <2>4 DEF Typed, GoneOutcomes
    <2> QED BY <1>4, <2>2, <2>3, <2>4 DEF Handle
<1>5. CASE Note(p) \/ Close(p)
    <2>1. verdict'[p] = "none" \/ verdict'[p] = "recovered_no_resource"
             \/ (verdict'[p] = verdict[p] /\ step[p] = "note")
        BY <1>5 DEF Note, Close, Recovering, Typed
    <2> QED BY <2>1 DEF GoneOutcomes, Handled
<1>6. CASE Result(p)
    <2>1. UNCHANGED <<stage, todo, verdict, cmd>> /\ step'[p] = "finalize"
        BY <1>6 DEF Result, work, Typed
    <2> QED BY <2>1 DEF Handled
<1>7. CASE WriteRefused(p)
    BY <1>7 DEF WriteRefused, Refuse, Reset, Typed, GoneOutcomes
<1>8. CASE Claim(p) \/ Recovered(p) \/ Retain(p) \/ Install(p)
    <2>1. verdict'[p] = verdict[p] /\ (stage[p] = "recovering" => todo[p] = <<>>)
        BY <1>8 DEF Claim, Recovered, Retain, Install
    <2> QED BY <2>1 DEF Handled
<1> QED BY <1>3, <1>4, <1>5, <1>6, <1>7, <1>8, StartupMoves DEF Fresh, Startup, GoneOutcomes

LEMMA TruthInit == Init => TruthInv
<1> SUFFICES ASSUME Init PROVE TruthInv
    OBVIOUS
<1> USE DEF Init
<1>1. Typed
    <2>1. copy \in [Processes -> Copies]
        BY NoCopyIsCopy
    <2>2. row \in [Runs -> Rows]
        BY NoRowIsRow
    <2> QED BY <2>1, <2>2 DEF Typed, Stages, Steps, Leases, Pcs, Commands
<1>2. Unoffered
    BY DEF Unoffered
<1>3. Evidence
    BY DEF Evidence, Backed, NoCopy, NoRow, GoneOutcomes
<1>4. Claimed /\ Asked /\ Handled
    BY DEF Claimed, Asked, Handled, GoneOutcomes
<1> QED BY <1>1, <1>2, <1>3, <1>4 DEF TruthInv

LEMMA TruthStep == TruthInv /\ [Next]_vars => TruthInv'
<1>1. TruthInv /\ UNCHANGED vars => TruthInv'
    <2> SUFFICES ASSUME TruthInv, UNCHANGED vars PROVE TruthInv'
        OBVIOUS
    <2> USE DEF TruthInv, vars, startup, database, work
    <2>1. Typed' /\ Unoffered'
        BY DEF Typed, Unoffered
    <2>2. Evidence'
        BY DEF Evidence, Backed
    <2>3. Claimed' /\ Asked' /\ Handled'
        BY DEF Claimed, Asked, Handled
    <2> QED BY <2>1, <2>2, <2>3
<1>2. TruthInv /\ Next => TruthInv'
    BY TypedStep, UnofferedStep, EvidenceStep, ClaimedStep, AskedStep, HandledStep
    DEF TruthInv
<1> QED BY <1>1, <1>2

LEMMA TruthAlways == Spec => []TruthInv
BY TruthInit, TruthStep, PTL DEF Spec

(* RecoveryOutcomes that say the resource is gone: a process that has      *)
(* recovered a run, whoever else recovers it, serves beside it or rewrites *)
(* the database, has not left its project running.                         *)
THEOREM RecoveredTrulyAlways == Spec => []RecoveredTruly
<1>1. TruthInv => RecoveredTruly
    BY DEF TruthInv, Evidence, Backed, RecoveredTruly, GoneOutcomes, Alive
<1> QED BY <1>1, TruthAlways, PTL

(* Every variable keeps its type.                                          *)
THEOREM RecoveryTypes == Spec => []TypeOK
<1>1. TruthInv => TypeOK
    BY DEF TruthInv, Typed, TypeOK
<1> QED BY <1>1, TruthAlways, PTL

-----------------------------------------------------------------------------
(* A verdict is final                                                      *)

LEMMA UnbornStep == Typed /\ Unborn /\ Next => Unborn'
<1> SUFFICES ASSUME Typed, Unborn, Next, NEW r \in Runs, pc'[r] = "none"
             PROVE  /\ row'[r].phase = "absent"
                    /\ \A p \in Processes : copy'[p].rows[r].phase = "absent"
    BY DEF Unborn
<1>1. pc[r] = "none"
    <2>1. ASSUME NEW p \in Processes, Disowned(p) PROVE pc[r] = "none"
        BY <2>1 DEF Disowned, Typed
    <2>2. ASSUME NEW p \in Processes, NEW q \in Runs, Execution(p, q) PROVE pc[r] = "none"
        BY <2>2 DEF Execution, Admit, Attach, Launch, LaunchFails, Mark, Settle, Typed
    <2>3. \/ pc' = pc
          \/ \E p \in Processes : Disowned(p) \/ \E q \in Runs : Execution(p, q)
        BY DEF Next, Boot, Crash, Leave, WriteFails, Refuse, Startup, Claim, Note, Handle,
               Result, Close, WriteRefused, Recovered, Retain, Install, Exits, Expires, work
    <2> QED BY <2>1, <2>2, <2>3
<1>2. row[r].phase = "absent" /\ \A p \in Processes : copy[p].rows[r].phase = "absent"
    BY <1>1 DEF Unborn
<1>3. row'[r].phase = "absent"
    <2>1. ~Nonterminal(row[r])
        BY <1>2 DEF Nonterminal
    <2>2. ASSUME NEW p \in Processes, r = Head(todo[p]).run PROVE ~CanClose(Head(todo[p]))
        BY <2>1, <2>2 DEF CanClose, CanFinalize
    <2> QED BY <1>1, <1>2, <2>1, <2>2, RowMoves DEF Written
<1>4. NoCopy.rows[r].phase = "absent"
    BY DEF NoCopy, NoRow
<1>5. ASSUME NEW p \in Processes PROVE copy'[p].rows[r].phase = "absent"
    BY <1>2, <1>4, CopyMoves
<1> QED BY <1>3, <1>5

(* What changes the row of a terminal run is a rewrite.                    *)
LEMMA TerminalMoves ==
    ASSUME Typed, Unborn, Next, NEW r \in Runs, row[r].phase = "terminal"
    PROVE  \/ row'[r] = row[r]
           \/ \E p \in Processes : stage[p] = "installing" /\ row' = copy[p].rows
<1>1. ~Nonterminal(row[r]) /\ pc[r] # "none"
    BY DEF Nonterminal, Unborn
<1>2. ASSUME NEW p \in Processes, r = Head(todo[p]).run PROVE ~CanClose(Head(todo[p]))
    BY <1>1, <1>2 DEF CanClose, CanFinalize
<1> QED BY <1>1, <1>2, RowMoves DEF Written

(* What makes an unfinished row absent is a rewrite.                       *)
LEMMA UnfinishedMoves ==
    ASSUME Typed, Unborn, Next, NEW r \in Runs, Nonterminal(row[r])
    PROVE  \/ row'[r].phase # "absent"
           \/ \E p \in Processes : stage[p] = "installing" /\ row' = copy[p].rows
<1>1. row[r] \in Rows /\ pc[r] # "none" /\ row[r].phase # "absent"
    BY DEF Nonterminal, Unborn, Typed
<1>2. ASSUME NEW p \in Processes PROVE Finalize(row[r], verdict[p]).phase # "absent"
    <2>1. verdict[p] \in Outcomes \cup {"none"}
        BY DEF Typed, Outcomes
    <2> QED BY <1>1, <2>1, FinalWrite
<1>3. ASSUME NEW o \in {"completed", "failed_to_start"}
      PROVE  Finalize(row[r], o).phase # "absent"
    BY <1>1, FinalWrite DEF Outcomes, CommandOutcomes, PreExecutionOutcomes
<1>4. AttachResource(row[r]).phase # "absent"
    BY <1>1, RowWrites
<1>5. Nonterminal(row'[r]) => row'[r].phase # "absent"
    BY DEF Nonterminal
<1> QED BY <1>1, <1>2, <1>3, <1>4, <1>5, RowMoves DEF Written

(* Without rewrites nothing is installed.                                  *)
Unwritten == \A p \in Processes : stage[p] # "installing"

LEMMA UnwrittenStep ==
    ASSUME "rewrite" \notin Faults, Typed, Unwritten, Next
    PROVE  Unwritten'
<1> SUFFICES ASSUME NEW p \in Processes PROVE stage'[p] # "installing"
    BY DEF Unwritten
<1>1. CASE Startup(p)
    BY <1>1 DEF Startup, Claim, Note, Handle, Result, Close, WriteRefused, Refuse, Reset,
                Recovered, Retain, Install, Typed, Unwritten
<1> QED BY <1>1, StartupMoves DEF Same, Fresh, Unwritten

-----------------------------------------------------------------------------
(* One process at a time                                                   *)

LEMMA OneUpStep ==
    ASSUME "together" \notin Faults, Typed, OneUp, Next
    PROVE  OneUp'
<1>1. ASSUME NEW p \in Processes, Boot(p) PROVE OneUp'
    <2>1. \A q \in Processes : stage[q] = "off" /\ (q # p => stage'[q] = "off")
        BY <1>1 DEF Boot, Reset, Typed
    <2> QED BY <2>1 DEF OneUp
<1>2. ASSUME \A q \in Processes : stage'[q] # "off" => stage[q] # "off" PROVE OneUp'
    BY <1>2 DEF OneUp
<1>3. ASSUME NEW p \in Processes, Crash(p) \/ Leave(p) \/ WriteFails(p) \/ Startup(p)
      PROVE  \A q \in Processes : stage'[q] # "off" => stage[q] # "off"
    BY <1>3 DEF Crash, Leave, WriteFails, Startup, Claim, Note, Handle, Result, Close,
                WriteRefused, Refuse, Reset, Recovering, Recovered, Retain, Install, Typed
<1>4. ASSUME UNCHANGED stage PROVE OneUp'
    BY <1>4 DEF OneUp
<1>5. \/ UNCHANGED stage
      \/ \E p \in Processes : Boot(p) \/ Crash(p) \/ Leave(p) \/ WriteFails(p) \/ Startup(p)
    BY DEF Next, Execution, Admit, Attach, Launch, LaunchFails, Mark, Settle, Exits, Expires,
           startup
<1> QED BY <1>1, <1>2, <1>3, <1>4, <1>5

(* The database is written by a process that is up, and leases expire.     *)
LEMMA Writers ==
    ASSUME Typed, Next
    PROVE  \/ row' = row /\ born' = born
              /\ \A r \in Runs : lease'[r] = "free" => lease[r] = "free"
           \/ \E p \in Processes : stage[p] # "off" /\ Startup(p)
           \/ \E p \in Processes, r \in Runs : stage[p] = "serving" /\ Execution(p, r)
<1>1. ASSUME NEW p \in Processes, Startup(p) PROVE stage[p] # "off"
    BY <1>1 DEF Startup, Claim, Note, Handle, Result, Close, WriteRefused, Recovering,
                Recovered, Retain, Install
<1>2. ASSUME NEW p \in Processes, NEW r \in Runs, Execution(p, r) PROVE stage[p] = "serving"
    BY <1>2 DEF Execution, Admit, Attach, Launch, LaunchFails, Mark, Settle, Drives
<1>3. ASSUME NEW r \in Runs, Expires(r)
      PROVE  \A q \in Runs : lease'[q] = "free" => lease[q] = "free"
    BY <1>3 DEF Expires, Typed
<1> QED BY <1>1, <1>2, <1>3 DEF Next, Boot, Crash, Leave, WriteFails, Refuse, Exits, Expires,
                                database

LEMMA CopiedStep ==
    ASSUME Typed, OneUp, Copied, Next
    PROVE  Copied'
<1> SUFFICES ASSUME NEW p \in Processes, stage'[p] = "installing"
             PROVE  /\ copy'[p].rows = row'
                    /\ \A r \in Runs : copy'[p].leases[r] = "free" => lease'[r] = "free"
    BY DEF Copied
<1>1. CASE Startup(p)
    <2>1. Retain(p)
        BY <1>1 DEF Startup, Claim, Note, Handle, Result, Close, WriteRefused, Refuse, Reset,
                    Recovering, Recovered, Install, Typed
    <2>2. row = [r \in Runs |-> Kept(r)]
        BY DEF Typed, Kept
    <2>3. copy'[p] = [rows |-> row, leases |-> lease]
        BY <2>1, <2>2 DEF Retain, Typed
    <2> QED BY <2>1, <2>3 DEF Retain, database
<1>2. CASE Same(p) /\ ~Startup(p)
    <2>1. stage[p] = "installing" /\ copy'[p] = copy[p]
        BY <1>2 DEF Same
    <2>2. \A q \in Processes : stage[q] # "off" => q = p
        BY <2>1 DEF OneUp
    <2>3. row' = row /\ \A r \in Runs : lease[r] = "free" => lease'[r] = "free"
        <3>1. ASSUME NEW q \in Processes, NEW r \in Runs, Execution(q, r) PROVE FALSE
            <4>1. stage[q] = "serving"
                BY <3>1 DEF Execution, Admit, Attach, Launch, LaunchFails, Mark, Settle, Drives
            <4> QED BY <2>1, <2>2, <4>1
        <3>2. ASSUME NEW q \in Processes, Startup(q) PROVE FALSE
            <4>1. stage[q] # "off"
                BY <3>2 DEF Startup, Claim, Note, Handle, Result, Close, WriteRefused,
                            Recovering, Recovered, Retain, Install
            <4> QED BY <1>2, <2>2, <3>2, <4>1
        <3>3. ASSUME NEW r \in Runs, Expires(r)
              PROVE  row' = row /\ \A q \in Runs : lease[q] = "free" => lease'[q] = "free"
            BY <3>3 DEF Expires, Typed
        <3> QED BY <3>1, <3>2, <3>3
                DEF Next, Boot, Crash, Leave, WriteFails, Refuse, Exits, database
    <2> QED BY <2>1, <2>3 DEF Copied
<1> QED BY <1>1, <1>2, StartupMoves DEF Fresh

LEMMA LaunchedStep ==
    ASSUME Typed, Unoffered, Launched, Next
    PROVE  Launched'
<1> SUFFICES ASSUME NEW r \in Runs, pc'[r] = "launched" PROVE cmd'[r] # "none"
    BY DEF Launched
<1>1. CASE pc[r] = "launched"
    BY <1>1, CommandMoves DEF Launched
<1>2. CASE \E p \in Processes, q \in Runs : Execution(p, q) /\ pc'[r] # pc[r]
    BY <1>2 DEF Execution, Admit, Attach, Launch, LaunchFails, Mark, Settle, Typed
<1>3. ASSUME NEW p \in Processes, Disowned(p) PROVE pc[r] = "launched"
    BY <1>3 DEF Disowned, Typed
<1>4. \/ pc' = pc
      \/ \E p \in Processes : Disowned(p) \/ \E q \in Runs : Execution(p, q)
    BY DEF Next, Boot, Crash, Leave, WriteFails, Refuse, Startup, Claim, Note, Handle,
           Result, Close, WriteRefused, Recovered, Retain, Install, Exits, Expires, work
<1> QED BY <1>1, <1>2, <1>3, <1>4

(* A project comes with its resource in the row.                           *)
LEMMA CommandBorn ==
    ASSUME Typed, Launched, Next, NEW r \in Runs, cmd[r] = "none", cmd'[r] # "none"
    PROVE  Nonterminal(row[r]) /\ row'[r] = AttachResource(row[r])
<1> USE DEF Typed
<1>1. ASSUME NEW p \in Processes, Handle(p) PROVE FALSE
    <2>1. Head(todo[p]).run \in Runs
        BY <1>1, FirstSnapshot DEF Handle, Recovering
    <2> QED BY <1>1, <2>1 DEF Handle, StopResource, Alive
<1>2. ASSUME NEW p \in Processes, NEW q \in Runs, Attach(p, q)
      PROVE  Nonterminal(row[r]) /\ row'[r] = AttachResource(row[r])
    BY <1>2 DEF Attach, CanAttach
<1>3. ASSUME NEW p \in Processes, NEW q \in Runs, Launch(p, q) \/ Mark(p, q) \/ Settle(p, q)
      PROVE  FALSE
    BY <1>3 DEF Launch, Mark, Settle, Drives, Launched, Alive
<1>4. ASSUME NEW q \in Runs, Exits(q) PROVE FALSE
    BY <1>4 DEF Exits, Alive
<1>5. \/ cmd' = cmd
      \/ \E p \in Processes : Handle(p)
      \/ \E p \in Processes, q \in Runs :
            Attach(p, q) \/ Launch(p, q) \/ Mark(p, q) \/ Settle(p, q)
      \/ \E q \in Runs : Exits(q)
    BY DEF Next, Boot, Crash, Leave, Disowned, WriteFails, Refuse, Startup, Claim, Note,
           Result, Close, WriteRefused, Recovered, Retain, Install, Execution, Admit,
           LaunchFails, Expires, work
<1> QED BY <1>1, <1>2, <1>3, <1>4, <1>5

LEMMA ResourceMoves ==
    ASSUME Typed, OneUp, Copied, Next, NEW r \in Runs
    PROVE  /\ row[r].resource => row'[r].resource
           /\ (\E p \in Processes : stage[p] = "recovering")
                 => row'[r].resource = row[r].resource
<1>1. row[r] \in Rows
    BY DEF Typed
<1>2. CASE \E p \in Processes : row'[r] = Finalize(row[r], verdict[p])
    <2>1. PICK p \in Processes : row'[r] = Finalize(row[r], verdict[p])
        BY <1>2
    <2>2. verdict[p] \in Outcomes \cup {"none"}
        BY DEF Typed, Outcomes
    <2> QED BY <1>1, <2>1, <2>2, FinalWrite
<1>3. CASE \E o \in {"completed", "failed_to_start"} : row'[r] = Finalize(row[r], o)
    BY <1>1, <1>3, FinalWrite DEF Outcomes, CommandOutcomes, PreExecutionOutcomes
<1>4. CASE row'[r] = AttachResource(row[r]) /\ \E p \in Processes : stage[p] = "serving"
    BY <1>1, <1>4, RowWrites DEF OneUp
<1>5. CASE row'[r] = CreatePending(row[r])
    BY <1>1, <1>5, RowWrites
<1>6. CASE \E p \in Processes : stage[p] = "installing" /\ row' = copy[p].rows
    BY <1>6 DEF Copied
<1> QED BY <1>2, <1>3, <1>4, <1>5, <1>6, RowMoves DEF Written

LEMMA TrackedStep ==
    ASSUME Typed, OneUp, Copied, Launched, Tracked, Next
    PROVE  Tracked'
<1> SUFFICES ASSUME NEW r \in Runs, cmd'[r] # "none" PROVE row'[r].resource
    BY DEF Tracked
<1>1. CASE cmd[r] = "none"
    <2>1. row[r] \in Rows
        BY DEF Typed
    <2> QED BY <1>1, <2>1, CommandBorn, RowWrites
<1>2. CASE cmd[r] # "none"
    BY <1>2, ResourceMoves DEF Tracked
<1> QED BY <1>1, <1>2

LEMMA CurrentStep ==
    ASSUME Typed, OneUp, Copied, Current, Next
    PROVE  Current'
<1> SUFFICES ASSUME NEW p \in Processes, stage'[p] = "recovering"
             PROVE  \A i \in 1..Len(todo'[p]) :
                        todo'[p][i].named = row'[todo'[p][i].run].resource
    BY DEF Current
<1>1. CASE Claim(p)
    <2>1. PICK n \in 0..Limit : \E places \in [1..n -> DOMAIN born] :
             todo' = [todo EXCEPT ![p] = [i \in 1..n |-> SnapshotOf(born[places[i]])]]
        BY <1>1 DEF Claim
    <2>2. PICK places \in [1..n -> DOMAIN born] :
             todo' = [todo EXCEPT ![p] = [i \in 1..n |-> SnapshotOf(born[places[i]])]]
        BY <2>1
    <2>3. n \in Nat /\ todo'[p] = [i \in 1..n |-> SnapshotOf(born[places[i]])]
        BY <2>2 DEF Typed
    <2>4. Len(todo'[p]) = n /\ row' = row
        BY <1>1, <2>3 DEF Claim
    <2> QED BY <2>3, <2>4 DEF SnapshotOf
<1>2. CASE stage[p] = "recovering"
    <2>1. \A i \in 1..Len(todo[p]) : todo[p][i] \in Snapshots
        BY DEF Typed
    <2>2. \A i \in 1..Len(todo[p]) : todo[p][i].run \in Runs
        BY <2>1 DEF Snapshots
    <2>3. \A i \in 1..Len(todo[p]) : todo[p][i].named = row'[todo[p][i].run].resource
        BY <1>2, <2>2, ResourceMoves DEF Current
    <2>4. CASE Close(p)
        <3>1. todo[p] # <<>> /\ todo'[p] = Tail(todo[p])
            BY <2>4 DEF Close, Recovering, Typed
        <3>2. \A i \in 1..Len(Tail(todo[p])) :
                 i + 1 \in 1..Len(todo[p]) /\ Tail(todo[p])[i] = todo[p][i + 1]
            BY <3>1, FirstSnapshot
        <3> QED BY <2>3, <3>1, <3>2
    <2>5. CASE WriteRefused(p)
        BY <2>5 DEF WriteRefused, Refuse, Reset, Typed
    <2>6. CASE Note(p) \/ Handle(p) \/ Result(p) \/ Recovered(p) \/ Retain(p) \/ Install(p)
        BY <2>3, <2>6 DEF Note, Handle, Result, Recovered, Retain, Install
    <2>7. CASE Same(p) \/ Fresh(p)
        BY <2>3, <2>7 DEF Same, Fresh
    <2> QED BY <1>1, <2>4, <2>5, <2>6, <2>7, StartupMoves DEF Startup
<1>3. stage[p] = "recovering" \/ Claim(p)
    BY StartupMoves DEF Same, Fresh, Startup, Note, Handle, Result, Close, WriteRefused, Refuse,
                        Reset, Recovering, Recovered, Retain, Install, Typed
<1> QED BY <1>1, <1>2, <1>3

LEMMA UnstartedStep ==
    ASSUME Typed, Unborn, OneUp, Copied, Tracked, Launched, Current, Unstarted, Next
    PROVE  Unstarted'
<1>1. ASSUME NEW p \in Processes, verdict'[p] = "recovered_no_resource"
      PROVE  stage'[p] = "recovering" /\ todo'[p] # <<>> /\ ~Head(todo'[p]).named
    <2>1. CASE Same(p) \/ Fresh(p)
        BY <1>1, <2>1 DEF Same, Fresh, Unstarted
    <2>2. CASE Note(p)
        <3>1. UNCHANGED <<stage, todo>> /\ stage[p] = "recovering" /\ todo[p] # <<>>
            BY <2>2 DEF Note, Recovering
        <3>2. CASE Head(todo[p]).named
            <4>1. verdict'[p] = verdict[p]
                BY <2>2, <3>2 DEF Note
            <4> QED BY <1>1, <3>1, <4>1 DEF Unstarted
        <3> QED BY <3>1, <3>2
    <2>3. CASE Handle(p) \/ Close(p) \/ WriteRefused(p)
        BY <1>1, <2>3 DEF Handle, Close, WriteRefused, Refuse, Reset, Typed
    <2>4. CASE Result(p)
        BY <1>1, <2>4 DEF Result, Unstarted
    <2>5. CASE Claim(p) \/ Recovered(p) \/ Retain(p) \/ Install(p)
        <3>1. verdict'[p] = verdict[p] /\ (stage[p] = "recovering" => todo[p] = <<>>)
            BY <2>5 DEF Claim, Recovered, Retain, Install
        <3> QED BY <1>1, <3>1 DEF Unstarted
    <2> QED BY <2>1, <2>2, <2>3, <2>4, <2>5, StartupMoves DEF Startup
<1>2. ASSUME NEW r \in Runs, row'[r].outcome = "recovered_no_resource"
      PROVE  row'[r].phase = "terminal" /\ cmd'[r] = "none"
    <2>1. row[r] \in Rows
        BY DEF Typed
    <2>2. CASE row[r].outcome = "recovered_no_resource"
        <3>1. row[r].phase = "terminal" /\ cmd[r] = "none"
            BY <2>2 DEF Unstarted
        <3>2. row'[r] = row[r]
            BY <3>1, TerminalMoves DEF Copied
        <3>3. cmd'[r] = "none"
            BY <3>1, CommandBorn DEF Nonterminal
        <3> QED BY <3>1, <3>2, <3>3
    <2>3. CASE row[r].outcome # "recovered_no_resource"
        <3>1. ASSUME NEW o \in {"completed", "failed_to_start"}
              PROVE  Finalize(row[r], o).outcome # "recovered_no_resource"
            BY <2>1, FinalWrite DEF Outcomes, CommandOutcomes, PreExecutionOutcomes
        <3>2. PICK p \in Processes :
                  /\ Recovering(p, "finalize") /\ r = Head(todo[p]).run
                  /\ CanClose(Head(todo[p])) /\ row'[r] = Finalize(row[r], verdict[p])
            BY <1>2, <2>1, <2>3, <3>1, RowMoves, RowWrites DEF Written, Copied
        <3>3. verdict[p] \in Outcomes \cup {"none"}
            BY DEF Typed, Outcomes
        <3>4. row'[r].outcome = verdict[p] /\ row'[r].phase = "terminal"
            BY <2>1, <3>2, <3>3, FinalWrite
        <3>5. stage[p] = "recovering" /\ todo[p] # <<>> /\ ~Head(todo[p]).named
            BY <1>2, <3>4 DEF Unstarted
        <3>6. Head(todo[p]) = todo[p][1] /\ 1 \in 1..Len(todo[p])
            BY <3>5, FirstSnapshot
        <3>7. ~row[r].resource
            BY <3>2, <3>5, <3>6 DEF Current
        <3>8. cmd[r] = "none"
            BY <3>7 DEF Tracked
        <3>9. row'[r] # AttachResource(row[r])
            <4>1. row'[r].resource = row[r].resource
                BY <3>5, ResourceMoves
            <4> QED BY <2>1, <3>7, <4>1, RowWrites
        <3> QED BY <3>4, <3>8, <3>9, CommandBorn
    <2> QED BY <2>2, <2>3
<1> QED BY <1>1, <1>2 DEF Unstarted

(* Once a process has claimed what it found, nothing is left besides.      *)
LEMMA LeftMoves ==
    ASSUME Typed, Unborn, OneUp, Copied, Next,
           NEW p \in Processes, stage[p] \in Looked, stage'[p] \in Looked
    PROVE  /\ \A r \in Runs : r \in Left(p)' => r \in Left(p)
           /\ \/ born' = born
              \/ \E q \in Runs : born' = Append(born, q) /\ owner'[q] = p
<1>1. \A q \in Processes : stage[q] # "off" => q = p
    BY DEF OneUp, Looked
<1>2. ASSUME NEW q \in Processes, Crash(q) \/ Leave(q) \/ Claim(q) PROVE FALSE
    <2>1. CASE Claim(q)
        BY <1>1, <2>1 DEF Claim, Looked
    <2>2. CASE Crash(q) \/ Leave(q)
        <3>1. stage[q] # "off" /\ stage'[q] = "off"
            BY <2>2 DEF Crash, Leave, Reset, Typed
        <3> QED BY <1>1, <3>1 DEF Looked
    <2> QED BY <1>2, <2>1, <2>2
<1>3. ASSUME NEW q \in Processes, NEW r \in Runs, Execution(q, r) PROVE q = p
    <2>1. stage[q] = "serving"
        BY <1>3 DEF Execution, Admit, Attach, Launch, LaunchFails, Mark, Settle, Drives
    <2> QED BY <1>1, <2>1
<1>4. \/ UNCHANGED <<born, owner, pc>>
      \/ \E q \in Runs : Admit(p, q)
      \/ UNCHANGED <<born, owner>> /\ \A r \in Runs : pc[r] = "none" => pc'[r] = "none"
    <2>1. ASSUME NEW q \in Runs, Attach(p, q) \/ Launch(p, q) \/ LaunchFails(p, q) \/ Mark(p, q)
                                  \/ Settle(p, q)
          PROVE  UNCHANGED <<born, owner>> /\ \A r \in Runs : pc[r] = "none" => pc'[r] = "none"
        BY <2>1 DEF Attach, Launch, LaunchFails, Mark, Settle, Drives, database, Typed
    <2> QED BY <1>2, <1>3, <2>1
            DEF Next, Boot, WriteFails, Refuse, Startup, Note, Handle, Result, Close,
                WriteRefused, Recovered, Retain, Install, Execution, Exits, Expires,
                database, work
<1>5. ASSUME NEW r \in Runs, owner'[r] # p PROVE owner[r] # p /\ (pc[r] = "none" => pc'[r] = "none")
    BY <1>4, <1>5 DEF Admit, Typed
<1>6. ASSUME NEW r \in Runs, Nonterminal(row'[r]), owner'[r] # p PROVE Nonterminal(row[r])
    <2>1. row[r] \in Rows
        BY DEF Typed
    <2>2. CASE row[r].phase = "terminal"
        BY <1>6, <2>2, TerminalMoves DEF Copied
    <2>3. CASE row[r].phase = "absent"
        <3>1. ~Nonterminal(row[r])
            BY <2>3 DEF Nonterminal
        <3>2. ASSUME NEW q \in Processes, r = Head(todo[q]).run
              PROVE  ~CanClose(Head(todo[q]))
            BY <3>1, <3>2 DEF CanClose, CanFinalize
        <3> QED BY <1>5, <1>6, <3>1, <3>2, RowMoves DEF Written, Copied
    <2> QED BY <2>1, <2>2, <2>3 DEF Rows, Phases, Nonterminal
<1>7. ASSUME NEW r \in Runs, lease'[r] = "free", Nonterminal(row'[r]) PROVE lease[r] = "free"
    <2>1. ASSUME NEW q \in Processes, Close(q) PROVE lease[r] = "free"
        <3>1. /\ Head(todo[q]).run \in Runs /\ row[Head(todo[q]).run] \in Rows
              /\ verdict[q] \in Outcomes \cup {"none"}
            BY <2>1, FirstSnapshot DEF Close, Recovering, Typed, Outcomes
        <3>2. Finalize(row[Head(todo[q]).run], verdict[q]).phase = "terminal"
            BY <3>1, FinalWrite
        <3>3. row'[Head(todo[q]).run].phase = "terminal"
            BY <2>1, <3>1, <3>2 DEF Close, Typed
        <3>4. r # Head(todo[q]).run
            BY <1>7, <3>3 DEF Nonterminal
        <3> QED BY <1>7, <2>1, <3>4 DEF Close, Typed
    <2>2. ASSUME NEW q \in Processes, Install(q) PROVE lease[r] = "free"
        BY <1>7, <2>2 DEF Install, Copied
    <2>3. ASSUME NEW q \in Runs, Settle(p, q) PROVE lease[r] = "free"
        <3>1. lease' = [lease EXCEPT ![q] = IF row' = row THEN @ ELSE "free"]
            BY <2>3 DEF Settle
        <3>2. row' = row \/ \E o \in {"completed", "failed_to_start"} :
                                row' = [row EXCEPT ![q] = Finalize(row[q], o)]
            BY <2>3 DEF Settle, Typed
        <3>3. ASSUME NEW o \in {"completed", "failed_to_start"}
              PROVE  Finalize(row[q], o).phase = "terminal"
            BY FinalWrite DEF Typed, Outcomes, CommandOutcomes, PreExecutionOutcomes
        <3>4. row' = row \/ row'[q].phase = "terminal"
            BY <3>2, <3>3 DEF Typed
        <3> QED BY <1>7, <3>1, <3>4 DEF Nonterminal, Typed
    <2>4. ASSUME NEW q \in Runs, Expires(q) PROVE lease[r] = "free"
        BY <1>7, <2>4 DEF Expires, Typed
    <2>5. \/ lease' = lease
          \/ \E q \in Processes : Close(q) \/ Install(q)
          \/ \E q \in Runs : Settle(p, q) \/ Expires(q)
        BY <1>2, <1>3 DEF Next, Boot, WriteFails, Refuse, Startup, Note, Handle, Result,
               WriteRefused, Recovered, Retain, Execution, Admit, Attach, Launch, LaunchFails,
               Mark, Exits, database
    <2> QED BY <1>7, <2>1, <2>2, <2>3, <2>4, <2>5
<1> QED BY <1>4, <1>5, <1>6, <1>7 DEF Left, Admit, Typed

LEMMA BehindKept ==
    ASSUME Typed, Limit \in Nat, NEW p \in Processes, Behind(p),
           \A r \in Runs : r \in Left(p)' => r \in Left(p),
           born' = born \/ \E q \in Runs : born' = Append(born, q) /\ owner'[q] = p
    PROVE  Behind(p)'
<1> SUFFICES ASSUME NEW i \in DOMAIN born', born'[i] \in Left(p)'
             PROVE  Cardinality({j \in 1..(i - 1) : born'[j] \notin Left(p)'}) >= Limit
    BY DEF Behind
<1>1. born \in Seq(Runs)
    BY DEF Typed
<1>2. ASSUME NEW q \in Runs, owner'[q] = p PROVE q \notin Left(p)'
    BY <1>2 DEF Left
<1>3. i \in 1..Len(born) /\ \A j \in 1..Len(born) : born'[j] = born[j] /\ born[j] \in Runs
    <2>1. CASE born' = born
        BY <1>1, <2>1
    <2>2. CASE \E q \in Runs : born' = Append(born, q) /\ owner'[q] = p
        BY <1>1, <1>2, <2>2
    <2> QED BY <2>1, <2>2
<1> DEFINE S == {j \in 1..(i - 1) : born[j] \notin Left(p)}
           T == {j \in 1..(i - 1) : born'[j] \notin Left(p)'}
<1>4. Cardinality(S) >= Limit
    BY <1>1, <1>3 DEF Behind
<1>5. S \subseteq T /\ T \subseteq 1..(i - 1)
    BY <1>1, <1>3
<1>6. IsFiniteSet(T) /\ Cardinality(S) <= Cardinality(T)
    <2>0. i - 1 \in Int
        BY <1>1, <1>3
    <2>1. IsFiniteSet(1..(i - 1))
        BY <2>0, FS_Interval
    <2> HIDE DEF S, T
    <2>2. IsFiniteSet(T)
        BY <1>5, <2>1, FS_Subset
    <2> QED BY <1>5, <2>2, FS_Subset
<1>7. Cardinality(S) \in Nat /\ Cardinality(T) \in Nat
    BY <1>5, <1>6, FS_Subset, FS_CardinalityType
<1> QED BY <1>4, <1>6, <1>7

(* What a claim leaves is younger than Limit rows that it takes.           *)
LEMMA ClaimTakesOldest ==
    ASSUME Typed, Limit \in Nat, NEW p \in Processes, Claim(p)
    PROVE  Behind(p)'
<1>1. PICK n \in 0..Limit : \E places \in [1..n -> DOMAIN born] :
         /\ \A i, j \in 1..n : i < j => places[i] < places[j]
         /\ Oldest(places)
         /\ lease' = [r \in Runs |-> IF \E i \in 1..n : born[places[i]] = r
                                    THEN "held" ELSE lease[r]]
    BY DEF Claim
<1>2. PICK places \in [1..n -> DOMAIN born] :
         /\ \A i, j \in 1..n : i < j => places[i] < places[j]
         /\ Oldest(places)
         /\ lease' = [r \in Runs |-> IF \E i \in 1..n : born[places[i]] = r
                                    THEN "held" ELSE lease[r]]
    BY <1>1
<1>3. UNCHANGED <<row, born, owner>>
    BY DEF Claim, work
<1> SUFFICES ASSUME NEW i \in DOMAIN born, born[i] \in Left(p)'
             PROVE  Cardinality({j \in 1..(i - 1) : born[j] \notin Left(p)'}) >= Limit
    BY <1>3 DEF Behind
<1>4. born \in Seq(Runs) /\ i \in Nat /\ n \in Nat /\ born[i] \in Runs
    BY DEF Typed
<1> DEFINE Taken == {places[k] : k \in 1..n}
<1>5. i \notin Taken /\ Claimable(born[i])
    BY <1>2, <1>3, <1>4 DEF Left, Claimable, Nonterminal
<1>6. Taken = ToSet(places) /\ Len(places) = n
    BY <1>4 DEF ToSet
<1>7. n = Limit /\ \A j \in Taken : j < i
    BY <1>2, <1>5, <1>6 DEF Oldest
<1>8. Taken \subseteq {j \in 1..(i - 1) : born[j] \notin Left(p)'}
    <2> SUFFICES ASSUME NEW k \in 1..n
                 PROVE  places[k] \in 1..(i - 1) /\ born[places[k]] \notin Left(p)'
        OBVIOUS
    <2>1. places[k] \in 1..Len(born) /\ places[k] < i /\ born[places[k]] \in Runs
        BY <1>4, <1>7
    <2>2. lease'[born[places[k]]] = "held"
        BY <1>2, <2>1
    <2> QED BY <2>1, <2>2, <1>4 DEF Left
<1>9. Cardinality(Taken) = Limit
    <2>1. \A j, k \in 1..n : places[j] = places[k] => j = k
        <3>1. \A j \in 1..n : places[j] \in Int
            BY <1>4
        <3> QED BY <1>2, <1>4, <3>1
    <2>2. places \in Bijection(1..n, Taken)
        BY <2>1 DEF Bijection, Injection, Surjection, IsInjective
    <2>3. ExistsBijection(1..n, Taken)
        BY <2>2 DEF ExistsBijection
    <2> QED BY <1>4, <1>7, <2>3, FS_CountingElements
<1>10. /\ IsFiniteSet({j \in 1..(i - 1) : born[j] \notin Left(p)'})
       /\ Cardinality(Taken) <= Cardinality({j \in 1..(i - 1) : born[j] \notin Left(p)'})
    <2>1. IsFiniteSet(1..(i - 1))
        BY <1>4, FS_Interval
    <2>2. IsFiniteSet({j \in 1..(i - 1) : born[j] \notin Left(p)'})
        BY <2>1, FS_Subset
    <2> QED BY <1>8, <2>2, FS_Subset
<1>11. Cardinality({j \in 1..(i - 1) : born[j] \notin Left(p)'}) \in Nat
    BY <1>10, FS_CardinalityType
<1> QED BY <1>3, <1>9, <1>10, <1>11

LEMMA OvertakenStep ==
    ASSUME Typed, Unborn, OneUp, Copied, Overtaken, Next, Limit \in Nat
    PROVE  Overtaken'
<1> SUFFICES ASSUME NEW p \in Processes, stage'[p] \in Looked PROVE Behind(p)'
    BY DEF Overtaken, Looked
<1>1. stage[p] \in Looked \/ Claim(p)
    BY StartupMoves DEF Same, Fresh, Startup, Note, Handle, Result, Close, WriteRefused, Refuse,
                        Reset, Recovering, Recovered, Retain, Install, Looked, Typed
<1>2. CASE Claim(p)
    BY <1>2, ClaimTakesOldest
<1>3. CASE stage[p] \in Looked
    <2>1. Behind(p)
        BY <1>3 DEF Overtaken
    <2> QED BY <1>3, <2>1, LeftMoves, BehindKept
<1> QED BY <1>1, <1>2, <1>3

-----------------------------------------------------------------------------
LEMMA FinalInit == Init => Unborn /\ AloneInv /\ Unwritten
<1> SUFFICES ASSUME Init PROVE Unborn /\ AloneInv /\ Unwritten
    OBVIOUS
<1> USE DEF Init
<1>1. Unborn /\ Unwritten
    BY DEF Unborn, Unwritten, NoCopy, NoRow
<1>2. OneUp /\ Copied /\ Tracked /\ Launched /\ Current
    BY DEF OneUp, Copied, Tracked, Launched, Current
<1>3. Unstarted /\ Overtaken
    BY DEF Unstarted, Overtaken, Looked, NoRow
<1> QED BY <1>1, <1>2, <1>3 DEF AloneInv

(* What stays so of processes that start one at a time, and of those that  *)
(* rewrite nothing.                                                        *)
LoneInv == TruthInv /\ Unborn /\ AloneInv

SharedInv == TruthInv /\ Unborn /\ Unwritten

LEMMA RecoveryInit == Init => LoneInv /\ SharedInv
BY TruthInit, FinalInit DEF LoneInv, SharedInv

LEMMA UnbornKept == TruthInv /\ Unborn /\ [Next]_vars => Unborn'
<1>1. Unborn /\ UNCHANGED vars => Unborn'
    BY DEF Unborn, vars, startup, database, work
<1> QED BY <1>1, UnbornStep DEF TruthInv

LEMMA SharedStep ==
    ASSUME "rewrite" \notin Faults
    PROVE  SharedInv /\ [Next]_vars => SharedInv'
<1>1. Unwritten /\ UNCHANGED vars => Unwritten'
    BY DEF Unwritten, vars, startup
<1>2. TruthInv /\ Unwritten /\ Next => Unwritten'
    BY UnwrittenStep DEF TruthInv
<1> QED BY <1>1, <1>2, TruthStep, UnbornKept DEF SharedInv

LEMMA LoneStep ==
    ASSUME "together" \notin Faults, Limit \in Nat
    PROVE  LoneInv /\ [Next]_vars => LoneInv'
<1>1. ASSUME AloneInv, UNCHANGED vars PROVE AloneInv'
    <2> USE <1>1 DEF AloneInv, vars, startup, database, work
    <2>1. OneUp' /\ Copied' /\ Tracked' /\ Launched' /\ Current'
        BY DEF OneUp, Copied, Tracked, Launched, Current
    <2>2. Unstarted' /\ Overtaken'
        BY DEF Unstarted, Overtaken, Behind, Left, Looked
    <2> QED BY <2>1, <2>2
<1>2. ASSUME TruthInv, Unborn, AloneInv, Next PROVE AloneInv'
    BY <1>2, OneUpStep, CopiedStep, TrackedStep, LaunchedStep, CurrentStep, UnstartedStep,
       OvertakenStep DEF AloneInv, TruthInv
<1> QED BY <1>1, <1>2, TruthStep, UnbornKept DEF LoneInv

LEMMA SharedAlways == ASSUME "rewrite" \notin Faults PROVE Spec => []SharedInv
BY SharedStep, RecoveryInit, PTL DEF Spec

LEMMA LoneAlways == ASSUME "together" \notin Faults, Limit \in Nat PROVE Spec => []LoneInv
BY LoneStep, RecoveryInit, PTL DEF Spec

(* A rewrite beside nobody puts back what it has read.                     *)
LEMMA RowsStay ==
    ASSUME LoneInv \/ SharedInv, Next, NEW r \in Runs
    PROVE  /\ row[r].phase = "terminal" => row'[r] = row[r]
           /\ Nonterminal(row[r]) => row'[r].phase # "absent"
<1>1. Typed /\ Unborn
    BY DEF LoneInv, SharedInv, TruthInv
<1>2. \A p \in Processes : stage[p] = "installing" => copy[p].rows = row
    BY DEF LoneInv, AloneInv, Copied, SharedInv, Unwritten
<1>3. Nonterminal(row[r]) => row[r].phase # "absent"
    BY DEF Nonterminal
<1> QED BY <1>1, <1>2, <1>3, TerminalMoves, UnfinishedMoves

(* No recovery, late writer or rewrite changes a verdict, unless one       *)
(* process rewrites the database beside another.                           *)
THEOREM VerdictsAlwaysStay ==
    ASSUME "together" \notin Faults \/ "rewrite" \notin Faults, Limit \in Nat
    PROVE  Spec => VerdictsStay
<1>1. (LoneInv \/ SharedInv) /\ [Next]_vars
        => [\A r \in Runs : row[r].phase = "terminal" => row'[r] = row[r]]_vars
    BY RowsStay
<1>2. CASE "together" \notin Faults
    BY <1>1, <1>2, LoneAlways, PTL DEF Spec, VerdictsStay
<1>3. CASE "rewrite" \notin Faults
    BY <1>1, <1>3, SharedAlways, PTL DEF Spec, VerdictsStay
<1> QED BY <1>2, <1>3

(* The rewrite of a process that runs alone drops no unfinished row.       *)
THEOREM EvidenceAlwaysKept ==
    ASSUME "together" \notin Faults \/ "rewrite" \notin Faults, Limit \in Nat
    PROVE  Spec => EvidenceIsKept
<1>1. (LoneInv \/ SharedInv) /\ [Next]_vars
        => [\A r \in Runs : Nonterminal(row[r]) => row'[r].phase # "absent"]_vars
    BY RowsStay
<1>2. CASE "together" \notin Faults
    BY <1>1, <1>2, LoneAlways, PTL DEF Spec, EvidenceIsKept
<1>3. CASE "rewrite" \notin Faults
    BY <1>1, <1>3, SharedAlways, PTL DEF Spec, EvidenceIsKept
<1> QED BY <1>2, <1>3

(* A run closed as one that never had a resource has not run, of processes *)
(* that run one at a time.                                                 *)
THEOREM NoResourceNeverRanAlone ==
    ASSUME "together" \notin Faults, Limit \in Nat
    PROVE  Spec => []NoResourceNeverRan
<1>1. LoneInv => NoResourceNeverRan
    BY DEF LoneInv, AloneInv, Unstarted, NoResourceNeverRan
<1> QED BY <1>1, LoneAlways, PTL

(* A process that serves leaves no row of an earlier life without verdict, *)
(* but behind as many others as one recovery claims.                       *)
THEOREM NothingLeftAlone ==
    ASSUME "together" \notin Faults, Limit \in Nat
    PROVE  Spec => []NothingLeftBehind
<1>1. LoneInv => NothingLeftBehind
    BY DEF LoneInv, AloneInv, Overtaken, Looked, Behind, NothingLeftBehind
<1> QED BY <1>1, LoneAlways, PTL
=============================================================================
