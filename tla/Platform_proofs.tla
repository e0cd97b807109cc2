-------------------------- MODULE Platform_proofs --------------------------
(***************************************************************************)
(* What owns processes, for any processes, runs and numbers of rows that a *)
(* recovery claims: the worlds of MCPlatform keep the invariants that are  *)
(* proved of their components, and what they tell is true.  A component    *)
(* with a world of each of its kinds is proved in a module of its own, the *)
(* container and the Windows job here.                                     *)
(***************************************************************************)
EXTENDS MCPlatform, PosixLaunch_proofs

AloneP == INSTANCE StartupRecovery_proofs WITH
    Processes <- Lives, Runs <- Backlog, Limit <- ClaimLimit,
    Faults <- {"crash", "write_fails", "handler_fails", "expiry", "rewrite"}

FullP == INSTANCE StartupRecovery_proofs WITH
    Processes <- Lives, Runs <- Backlog, Limit <- ShortLimit,
    Faults <- {"crash", "write_fails"}

OverlapP == INSTANCE StartupRecovery_proofs WITH
    Processes <- Rivals, Runs <- Contested, Limit <- ClaimLimit,
    Faults <- {"crash", "write_fails", "handler_fails", "expiry", "together"}

PromptP == INSTANCE PosixLaunch_proofs WITH LongGrace <- FALSE, Slow <- FALSE

GroupP == INSTANCE ControlGroup_proofs WITH
    procs <- alive, gate <- joined, host <- owning, row <- listed, asked <- told,
    sup <- watch, reason <- blame, told <- reported, rec <- later,
    Limits <- {"memory"}, Faults <- {"cancelled", "slow", "old_kernel", "crash"}

SwiftP == INSTANCE ControlGroup_proofs WITH
    procs <- alive, gate <- joined, host <- owning, row <- listed, asked <- told,
    sup <- watch, reason <- blame, told <- reported, rec <- later,
    Limits <- {"memory", "pids"}, Faults <- {"fails", "cancelled", "crash"}

-----------------------------------------------------------------------------
(* The start-ups of MCPlatform are those that StartupRecovery_proofs is    *)
(* about.                                                                  *)
LEMMA AloneSame ==
    /\ Alone!Init <=> AloneP!Init
    /\ [Alone!Next]_(Alone!vars) <=> [AloneP!Next]_(AloneP!vars)
<1>1. Alone!Init <=> AloneP!Init
    BY Zenon
    DEF Alone!Init, Alone!NoCopy, Alone!NoRow, AloneP!Init, AloneP!NoCopy,
        AloneP!NoRow
<1>2. UNCHANGED Alone!vars <=> UNCHANGED AloneP!vars
    BY Zenon DEF
        Alone!startup, Alone!database, Alone!work, Alone!vars, AloneP!startup,
        AloneP!database, AloneP!work, AloneP!vars
<1>3. Alone!Next <=> AloneP!Next
    BY ZenonT(60) DEF
        Alone!startup, Alone!database, Alone!work, Alone!NoCopy, Alone!Alive,
        Alone!Reset, Alone!Boot, Alone!Disowned, Alone!Crash, Alone!Leave,
        Alone!Refuse, Alone!WriteFails, Alone!Claimable, Alone!SnapshotOf,
        Alone!Oldest, Alone!Claim, Alone!Recovering, Alone!Note,
        Alone!StopResource, Alone!Handle, Alone!Result, Alone!CanClose,
        Alone!Close, Alone!WriteRefused, Alone!Recovered, Alone!Kept,
        Alone!Retain, Alone!Install, Alone!Drives, Alone!Admit, Alone!Attach,
        Alone!Launch, Alone!LaunchFails, Alone!Mark, Alone!Settle, Alone!Exits,
        Alone!Expires, Alone!Startup, Alone!Execution, Alone!Next,
        Alone!CreatePending, Alone!CanAppend, Alone!AppendEvent,
        Alone!CanAttach, Alone!AttachResource, Alone!CanMarkRunning,
        Alone!MarkRunning, Alone!CanFinalize, Alone!Finalize, Alone!Nonterminal,
        Alone!NoRow, Alone!ToSet, AloneP!startup, AloneP!database, AloneP!work,
        AloneP!NoCopy, AloneP!Alive, AloneP!Reset, AloneP!Boot, AloneP!Disowned,
        AloneP!Crash, AloneP!Leave, AloneP!Refuse, AloneP!WriteFails,
        AloneP!Claimable, AloneP!SnapshotOf, AloneP!Oldest, AloneP!Claim,
        AloneP!Recovering, AloneP!Note, AloneP!StopResource, AloneP!Handle,
        AloneP!Result, AloneP!CanClose, AloneP!Close, AloneP!WriteRefused,
        AloneP!Recovered, AloneP!Kept, AloneP!Retain, AloneP!Install,
        AloneP!Drives, AloneP!Admit, AloneP!Attach, AloneP!Launch,
        AloneP!LaunchFails, AloneP!Mark, AloneP!Settle, AloneP!Exits,
        AloneP!Expires, AloneP!Startup, AloneP!Execution, AloneP!Next,
        AloneP!CreatePending, AloneP!CanAppend, AloneP!AppendEvent,
        AloneP!CanAttach, AloneP!AttachResource, AloneP!CanMarkRunning,
        AloneP!MarkRunning, AloneP!CanFinalize, AloneP!Finalize,
        AloneP!Nonterminal, AloneP!NoRow, AloneP!ToSet
<1> QED BY <1>1, <1>2, <1>3

LEMMA FullSame ==
    /\ Full!Init <=> FullP!Init
    /\ [Full!Next]_(Full!vars) <=> [FullP!Next]_(FullP!vars)
<1>1. Full!Init <=> FullP!Init
    BY Zenon
    DEF Full!Init, Full!NoCopy, Full!NoRow, FullP!Init, FullP!NoCopy, FullP!NoRow
<1>2. UNCHANGED Full!vars <=> UNCHANGED FullP!vars
    BY Zenon DEF
        Full!startup, Full!database, Full!work, Full!vars, FullP!startup,
        FullP!database, FullP!work, FullP!vars
<1>3. Full!Next <=> FullP!Next
    BY ZenonT(60) DEF
        Full!startup, Full!database, Full!work, Full!NoCopy, Full!Alive,
        Full!Reset, Full!Boot, Full!Disowned, Full!Crash, Full!Leave,
        Full!Refuse, Full!WriteFails, Full!Claimable, Full!SnapshotOf,
        Full!Oldest, Full!Claim, Full!Recovering, Full!Note, Full!StopResource,
        Full!Handle, Full!Result, Full!CanClose, Full!Close, Full!WriteRefused,
        Full!Recovered, Full!Kept, Full!Retain, Full!Install, Full!Drives,
        Full!Admit, Full!Attach, Full!Launch, Full!LaunchFails, Full!Mark,
        Full!Settle, Full!Exits, Full!Expires, Full!Startup, Full!Execution,
        Full!Next, Full!CreatePending, Full!CanAppend, Full!AppendEvent,
        Full!CanAttach, Full!AttachResource, Full!CanMarkRunning,
        Full!MarkRunning, Full!CanFinalize, Full!Finalize, Full!Nonterminal,
        Full!NoRow, Full!ToSet, FullP!startup, FullP!database, FullP!work,
        FullP!NoCopy, FullP!Alive, FullP!Reset, FullP!Boot, FullP!Disowned,
        FullP!Crash, FullP!Leave, FullP!Refuse, FullP!WriteFails,
        FullP!Claimable, FullP!SnapshotOf, FullP!Oldest, FullP!Claim,
        FullP!Recovering, FullP!Note, FullP!StopResource, FullP!Handle,
        FullP!Result, FullP!CanClose, FullP!Close, FullP!WriteRefused,
        FullP!Recovered, FullP!Kept, FullP!Retain, FullP!Install, FullP!Drives,
        FullP!Admit, FullP!Attach, FullP!Launch, FullP!LaunchFails, FullP!Mark,
        FullP!Settle, FullP!Exits, FullP!Expires, FullP!Startup,
        FullP!Execution, FullP!Next, FullP!CreatePending, FullP!CanAppend,
        FullP!AppendEvent, FullP!CanAttach, FullP!AttachResource,
        FullP!CanMarkRunning, FullP!MarkRunning, FullP!CanFinalize,
        FullP!Finalize, FullP!Nonterminal, FullP!NoRow, FullP!ToSet
<1> QED BY <1>1, <1>2, <1>3

LEMMA OverlapSame ==
    /\ Overlap!Init <=> OverlapP!Init
    /\ [Overlap!Next]_(Overlap!vars) <=> [OverlapP!Next]_(OverlapP!vars)
<1>1. Overlap!Init <=> OverlapP!Init
    BY Zenon
    DEF Overlap!Init, Overlap!NoCopy, Overlap!NoRow, OverlapP!Init, OverlapP!NoCopy,
        OverlapP!NoRow
<1>2. UNCHANGED Overlap!vars <=> UNCHANGED OverlapP!vars
    BY Zenon DEF
        Overlap!startup, Overlap!database, Overlap!work, Overlap!vars,
        OverlapP!startup, OverlapP!database, OverlapP!work, OverlapP!vars
<1>3. Overlap!Next <=> OverlapP!Next
    BY ZenonT(60) DEF
        Overlap!startup, Overlap!database, Overlap!work, Overlap!NoCopy,
        Overlap!Alive, Overlap!Reset, Overlap!Boot, Overlap!Disowned,
        Overlap!Crash, Overlap!Leave, Overlap!Refuse, Overlap!WriteFails,
        Overlap!Claimable, Overlap!SnapshotOf, Overlap!Oldest, Overlap!Claim,
        Overlap!Recovering, Overlap!Note, Overlap!StopResource, Overlap!Handle,
        Overlap!Result, Overlap!CanClose, Overlap!Close, Overlap!WriteRefused,
        Overlap!Recovered, Overlap!Kept, Overlap!Retain, Overlap!Install,
        Overlap!Drives, Overlap!Admit, Overlap!Attach, Overlap!Launch,
        Overlap!LaunchFails, Overlap!Mark, Overlap!Settle, Overlap!Exits,
        Overlap!Expires, Overlap!Startup, Overlap!Execution, Overlap!Next,
        Overlap!CreatePending, Overlap!CanAppend, Overlap!AppendEvent,
        Overlap!CanAttach, Overlap!AttachResource, Overlap!CanMarkRunning,
        Overlap!MarkRunning, Overlap!CanFinalize, Overlap!Finalize,
        Overlap!Nonterminal, Overlap!NoRow, Overlap!ToSet, OverlapP!startup,
        OverlapP!database, OverlapP!work, OverlapP!NoCopy, OverlapP!Alive,
        OverlapP!Reset, OverlapP!Boot, OverlapP!Disowned, OverlapP!Crash,
        OverlapP!Leave, OverlapP!Refuse, OverlapP!WriteFails,
        OverlapP!Claimable, OverlapP!SnapshotOf, OverlapP!Oldest,
        OverlapP!Claim, OverlapP!Recovering, OverlapP!Note,
        OverlapP!StopResource, OverlapP!Handle, OverlapP!Result,
        OverlapP!CanClose, OverlapP!Close, OverlapP!WriteRefused,
        OverlapP!Recovered, OverlapP!Kept, OverlapP!Retain, OverlapP!Install,
        OverlapP!Drives, OverlapP!Admit, OverlapP!Attach, OverlapP!Launch,
        OverlapP!LaunchFails, OverlapP!Mark, OverlapP!Settle, OverlapP!Exits,
        OverlapP!Expires, OverlapP!Startup, OverlapP!Execution, OverlapP!Next,
        OverlapP!CreatePending, OverlapP!CanAppend, OverlapP!AppendEvent,
        OverlapP!CanAttach, OverlapP!AttachResource, OverlapP!CanMarkRunning,
        OverlapP!MarkRunning, OverlapP!CanFinalize, OverlapP!Finalize,
        OverlapP!Nonterminal, OverlapP!NoRow, OverlapP!ToSet
<1> QED BY <1>1, <1>2, <1>3

LEMMA SameStart == Alone!Init <=> Full!Init
BY Zenon
DEF Alone!Init, Alone!NoCopy, Alone!NoRow, Full!Init, Full!NoCopy, Full!NoRow

(* A step of a world is one of its start-up, or leaves that alone.         *)
LEMMA StartupsMove ==
    ASSUME [MCNext]_allVars
    PROVE  /\ world' = world
           /\ world = "overlap" => [Overlap!Next]_(Overlap!vars)
           /\ world = "full" => [Full!Next]_(Full!vars)
           /\ world \notin {"overlap", "full"} => [Alone!Next]_(Alone!vars)
<1>1. UNCHANGED recoveryVars =>
        /\ UNCHANGED Alone!vars /\ UNCHANGED Full!vars /\ UNCHANGED Overlap!vars
    BY
    DEF recoveryVars, Alone!vars, Alone!startup, Alone!database, Alone!work,
        Full!vars, Full!startup,
           Full!database, Full!work, Overlap!vars, Overlap!startup, Overlap!database, Overlap!work
<1>2. CASE UNCHANGED allVars
    BY <1>1, <1>2 DEF allVars
<1>3. CASE MCNext
    BY <1>1, <1>3 DEF MCNext
<1> QED BY <1>2, <1>3

StartupsInv ==
    IF world = "overlap" THEN OverlapP!SharedInv
    ELSE IF world = "full" THEN FullP!LoneInv ELSE AloneP!LoneInv

LEMMA StartupsStart == MCInit => StartupsInv
BY AloneSame, FullSame, OverlapSame, SameStart, AloneP!RecoveryInit,
   FullP!RecoveryInit,
   OverlapP!RecoveryInit DEF MCInit, StartupsInv

LEMMA StartupsStep == StartupsInv /\ [MCNext]_allVars => StartupsInv'
<1> SUFFICES ASSUME StartupsInv, [MCNext]_allVars PROVE StartupsInv'
    OBVIOUS
<1>1. CASE world = "overlap"
    <2>1. "rewrite" \notin {"crash", "write_fails", "handler_fails", "expiry", "together"}
        OBVIOUS
    <2>2. OverlapP!SharedInv /\ [OverlapP!Next]_(OverlapP!vars) => OverlapP!SharedInv'
        BY <2>1, OverlapP!SharedStep
    <2> QED BY <1>1, <2>2, StartupsMove, OverlapSame DEF StartupsInv
<1>2. CASE world = "full"
    <2>1. "together" \notin {"crash", "write_fails"}
        OBVIOUS
    <2>2. FullP!LoneInv /\ [FullP!Next]_(FullP!vars) => FullP!LoneInv'
        BY <2>1, PlatformAssumption, FullP!LoneStep
    <2> QED BY <1>2, <2>2, StartupsMove, FullSame DEF StartupsInv
<1>3. CASE world \notin {"overlap", "full"}
    <2>1. "together" \notin {"crash", "write_fails", "handler_fails", "expiry", "rewrite"}
        OBVIOUS
    <2>2. AloneP!LoneInv /\ [AloneP!Next]_(AloneP!vars) => AloneP!LoneInv'
        BY <2>1, PlatformAssumption, AloneP!LoneStep
    <2> QED BY <1>3, <2>2, StartupsMove, AloneSame DEF StartupsInv
<1> QED BY <1>1, <1>2, <1>3

LEMMA MCSafety == MCSpec => MCInit /\ [][MCNext]_allVars
BY PTL DEF MCSpec

LEMMA StartupsAlways == MCSpec => []StartupsInv
BY MCSafety, StartupsStart, StartupsStep, PTL

-----------------------------------------------------------------------------
(* What the invariants of a start-up say of its verdicts.                  *)
LEMMA OverlapTold == OverlapP!SharedInv => Overlap!RecoveredTruly
BY DEF OverlapP!SharedInv, OverlapP!TruthInv, OverlapP!Evidence, OverlapP!Backed,
       OverlapP!GoneOutcomes, Overlap!RecoveredTruly, Overlap!Alive

LEMMA FullTold ==
    FullP!LoneInv => Alone!RecoveredTruly /\ Alone!NoResourceNeverRan /\ Full!NothingLeftBehind
<1> SUFFICES ASSUME FullP!LoneInv
             PROVE  Alone!RecoveredTruly /\ Alone!NoResourceNeverRan /\ Full!NothingLeftBehind
    OBVIOUS
<1> USE DEF FullP!LoneInv, FullP!TruthInv, FullP!AloneInv
<1>1. Alone!RecoveredTruly
    BY
    DEF FullP!Evidence, FullP!Backed, FullP!GoneOutcomes, Alone!RecoveredTruly,
        Alone!Alive
<1>2. Alone!NoResourceNeverRan
    BY DEF FullP!Unstarted, Alone!NoResourceNeverRan
<1>3. /\ \A p : FullP!Left(p) = Full!Left(p)
      /\ \A S : FullP!Cardinality(S) = Full!Cardinality(S)
    BY Zenon DEF FullP!Left, Full!Left, FullP!Nonterminal, Full!Nonterminal,
                 FullP!Cardinality, Full!Cardinality
<1>4. Full!NothingLeftBehind
    BY <1>3 DEF FullP!Overtaken, FullP!Looked, FullP!Behind, Full!NothingLeftBehind
<1> QED BY <1>1, <1>2, <1>4

LEMMA AloneTold ==
    AloneP!LoneInv => Alone!RecoveredTruly /\ Alone!NoResourceNeverRan /\ Alone!NothingLeftBehind
<1> SUFFICES ASSUME AloneP!LoneInv
             PROVE  Alone!RecoveredTruly /\ Alone!NoResourceNeverRan /\ Alone!NothingLeftBehind
    OBVIOUS
<1> USE DEF AloneP!LoneInv, AloneP!TruthInv, AloneP!AloneInv
<1>1. Alone!RecoveredTruly
    BY
    DEF AloneP!Evidence, AloneP!Backed, AloneP!GoneOutcomes, Alone!RecoveredTruly,
        Alone!Alive
<1>2. Alone!NoResourceNeverRan
    BY DEF AloneP!Unstarted, Alone!NoResourceNeverRan
<1>3. /\ \A p : AloneP!Left(p) = Alone!Left(p)
      /\ \A S : AloneP!Cardinality(S) = Alone!Cardinality(S)
    BY Zenon DEF AloneP!Left, Alone!Left, AloneP!Nonterminal, Alone!Nonterminal,
                 AloneP!Cardinality, Alone!Cardinality
<1>4. Alone!NothingLeftBehind
    BY <1>3
    DEF AloneP!Overtaken, AloneP!Looked, AloneP!Behind, Alone!NothingLeftBehind
<1> QED BY <1>1, <1>2, <1>4

(* What a recovery says of a run is true, and of a process that starts     *)
(* alone, that a run never had a resource and that no row is left, too     *)
(* (recover_startup).                                                      *)
THEOREM VerdictsAlwaysTrue == MCSpec => []VerdictsAreTrue
<1>1. StartupsInv => VerdictsAreTrue
    BY OverlapTold, FullTold, AloneTold DEF StartupsInv, VerdictsAreTrue
<1> QED BY <1>1, StartupsAlways, PTL

(* A verdict stands beside another process, and the rewrite of a process   *)
(* that starts alone keeps the rows that are not finished                  *)
(* (apply_retention).                                                      *)
THEOREM EvidenceAlwaysStays == MCSpec => EvidenceStays
<1>1. StartupsInv /\ [MCNext]_allVars
        => [world = "overlap" =>
              \A r \in Contested : row[r].phase = "terminal" => row'[r] = row[r]]_allVars
    <2> SUFFICES ASSUME StartupsInv, [MCNext]_allVars, world = "overlap",
                        NEW r \in Contested, row[r].phase = "terminal"
                 PROVE  row'[r] = row[r]
        OBVIOUS
    <2>1. OverlapP!SharedInv /\ [OverlapP!Next]_(OverlapP!vars)
        BY StartupsMove, OverlapSame DEF StartupsInv
    <2>2. CASE UNCHANGED OverlapP!vars
        BY <2>2 DEF OverlapP!vars, OverlapP!database
    <2> QED BY <2>1, <2>2, OverlapP!RowsStay
<1>2. StartupsInv /\ [MCNext]_allVars
        => [(world \in {"alone", "full"}) =>
              \A r \in Backlog : Alone!Nonterminal(row[r]) => row'[r].phase # "absent"]_allVars
    <2> SUFFICES ASSUME StartupsInv, [MCNext]_allVars, world \in {"alone", "full"},
                        NEW r \in Backlog, Alone!Nonterminal(row[r])
                 PROVE  row'[r].phase # "absent"
        OBVIOUS
    <2>1. CASE world = "full"
        <3>1. FullP!LoneInv /\ [FullP!Next]_(FullP!vars) /\ FullP!Nonterminal(row[r])
            BY <2>1, StartupsMove, FullSame
            DEF StartupsInv, Alone!Nonterminal, FullP!Nonterminal
        <3>2. CASE UNCHANGED FullP!vars
            BY <3>1, <3>2 DEF FullP!vars, FullP!database, FullP!Nonterminal
        <3> QED BY <3>1, <3>2, FullP!RowsStay
    <2>2. CASE world = "alone"
        <3>1. AloneP!LoneInv /\ [AloneP!Next]_(AloneP!vars) /\ AloneP!Nonterminal(row[r])
            BY <2>2, StartupsMove, AloneSame
            DEF StartupsInv, Alone!Nonterminal, AloneP!Nonterminal
        <3>2. CASE UNCHANGED AloneP!vars
            BY <3>1, <3>2 DEF AloneP!vars, AloneP!database, AloneP!Nonterminal
        <3> QED BY <3>1, <3>2, AloneP!RowsStay
    <2> QED BY <2>1, <2>2
<1> QED BY <1>1, <1>2, MCSafety, StartupsAlways, PTL DEF EvidenceStays
-----------------------------------------------------------------------------
(* The POSIX launch: where nobody is slow, and where everybody may be.     *)
LaunchesInv ==
    /\ LaunchInv /\ FlagsInv /\ TypesInv /\ FramesInv
    /\ world = "prompt" => ReapInv

LEMMA PromptSame ==
    /\ Prompt!Next <=> PromptP!Next
    /\ UNCHANGED PromptP!vars <=> UNCHANGED vars
    /\ PromptP!LaunchInv <=> LaunchInv
    /\ PromptP!FlagsInv <=> FlagsInv
    /\ PromptP!TypesInv <=> TypesInv
    /\ PromptP!FramesInv <=> FramesInv
    /\ PromptP!ReapInv <=> ReapInv
<1>1. Prompt!Next <=> PromptP!Next
    BY Zenon DEF
        Prompt!handle, Prompt!wire, Prompt!project, Prompt!Ends,
        Prompt!SupervisorLives, Prompt!GroupExists, Prompt!ProjectRuns,
        Prompt!KillGroup, Prompt!TermGroup, Prompt!CanReport, Prompt!Report,
        Prompt!SecondOver, Prompt!Start, Prompt!ReadReady, Prompt!BeginAbort,
        Prompt!Registered, Prompt!RegistrationFails, Prompt!ReadStarted,
        Prompt!StartFails, Prompt!AbortKills, Prompt!AbortEnds, Prompt!WaitEnds,
        Prompt!Terminate, Prompt!ForceTerminate, Prompt!ForceKills,
        Prompt!Stopped, Prompt!Cleanup, Prompt!Cancel, Prompt!HardCancel,
        Prompt!Crash, Prompt!Discards, Prompt!Boots, Prompt!SetupFails,
        Prompt!PassesStart, Prompt!ToldToStop, Prompt!Withdraws,
        Prompt!ReportsStarted, Prompt!ReportsExecError, Prompt!BeginsStop,
        Prompt!StopsGroup, Prompt!LimitReached, Prompt!GroupStopped,
        Prompt!SeesExit, Prompt!SweepGroup, Prompt!Finishes,
        Prompt!DiscardsProject, Prompt!SupervisorKilled, Prompt!Exec,
        Prompt!ExecFails, Prompt!Forks, Prompt!Exits, Prompt!GateEof,
        Prompt!RecoveryLooks, Prompt!RecoveryEnds, Prompt!RecoveryKills,
        Prompt!Host, Prompt!Supervisor, Prompt!Project, Prompt!Recovery,
        Prompt!Next, PromptP!handle, PromptP!wire, PromptP!project,
        PromptP!Ends, PromptP!SupervisorLives, PromptP!GroupExists,
        PromptP!ProjectRuns, PromptP!KillGroup, PromptP!TermGroup,
        PromptP!CanReport, PromptP!Report, PromptP!SecondOver, PromptP!Start,
        PromptP!ReadReady, PromptP!BeginAbort, PromptP!Registered,
        PromptP!RegistrationFails, PromptP!ReadStarted, PromptP!StartFails,
        PromptP!AbortKills, PromptP!AbortEnds, PromptP!WaitEnds,
        PromptP!Terminate, PromptP!ForceTerminate, PromptP!ForceKills,
        PromptP!Stopped, PromptP!Cleanup, PromptP!Cancel, PromptP!HardCancel,
        PromptP!Crash, PromptP!Discards, PromptP!Boots, PromptP!SetupFails,
        PromptP!PassesStart, PromptP!ToldToStop, PromptP!Withdraws,
        PromptP!ReportsStarted, PromptP!ReportsExecError, PromptP!BeginsStop,
        PromptP!StopsGroup, PromptP!LimitReached, PromptP!GroupStopped,
        PromptP!SeesExit, PromptP!SweepGroup, PromptP!Finishes,
        PromptP!DiscardsProject, PromptP!SupervisorKilled, PromptP!Exec,
        PromptP!ExecFails, PromptP!Forks, PromptP!Exits, PromptP!GateEof,
        PromptP!RecoveryLooks, PromptP!RecoveryEnds, PromptP!RecoveryKills,
        PromptP!Host, PromptP!Supervisor, PromptP!Project, PromptP!Recovery,
        PromptP!Next
<1>2. UNCHANGED PromptP!vars <=> UNCHANGED vars
    BY Zenon
    DEF PromptP!vars, PromptP!handle, PromptP!wire, PromptP!project, vars, handle,
        wire,
                 project
<1>3. PromptP!SupervisorLives <=> SupervisorLives
    BY Zenon DEF PromptP!SupervisorLives, SupervisorLives
<1>4. PromptP!LaunchInv <=> LaunchInv
    BY <1>3, Zenon
    DEF PromptP!LaunchInv, PromptP!GateInv, PromptP!Frames, PromptP!ExitIn, PromptP!ExitSeen,
        PromptP!ExitInv, PromptP!RecoveryInv, PromptP!StopInv, LaunchInv, GateInv, Frames, ExitIn,
        ExitSeen, ExitInv, RecoveryInv, StopInv
<1>5. PromptP!FlagsInv <=> FlagsInv
    BY Zenon DEF PromptP!FlagsInv, FlagsInv
<1>6. PromptP!TypesInv <=> TypesInv
    BY Zenon
    DEF PromptP!TypesInv, PromptP!Hosts, PromptP!Ends, PromptP!Supervisors, PromptP!Leaders,
        TypesInv, Hosts, Ends, Supervisors, Leaders
<1>7. PromptP!FramesInv <=> FramesInv
    BY Zenon
    DEF PromptP!FramesInv, PromptP!UnreadInv, PromptP!KindsInv, PromptP!Written,
        FramesInv,
                 UnreadInv, KindsInv, Written
<1>8. PromptP!ReapInv <=> ReapInv
    BY Zenon DEF PromptP!ReapInv, ReapInv
<1> QED BY <1>1, <1>2, <1>4, <1>5, <1>6, <1>7, <1>8

LEMMA LaunchesStart == MCInit => LaunchesInv
BY InitLaunchInv, TypesInit DEF MCInit, LaunchesInv

LEMMA LaunchesStep == LaunchesInv /\ [MCNext]_allVars => LaunchesInv'
<1> SUFFICES ASSUME LaunchesInv, [MCNext]_allVars PROVE LaunchesInv'
    OBVIOUS
<1>1. CASE UNCHANGED vars /\ world' = world
    <2>1. LaunchInv' /\ FlagsInv' /\ TypesInv' /\ FramesInv'
        BY <1>1, StepLaunchInv, FlagsStep, TypesStep, FramesStep DEF LaunchesInv
    <2>2. ReapInv' <=> ReapInv
        BY <1>1 DEF vars, project, ReapInv
    <2> QED BY <1>1, <2>1, <2>2 DEF LaunchesInv
<1>2. CASE world = "slow" /\ world' = world /\ Next
    BY <1>2, StepLaunchInv, FlagsStep, TypesStep, FramesStep DEF LaunchesInv
<1>3. CASE world = "prompt" /\ world' = world /\ Prompt!Next
    <2>1. PromptP!LaunchInv /\ PromptP!FlagsInv /\ PromptP!TypesInv /\ PromptP!FramesInv
          /\ PromptP!ReapInv /\ [PromptP!Next]_(PromptP!vars)
        BY <1>3, PromptSame DEF LaunchesInv
    <2>2. Faults \subseteq PromptP!FaultKinds /\ FALSE \in BOOLEAN
        BY LaunchAssumption DEF LaunchAssumption, FaultKinds, PromptP!FaultKinds
    <2>3. PromptP!LaunchInv'
        BY <2>1, <2>2, PromptP!StepLaunchInv
    <2>4. PromptP!FlagsInv' /\ PromptP!TypesInv' /\ PromptP!FramesInv'
        BY <2>1, <2>2, PromptP!FlagsStep, PromptP!TypesStep, PromptP!FramesStep
    <2>5. PromptP!ReapInv'
        BY <2>1, <2>2, PromptP!ReapStep
    <2> QED BY <1>3, <2>3, <2>4, <2>5, PromptSame, PTL DEF LaunchesInv
<1>4. CASE UNCHANGED allVars
    BY <1>1, <1>4 DEF allVars, launchVars
<1>5. CASE MCNext
    BY <1>1, <1>2, <1>3, <1>5 DEF MCNext, launchVars
<1> QED BY <1>4, <1>5

LEMMA LaunchesAlways == MCSpec => []LaunchesInv
BY MCSafety, LaunchesStart, LaunchesStep, PTL

(* Where the grace period is short and no deadline passes, no supervisor   *)
(* ends before its project (PosixBackend, posix_supervisor).               *)
THEOREM LifetimeReapsAlways == MCSpec => []LifetimeReaps
<1>1. LaunchesInv => LifetimeReaps
    BY
    DEF LaunchesInv, ReapInv, LifetimeReaps, Prompt!ClosedLifetimeReaps,
        Prompt!ProjectRuns
<1> QED BY <1>1, LaunchesAlways, PTL

-----------------------------------------------------------------------------
(* The container.  A container that the backend knows of was created: it   *)
(* cannot be created again once it is removed, and only one that is        *)
(* registered has been asked to start.                                     *)
ContainerInv ==
    /\ Container!TypeOK
    /\ known => container # "none"
    /\ at \in {"require", "register", "attach", "running"} => known
    /\ at \in {"create", "require", "register"} => ~named
    /\ at \in {"attach", "running"} => named
    /\ named => known
    /\ container = "running" \/ "start" \in late => named
    /\ clean # "no" \/ wait # "no" \/ term # "no" => known
    /\ rec # "no" => named
    /\ Container!ContainersAreTold

LEMMA ContainerStep == ContainerInv /\ Container!Next => ContainerInv'
<1> SUFFICES ASSUME ContainerInv, Container!Next PROVE ContainerInv'
    OBVIOUS
<1> USE DEF ContainerInv, Container!TypeOK, Container!tasks, Container!Present, Container!Gone,
        Container!ContainersAreTold, Container!NothingRunsUnregistered, Container!GoneIsGone,
        Container!ReportedExitIsFinal, Container!Running, Container!Absent
<1>1. ASSUME NEW command \in {"create", "start", "stop", "kill", "remove"},
             Container!Arrives(command)
      PROVE  ContainerInv'
    BY <1>1 DEF Container!Arrives, Container!Effect
<1>2. CASE Container!Exits
    BY <1>2 DEF Container!Exits
<1>3. CASE Container!Create
    <2>1. CASE known' = TRUE /\ at' = "require"
        BY <1>3, <2>1
        DEF Container!Create, Container!Asks, Container!Effect, Container!Created
    <2>2. CASE at' = "abort" /\ UNCHANGED known
        BY <1>3, <2>2
        DEF Container!Create, Container!Asks, Container!Effect, Container!Created
    <2> QED
        BY <1>3, <2>1, <2>2
        DEF Container!Create, Container!Asks, Container!Created
<1>4. CASE Container!Require
    BY <1>4 DEF Container!Require, Container!Reads
<1>5. CASE Container!Register
    <2>1. named' \in BOOLEAN /\ named = FALSE /\ known
        BY <1>5 DEF Container!Register
    <2>2. at' \in {"attach", "abort"} /\ (at' = "attach" => named')
        BY <1>5 DEF Container!Register
    <2> QED BY <1>5, <2>1, <2>2 DEF Container!Register
<1>6. CASE Container!Attach
    BY <1>6 DEF Container!Attach, Container!Start
<1>7. CASE Container!Attached
    BY <1>7 DEF Container!Attached
<1>8. CASE Container!Cancelled
    BY <1>8 DEF Container!Cancelled
<1>9. CASE Container!Abort
    BY <1>9 DEF Container!Abort, Container!Asks, Container!Effect
<1>10. CASE Container!ClientEnds
    BY <1>10 DEF Container!ClientEnds, Container!Handle
<1>11. CASE Container!WaitBegins
    BY <1>11 DEF Container!WaitBegins, Container!Handle
<1>12. CASE Container!Wait
    BY <1>12
    DEF Container!Wait, Container!Handle, Container!Reads, Container!ExitFrom
<1>13. CASE Container!Terminate
    <2>1. /\ UNCHANGED <<known, named, at, attach, wait, clean, rec>> /\ at = "running"
          /\ reason' \in BOOLEAN
        BY <1>13 DEF Container!Terminate, Container!Handle
    <2>2. /\ container' \in {container, Container!Effect("stop"), Container!Effect("kill")}
          /\ late' \in {late, late \cup {"stop"}, late \cup {"kill"}}
          /\ term' \in {"stop", "inspect", "kill", "done", "raised"}
        BY <1>13 DEF Container!Terminate, Container!Asks, Container!Reads
    <2> QED BY <2>1, <2>2 DEF Container!Effect
<1>14. CASE Container!CleanUp
    BY <1>14 DEF Container!CleanUp, Container!Cleaning, Container!Handle,
        Container!Asks, Container!Effect, Container!Reads,
        Container!Verdict
<1>15. CASE Container!Crash
    BY <1>15 DEF Container!Crash, Container!Outstanding
<1>16. CASE Container!Recover
    BY <1>16 DEF Container!Recover, Container!Recovering, Container!Found,
        Container!Asks, Container!Effect, Container!Reads
<1>17. CASE Container!Settled
    BY <1>17 DEF Container!Settled, Container!vars
<1> QED
    BY <1>1, <1>2, <1>3, <1>4, <1>5, <1>6, <1>7, <1>8, <1>9, <1>10, <1>11, <1>12,
       <1>13, <1>14, <1>15, <1>16, <1>17
    DEF Container!Next

LEMMA ContainerStart == MCInit => ContainerInv
BY
DEF MCInit, ContainerInv, Container!TypeOK, Container!Present, Container!Gone,
    Container!ContainersAreTold, Container!NothingRunsUnregistered,
    Container!GoneIsGone, Container!ReportedExitIsFinal, Container!Running,
    Container!Absent, Container!Init

LEMMA ContainerKept == ContainerInv /\ [MCNext]_allVars => ContainerInv'
<1> SUFFICES ASSUME ContainerInv, [MCNext]_allVars PROVE ContainerInv'
    OBVIOUS
<1>1. CASE UNCHANGED containerVars
    BY <1>1
    DEF containerVars, Container!vars, Container!tasks, ContainerInv, Container!TypeOK, Container!Present, Container!Gone, Container!ContainersAreTold, Container!NothingRunsUnregistered, Container!GoneIsGone, Container!ReportedExitIsFinal, Container!Running, Container!Absent
<1>2. CASE Container!Next
    BY <1>2, ContainerStep
<1>3. CASE UNCHANGED allVars
    BY <1>1, <1>3 DEF allVars
<1>4. CASE MCNext
    BY <1>1, <1>2, <1>4 DEF MCNext
<1> QED BY <1>3, <1>4

LEMMA ContainerAlways == MCSpec => []ContainerInv
BY MCSafety, ContainerStart, ContainerKept, PTL

-----------------------------------------------------------------------------
(* The Windows job.                                                        *)
(* How far start() is decides what there is of the process and of the job. *)
StartInv ==
    /\ start = "begin" => root = "none" /\ job = "none"
    /\ start = "create" => root = "none" /\ job = "open"
    /\ start = "assign" => root = "loose" /\ job = "open"
    /\ start \in {"register", "check", "resume"} => root = "suspended" /\ job = "open"
    /\ start \in {"check", "resume", "handle"} => noted = TRUE
    /\ start = "handle" => root \notin {"none", "loose", "suspended"}
    /\ start = "failed" => root \in {"none", "exited"} /\ job # "open"
    /\ start = "dead" => job # "open"

(* The job is open until the cleanup has closed it; what it kills stays    *)
(* dead.                                                                   *)
JobInv ==
    /\ start = "handle" => job = "open" \/ closing \in {"complete", "incomplete"}
    /\ start # "handle" /\ start # "dead" => closing = "no" /\ drain = "no" /\ kids = FALSE
    /\ closing \in {"close", "complete"} => root # "running" /\ kids = FALSE
    /\ root # "running" /\ root \notin {"exited", "still_active"} => kids = FALSE
    /\ job # "open" => root # "running" /\ kids = FALSE

OutputInv ==
    /\ drain \in {"last", "over"} => root # "running"
    /\ drain = "over" => unread = FALSE

RowInv == root = "running" => noted = TRUE

RecoverInv == found # "no" => start = "dead"

JobsInv == Job!TypeOK /\ StartInv /\ JobInv /\ OutputInv /\ RowInv /\ RecoverInv
LEMMA JobsStep == JobsInv /\ Job!Next => JobsInv'
<1> SUFFICES ASSUME JobsInv, Job!Next PROVE JobsInv'
    OBVIOUS
<1> USE DEF JobsInv, Job!project, Job!tasks
<1>1. CASE Job!CreateJob
    BY <1>1
    DEF Job!CreateJob, Job!TypeOK, Job!Flags, StartInv, JobInv, OutputInv, RowInv,
        RecoverInv
<1>2. CASE Job!CreateSuspended
    BY <1>2
    DEF Job!CreateSuspended, Job!TypeOK, Job!Flags, StartInv, JobInv, OutputInv,
        RowInv, RecoverInv
<1>3. CASE Job!Assign
    BY <1>3
    DEF Job!Assign, Job!TypeOK, Job!Flags, StartInv, JobInv, OutputInv, RowInv,
        RecoverInv
<1>4. CASE Job!Registers
    BY <1>4
    DEF Job!Registers, Job!Register, Job!Discard, Job!CloseJob, Job!KillOnClose,
        Job!TerminateJob, Job!TypeOK, Job!Flags, StartInv, JobInv, OutputInv,
        RowInv, RecoverInv
<1>5. CASE Job!CheckCancelled
    BY <1>5
    DEF Job!CheckCancelled, Job!Discard, Job!CloseJob, Job!KillOnClose,
        Job!TerminateJob, Job!TypeOK, Job!Flags, StartInv, JobInv, OutputInv,
        RowInv, RecoverInv
<1>6. CASE Job!Resume
    BY <1>6
    DEF Job!Resume, Job!Discard, Job!CloseJob, Job!KillOnClose, Job!TerminateJob,
        Job!TypeOK, Job!Flags, StartInv, JobInv, OutputInv, RowInv, RecoverInv
<1>7. CASE Job!Cancel
    BY <1>7
    DEF Job!Cancel, Job!TypeOK, Job!Flags, StartInv, JobInv, OutputInv, RowInv,
        RecoverInv
<1>8. CASE Job!Project
    <2>1. Job!TypeOK'
        <3>1. Job!Flags'
            BY <1>8, Zenon
            DEF Job!Project, Job!Writes, Job!Spawns, Job!KidsEnd, Job!RootEnds,
                Job!TypeOK, Job!Flags
        <3> QED
            BY <1>8, <3>1
            DEF Job!Project, Job!Writes, Job!Spawns, Job!KidsEnd, Job!RootEnds,
                Job!TypeOK, StartInv
    <2>2. StartInv'
        BY <1>8
        DEF Job!Project, Job!Writes, Job!Spawns, Job!KidsEnd, Job!RootEnds,
            Job!TypeOK, StartInv
    <2>3. JobInv'
        BY <1>8
        DEF Job!Project, Job!Writes, Job!Spawns, Job!KidsEnd, Job!RootEnds,
            Job!TypeOK, StartInv, JobInv
    <2>4. OutputInv' /\ RowInv' /\ RecoverInv'
        BY <1>8
        DEF Job!Project, Job!Writes, Job!Spawns, Job!KidsEnd, Job!RootEnds,
            Job!TypeOK, StartInv, OutputInv, RowInv, RecoverInv
    <2> QED BY <2>1, <2>2, <2>3, <2>4
<1>9. CASE Job!Drain
    <2>1. Job!TypeOK'
        <3>1. Job!Flags'
            BY <1>9, Zenon
            DEF Job!Drain, Job!Held, Job!LastRead, Job!ExitCode, Job!TypeOK,
                Job!Flags
        <3> QED
            BY <1>9, <3>1
            DEF Job!Drain, Job!Held, Job!LastRead, Job!ExitCode, Job!TypeOK,
                StartInv
    <2>2. StartInv'
        BY <1>9
        DEF Job!Drain, Job!Held, Job!LastRead, Job!ExitCode, Job!TypeOK, StartInv
    <2>3. JobInv'
        BY <1>9
        DEF Job!Drain, Job!Held, Job!LastRead, Job!ExitCode, Job!TypeOK, StartInv,
            JobInv
    <2>4. OutputInv' /\ RowInv' /\ RecoverInv'
        BY <1>9
        DEF Job!Drain, Job!Held, Job!LastRead, Job!ExitCode, Job!TypeOK, StartInv,
            OutputInv, RowInv, RecoverInv
    <2> QED BY <2>1, <2>2, <2>3, <2>4
<1>10. CASE Job!Wait
    BY <1>10
    DEF Job!Wait, Job!Held, Job!ExitCode, Job!TypeOK, Job!Flags, StartInv, JobInv,
        OutputInv, RowInv, RecoverInv
<1>11. CASE Job!Terminate
    <2>1. Job!TypeOK'
        <3>1. Job!Flags'
            BY <1>11, Zenon
            DEF Job!Terminate, Job!Held, Job!ExitCode, Job!TerminateJob, Job!TypeOK,
                Job!Flags
        <3> QED
            BY <1>11, <3>1
            DEF Job!Terminate, Job!Held, Job!ExitCode, Job!TerminateJob, Job!TypeOK,
                StartInv
    <2>2. StartInv'
        BY <1>11
        DEF Job!Terminate, Job!Held, Job!ExitCode, Job!TerminateJob, Job!TypeOK,
            StartInv
    <2>3. JobInv'
        BY <1>11
        DEF Job!Terminate, Job!Held, Job!ExitCode, Job!TerminateJob, Job!TypeOK,
            StartInv, JobInv
    <2>4. OutputInv' /\ RowInv' /\ RecoverInv'
        BY <1>11
        DEF Job!Terminate, Job!Held, Job!ExitCode, Job!TerminateJob, Job!TypeOK,
            StartInv, OutputInv, RowInv, RecoverInv
    <2> QED BY <2>1, <2>2, <2>3, <2>4
<1>12. CASE Job!CleanUp
    <2>1. Job!TypeOK'
        <3>1. Job!Flags'
            BY <1>12, Zenon
            DEF Job!CleanUp, Job!Held, Job!StopAll, Job!CloseJob, Job!KillOnClose,
                Job!TerminateJob, Job!TypeOK, Job!Flags
        <3> QED
            BY <1>12, <3>1
            DEF Job!CleanUp, Job!Held, Job!StopAll, Job!CloseJob, Job!KillOnClose,
                Job!TerminateJob, Job!TypeOK, StartInv
    <2>2. StartInv'
        BY <1>12
        DEF Job!CleanUp, Job!Held, Job!StopAll, Job!CloseJob, Job!KillOnClose,
            Job!TerminateJob, Job!TypeOK, StartInv
    <2>3. JobInv'
        BY <1>12
        DEF Job!CleanUp, Job!Held, Job!StopAll, Job!CloseJob, Job!KillOnClose,
            Job!TerminateJob, Job!TypeOK, StartInv, JobInv
    <2>4. OutputInv' /\ RowInv' /\ RecoverInv'
        BY <1>12
        DEF Job!CleanUp, Job!Held, Job!StopAll, Job!CloseJob, Job!KillOnClose,
            Job!TerminateJob, Job!TypeOK, StartInv, OutputInv, RowInv, RecoverInv
    <2> QED BY <2>1, <2>2, <2>3, <2>4
<1>13. CASE Job!Crash
    <2>1. Job!TypeOK'
        <3>1. Job!Flags'
            BY <1>13, Zenon
            DEF Job!Crash, Job!CloseJob, Job!KillOnClose, Job!TerminateJob,
                Job!TypeOK, Job!Flags
        <3> QED
            BY <1>13, <3>1
            DEF Job!Crash, Job!CloseJob, Job!KillOnClose, Job!TerminateJob,
                Job!TypeOK, StartInv
    <2>2. StartInv'
        BY <1>13
        DEF Job!Crash, Job!CloseJob, Job!KillOnClose, Job!TerminateJob, Job!TypeOK,
            StartInv
    <2>3. JobInv'
        BY <1>13
        DEF Job!Crash, Job!CloseJob, Job!KillOnClose, Job!TerminateJob, Job!TypeOK,
            StartInv, JobInv
    <2>4. OutputInv' /\ RowInv' /\ RecoverInv'
        BY <1>13
        DEF Job!Crash, Job!CloseJob, Job!KillOnClose, Job!TerminateJob, Job!TypeOK,
            StartInv, OutputInv, RowInv, RecoverInv
    <2> QED BY <2>1, <2>2, <2>3, <2>4
<1>14. CASE Job!Recover
    BY <1>14
    DEF Job!Recover, Job!TypeOK, Job!Flags, StartInv, JobInv, OutputInv, RowInv,
        RecoverInv
<1> QED
    BY <1>1, <1>2, <1>3, <1>4, <1>5, <1>6, <1>7, <1>8, <1>9, <1>10, <1>11, <1>12,
       <1>13, <1>14
    DEF Job!Next

LEMMA JobsStart == MCInit => JobsInv
BY
DEF MCInit, JobsInv, Job!TypeOK, Job!Flags, StartInv, JobInv, OutputInv, RowInv,
    RecoverInv, Job!Init

LEMMA JobsKept == JobsInv /\ [MCNext]_allVars => JobsInv'
<1> SUFFICES ASSUME JobsInv, [MCNext]_allVars PROVE JobsInv'
    OBVIOUS
<1>1. CASE UNCHANGED jobVars
    BY <1>1
    DEF jobVars, Job!vars, Job!project, Job!tasks, JobsInv, Job!TypeOK, Job!Flags, StartInv, JobInv, OutputInv, RowInv, RecoverInv
<1>2. CASE Job!Next
    BY <1>2, JobsStep
<1>3. CASE UNCHANGED allVars
    BY <1>1, <1>3 DEF allVars
<1>4. CASE MCNext
    BY <1>1, <1>2, <1>4 DEF MCNext
<1> QED BY <1>3, <1>4

LEMMA JobsAlways == MCSpec => []JobsInv
BY MCSafety, JobsStart, JobsKept, PTL

-----------------------------------------------------------------------------
(* The control group, with processes that are slow and without.            *)
LEMMA GroupSame ==
    /\ Group!Init <=> GroupP!Init
    /\ [Group!Next]_(Group!vars) <=> [GroupP!Next]_(GroupP!vars)
<1>1. Group!Init <=> GroupP!Init
    BY Zenon DEF Group!Init, Group!May, GroupP!Init, GroupP!May
<1>2. UNCHANGED Group!vars <=> UNCHANGED GroupP!vars
    BY Zenon DEF
        Group!vars, Group!processes, Group!supervisor, GroupP!vars,
        GroupP!processes, GroupP!supervisor
<1>3. Group!Next <=> GroupP!Next
    BY Zenon DEF
        Group!processes, Group!supervisor, Group!May, Group!Group,
        Group!Members, Group!Killed, Group!Blame, Group!Create, Group!Spawn,
        Group!StartStep, Group!Abort, Group!Aborted, Group!Ask, Group!Seen,
        Group!ForceStop, Group!Crash, Group!Removes, Group!Sweep, Group!Cleanup,
        Group!Shut, Group!Join, Group!Withdraw, Group!Poll, Group!Reaped,
        Group!Final, Group!Close, Group!Tell, Group!Executed, Group!Fork,
        Group!Raise, Group!Ends, Group!Recover, Group!Next, GroupP!processes,
        GroupP!supervisor, GroupP!May, GroupP!Group, GroupP!Members,
        GroupP!Killed, GroupP!Blame, GroupP!Create, GroupP!Spawn,
        GroupP!StartStep, GroupP!Abort, GroupP!Aborted, GroupP!Ask, GroupP!Seen,
        GroupP!ForceStop, GroupP!Crash, GroupP!Removes, GroupP!Sweep,
        GroupP!Cleanup, GroupP!Shut, GroupP!Join, GroupP!Withdraw, GroupP!Poll,
        GroupP!Reaped, GroupP!Final, GroupP!Close, GroupP!Tell, GroupP!Executed,
        GroupP!Fork, GroupP!Raise, GroupP!Ends, GroupP!Recover, GroupP!Next
<1> QED BY <1>1, <1>2, <1>3

LEMMA SwiftSame ==
    /\ Swift!Init <=> SwiftP!Init
    /\ [Swift!Next]_(Swift!vars) <=> [SwiftP!Next]_(SwiftP!vars)
<1>1. Swift!Init <=> SwiftP!Init
    BY Zenon DEF Swift!Init, Swift!May, SwiftP!Init, SwiftP!May
<1>2. UNCHANGED Swift!vars <=> UNCHANGED SwiftP!vars
    BY Zenon DEF
        Swift!vars, Swift!processes, Swift!supervisor, SwiftP!vars,
        SwiftP!processes, SwiftP!supervisor
<1>3. Swift!Next <=> SwiftP!Next
    BY Zenon DEF
        Swift!processes, Swift!supervisor, Swift!May, Swift!Group,
        Swift!Members, Swift!Killed, Swift!Blame, Swift!Create, Swift!Spawn,
        Swift!StartStep, Swift!Abort, Swift!Aborted, Swift!Ask, Swift!Seen,
        Swift!ForceStop, Swift!Crash, Swift!Removes, Swift!Sweep, Swift!Cleanup,
        Swift!Shut, Swift!Join, Swift!Withdraw, Swift!Poll, Swift!Reaped,
        Swift!Final, Swift!Close, Swift!Tell, Swift!Executed, Swift!Fork,
        Swift!Raise, Swift!Ends, Swift!Recover, Swift!Next, SwiftP!processes,
        SwiftP!supervisor, SwiftP!May, SwiftP!Group, SwiftP!Members,
        SwiftP!Killed, SwiftP!Blame, SwiftP!Create, SwiftP!Spawn,
        SwiftP!StartStep, SwiftP!Abort, SwiftP!Aborted, SwiftP!Ask, SwiftP!Seen,
        SwiftP!ForceStop, SwiftP!Crash, SwiftP!Removes, SwiftP!Sweep,
        SwiftP!Cleanup, SwiftP!Shut, SwiftP!Join, SwiftP!Withdraw, SwiftP!Poll,
        SwiftP!Reaped, SwiftP!Final, SwiftP!Close, SwiftP!Tell, SwiftP!Executed,
        SwiftP!Fork, SwiftP!Raise, SwiftP!Ends, SwiftP!Recover, SwiftP!Next
<1> QED BY <1>1, <1>2, <1>3

GroupsInv == IF world = "swift" THEN SwiftP!GroupInv ELSE GroupP!GroupInv

LEMMA GroupsMove ==
    ASSUME [MCNext]_allVars
    PROVE  /\ world' = world
           /\ world = "swift" => [Swift!Next]_(Swift!vars)
           /\ world # "swift" => [Group!Next]_(Group!vars)
<1>1. UNCHANGED groupVars => UNCHANGED Group!vars /\ UNCHANGED Swift!vars
    BY
    DEF groupVars, Group!vars, Group!processes, Group!supervisor, Swift!vars,
        Swift!processes,
           Swift!supervisor
<1>2. CASE UNCHANGED allVars
    BY <1>1, <1>2 DEF allVars
<1>3. CASE MCNext
    BY <1>1, <1>3 DEF MCNext
<1> QED BY <1>2, <1>3

LEMMA GroupsStart == MCInit => GroupsInv
BY GroupSame, SwiftSame, GroupP!GroupInit, SwiftP!GroupInit DEF MCInit, GroupsInv

LEMMA GroupsStep == GroupsInv /\ [MCNext]_allVars => GroupsInv'
<1> SUFFICES ASSUME GroupsInv, [MCNext]_allVars PROVE GroupsInv'
    OBVIOUS
<1>1. CASE world = "swift"
    <2>1. /\ {"memory", "pids"} \subseteq SwiftP!Controllers
          /\ "unplanned" \notin {"fails", "cancelled", "crash"}
        BY DEF SwiftP!Controllers
    <2>2. SwiftP!GroupInv /\ [SwiftP!Next]_(SwiftP!vars) => SwiftP!GroupInv'
        BY <2>1, SwiftP!GroupKept
    <2> QED BY <1>1, <2>2, GroupsMove, SwiftSame DEF GroupsInv
<1>2. CASE world # "swift"
    <2>1. /\ {"memory"} \subseteq GroupP!Controllers
          /\ "unplanned" \notin {"cancelled", "slow", "old_kernel", "crash"}
        BY DEF GroupP!Controllers
    <2>2. GroupP!GroupInv /\ [GroupP!Next]_(GroupP!vars) => GroupP!GroupInv'
        BY <2>1, GroupP!GroupKept
    <2> QED BY <1>2, <2>2, GroupsMove, GroupSame DEF GroupsInv
<1> QED BY <1>1, <1>2

LEMMA GroupsAlways == MCSpec => []GroupsInv
BY MCSafety, GroupsStart, GroupsStep, PTL

LEMMA SwiftTold == SwiftP!GroupInv => Swift!GroupsAreTold
<1>1. {"memory", "pids"} \subseteq SwiftP!Controllers
    BY DEF SwiftP!Controllers
<1>2. SwiftP!GroupInv => SwiftP!GroupsAreTold
    BY <1>1, SwiftP!GroupTold
<1> QED BY <1>2, Zenon
    DEF Swift!GroupsAreTold, Swift!GroupsAreEmptied, Swift!LimitsAreBlamed, Swift!May,
        SwiftP!GroupsAreTold, SwiftP!GroupsAreEmptied, SwiftP!LimitsAreBlamed, SwiftP!May

LEMMA GroupTold == GroupP!GroupInv => Group!GroupsAreTold
<1>1. {"memory"} \subseteq GroupP!Controllers
    BY DEF GroupP!Controllers
<1>2. GroupP!GroupInv => GroupP!GroupsAreTold
    BY <1>1, GroupP!GroupTold
<1> QED BY <1>2, Zenon
    DEF Group!GroupsAreTold, Group!GroupsAreEmptied, Group!LimitsAreBlamed, Group!May,
        GroupP!GroupsAreTold, GroupP!GroupsAreEmptied, GroupP!LimitsAreBlamed, GroupP!May

(* What the backends tell of a container, of a job and of a group is true, *)
(* whatever fails and whoever dies (ContainerBackend, WindowsBackend,      *)
(* posix_cgroup).                                                          *)
THEOREM BackendsAlwaysTell == MCSpec => []BackendsTellTruly
<1>1. JobsInv => Job!JobsAreTold
    BY DEF JobsInv, Job!JobsAreTold, Job!SuspendedUntilDurable, Job!NothingEscapes,
           Job!RecoveryIsTrue, Job!OutputIsRead, Job!Runs, Job!TypeOK, Job!Flags, StartInv, JobInv,
           OutputInv, RowInv, RecoverInv
<1>2. ContainerInv /\ JobsInv /\ GroupsInv => BackendsTellTruly
    BY <1>1, SwiftTold, GroupTold DEF ContainerInv, GroupsInv, BackendsTellTruly
<1> QED BY <1>2, ContainerAlways, JobsAlways, GroupsAlways, PTL

-----------------------------------------------------------------------------
(* The types of every component, in every world.                           *)
LEMMA AloneTyped == AloneP!TruthInv => Alone!TypeOK
<1>1. /\ AloneP!Stages = Alone!Stages /\ AloneP!Snapshots = Alone!Snapshots /\ AloneP!Steps = Alone!Steps
      /\ AloneP!RecoveryOutcomes = Alone!RecoveryOutcomes /\ AloneP!Rows = Alone!Rows
      /\ AloneP!Leases = Alone!Leases /\ AloneP!Pcs = Alone!Pcs /\ AloneP!Commands = Alone!Commands
    BY Zenon DEF
        AloneP!Stages, AloneP!Snapshots, AloneP!Steps, AloneP!RecoveryOutcomes,
        AloneP!Rows, AloneP!Phases, AloneP!Outcomes,
        AloneP!PreExecutionOutcomes, AloneP!CommandOutcomes, AloneP!EventTypes,
        AloneP!Leases, AloneP!Pcs, AloneP!Commands, Alone!Stages,
        Alone!Snapshots, Alone!Steps, Alone!RecoveryOutcomes, Alone!Rows,
        Alone!Phases, Alone!Outcomes, Alone!PreExecutionOutcomes,
        Alone!CommandOutcomes, Alone!EventTypes, Alone!Leases, Alone!Pcs,
        Alone!Commands
<1> QED BY <1>1 DEF AloneP!TruthInv, AloneP!Typed, Alone!TypeOK

LEMMA FullTyped == FullP!TruthInv => Alone!TypeOK
<1>1. /\ FullP!Stages = Alone!Stages /\ FullP!Snapshots = Alone!Snapshots /\ FullP!Steps = Alone!Steps
      /\ FullP!RecoveryOutcomes = Alone!RecoveryOutcomes /\ FullP!Rows = Alone!Rows
      /\ FullP!Leases = Alone!Leases /\ FullP!Pcs = Alone!Pcs /\ FullP!Commands = Alone!Commands
    BY Zenon DEF
        FullP!Stages, FullP!Snapshots, FullP!Steps, FullP!RecoveryOutcomes,
        FullP!Rows, FullP!Phases, FullP!Outcomes, FullP!PreExecutionOutcomes,
        FullP!CommandOutcomes, FullP!EventTypes, FullP!Leases, FullP!Pcs,
        FullP!Commands, Alone!Stages, Alone!Snapshots, Alone!Steps,
        Alone!RecoveryOutcomes, Alone!Rows, Alone!Phases, Alone!Outcomes,
        Alone!PreExecutionOutcomes, Alone!CommandOutcomes, Alone!EventTypes,
        Alone!Leases, Alone!Pcs, Alone!Commands
<1> QED BY <1>1 DEF FullP!TruthInv, FullP!Typed, Alone!TypeOK

LEMMA OverlapTyped == OverlapP!TruthInv => Overlap!TypeOK
<1>1. /\ OverlapP!Stages = Overlap!Stages /\ OverlapP!Snapshots = Overlap!Snapshots /\ OverlapP!Steps = Overlap!Steps
      /\ OverlapP!RecoveryOutcomes = Overlap!RecoveryOutcomes /\ OverlapP!Rows = Overlap!Rows
      /\ OverlapP!Leases = Overlap!Leases /\ OverlapP!Pcs = Overlap!Pcs /\ OverlapP!Commands = Overlap!Commands
    BY Zenon DEF
        OverlapP!Stages, OverlapP!Snapshots, OverlapP!Steps,
        OverlapP!RecoveryOutcomes, OverlapP!Rows, OverlapP!Phases,
        OverlapP!Outcomes, OverlapP!PreExecutionOutcomes,
        OverlapP!CommandOutcomes, OverlapP!EventTypes, OverlapP!Leases,
        OverlapP!Pcs, OverlapP!Commands, Overlap!Stages, Overlap!Snapshots,
        Overlap!Steps, Overlap!RecoveryOutcomes, Overlap!Rows, Overlap!Phases,
        Overlap!Outcomes, Overlap!PreExecutionOutcomes, Overlap!CommandOutcomes,
        Overlap!EventTypes, Overlap!Leases, Overlap!Pcs, Overlap!Commands
<1> QED BY <1>1 DEF OverlapP!TruthInv, OverlapP!Typed, Overlap!TypeOK

(* TypeOK of the launch, of the container and of the recovery.             *)
THEOREM AlwaysWellTyped == MCSpec => []WellTyped
<1>1. LaunchesInv /\ ContainerInv /\ StartupsInv => WellTyped
    <2> SUFFICES ASSUME LaunchesInv, ContainerInv, StartupsInv PROVE WellTyped
        OBVIOUS
    <2>1. TypeOK
        BY TypesTyped DEF LaunchesInv
    <2>2. Container!TypeOK
        BY DEF ContainerInv
    <2>3. IF world = "overlap" THEN Overlap!TypeOK ELSE Alone!TypeOK
        BY AloneTyped, FullTyped, OverlapTyped
        DEF StartupsInv, AloneP!LoneInv, FullP!LoneInv, OverlapP!SharedInv
    <2> QED BY <2>1, <2>2, <2>3 DEF WellTyped
<1> QED BY <1>1, LaunchesAlways, ContainerAlways, StartupsAlways, PTL
=============================================================================
