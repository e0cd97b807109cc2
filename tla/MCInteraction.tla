---------------------------- MODULE MCInteraction ----------------------------
(***************************************************************************)
(* What stands between the user and the model, checked side by side: the   *)
(* agent's turns, stored sessions, checkpoints, file mutations, the        *)
(* conversation that is sent, the publisher of lifecycle events, signing   *)
(* in, remembered notes and stored credentials.  The components share no   *)
(* state here.  A world is one of them: it moves, the others stay in their *)
(* initial states.                                                         *)
(***************************************************************************)
EXTENDS LifecyclePublisher, Sequences

CONSTANTS
    Prompts, Iterations, Chats, Batches, Scopes, Hooked,  \* AgentTurn
    Windows, Sessions, Exchanges,                         \* Sessions
    Paths, Contents, Ignored, Limit, Edits, Captures,     \* Checkpoints
    Writes, ByOthers,                                     \* FileMutation
    Budget, Ceiling, Envelope, System, Summary, Plan,     \* Conversation
    Texts, Results, Exchanged, KeepRecent, Identical,
    Changing, Signatures, MaxRounds,
    Time, Expiry, Pauses, Usual, Shortest, Interval,      \* SignIn
    Slowing, Flows,
    NoteWindows, Workspace, Notes, Kept, Noting,          \* Memory
    Vendors, DefaultVendor, Variables, Legacy, Issuing    \* Credentials

VARIABLES
    world,
    selected, active, run, messages, owed, completed, grants, preauth, consumer,
    asking, chat, ui, effect,
    db, window, minted, spoken, saved, trashed, shared,
    work, index, refs, made, edits, turn, anchor, restore, capture, locked,
    file, call, temps, records, stamps,
    turns, covered, phase, composing, planned, request, rounds, monitor, stalled,
    view, target, credential, listed, current, flow, callback, dismissed, verdict,
    poll, now, flows,
    rows, version, opened, picked, recorded, told,
    keys, tokens, selection, environment, settings, save, issued, expired, said

Agent == INSTANCE AgentTurn WITH
    pending <- messages, worker <- consumer,
    MaxTurns <- Prompts, MaxIterations <- Iterations, MaxChats <- Chats

Stored == INSTANCE Sessions WITH
    MaxSessions <- Sessions, MaxTurns <- Exchanges,
    Faults <- {"fails", "half", "cancel", "crash"}

Saved == INSTANCE Checkpoints WITH
    MaxEdits <- Edits, MaxCaptures <- Captures, Faults <- {"fails", "killed"}

Files == INSTANCE FileMutation WITH
    Calls <- Writes, MaxOutside <- ByOthers, Faults <- {"fails", "crash", "unreadable"}

Context == INSTANCE Conversation WITH pending <- composing, MaxTurns <- Exchanged

Account == INSTANCE SignIn WITH
    Providers <- {"p", "q"}, Brokered <- {"q"}, MaxTime <- Time,
    DefaultInterval <- Usual, MinInterval <- Shortest, MaxInterval <- Interval,
    SlowDownStep <- Slowing, MaxFlows <- Flows

Noted == INSTANCE Memory WITH
    window <- opened, answer <- told,
    Windows <- NoteWindows, Limit <- Kept, MaxRecorded <- Noting, Faults <- {}

Secret == INSTANCE Credentials WITH
    window <- settings, told <- said, Providers <- Vendors, Implied <- DefaultVendor,
    MaxIssued <- Issuing, Faults <- {"fails"}

(* A response that calls tools calls at least one; time is counted; there  *)
(* is room for the notes of an old database, of which there are two; sizes *)
(* are numbers of tokens, and a turn is not told that it repeats itself    *)
(* before it did anything.                                                 *)
ASSUME InteractionAssumption ==
    /\ Batches \subseteq Seq(Agent!Tools) \ {<<>>}
    /\ Expiry \in Nat /\ Pauses \subseteq Nat
    /\ Usual \in Nat /\ Shortest \in Nat /\ Interval \in Nat /\ Slowing \in Nat
    /\ Kept \in Nat /\ Kept >= 2
    /\ Budget \in Nat /\ Ceiling \in Nat /\ Envelope \in Nat
    /\ System \in Nat /\ Summary \in Nat /\ Plan \in Nat
    /\ Texts \subseteq Nat /\ Results \subseteq Nat /\ KeepRecent \in Nat
    /\ Identical \in Nat \ {0} /\ Changing \in Nat \ {0}

SomeBatches == {<<"write_file", "shell">>}

(* Two windows of one workspace would see each other's notes at once, so   *)
(* the second has its own; three keys, of which one is written two ways.   *)
SomeWorkspaces == [w |-> "a", u |-> "b"]
SomeNotes == {<<"k", 1>>, <<"k", 2>>, <<"l", 1>>, <<"m", 1>>}

agentVars ==
    <<selected, active, run, messages, owed, completed, grants, preauth, consumer,
      asking, chat, ui, effect>>
storedVars == <<db, window, minted, spoken, saved, trashed, shared>>
savedVars == <<work, index, refs, made, edits, turn, anchor, restore, capture, locked>>
fileVars == <<file, call, temps, records, stamps>>
contextVars ==
    <<turns, covered, phase, composing, planned, request, rounds, monitor, stalled>>
accountVars ==
    <<view, target, credential, listed, current, flow, callback, dismissed, verdict,
      poll, now, flows>>
notedVars == <<rows, version, opened, picked, recorded, told>>
secretVars == <<keys, tokens, selection, environment, settings, save, issued, expired, said>>
allVars ==
    <<world, vars, agentVars, storedVars, savedVars, fileVars, contextVars,
      accountVars, notedVars, secretVars>>

Some(set) == CHOOSE x \in set : TRUE

MCInit ==
    /\ world \in {"publisher", "agent", "sessions", "checkpoints", "files", "context",
                 "account", "notes", "secrets"}
    /\ Init /\ Context!Init /\ Stored!Init
    /\ Agent!Init /\ (world = "agent" \/ selected = "build")
    /\ Saved!Init /\ (world = "checkpoints" \/ work = Saved!Absent)
    /\ Files!Init /\ (world = "files" \/ file = Files!NoFile)
    /\ Account!Init
    /\ \/ world = "account"
       \/ target = "p" /\ current = "p" /\ credential = [p \in {"p", "q"} |-> FALSE]
    /\ Noted!Init /\ (world = "notes" \/ version = 0)
    /\ Secret!Init
    /\ \/ world = "secrets"
       \/ keys = Secret!Nothing /\ environment = Some(Secret!Environments)

MCNext ==
    /\ UNCHANGED world
    /\ \/ /\ world = "publisher" /\ Next
          /\ UNCHANGED <<agentVars, storedVars, savedVars, fileVars, contextVars,
                        accountVars, notedVars, secretVars>>
       \/ /\ world = "agent" /\ Agent!Next
          /\ UNCHANGED <<vars, storedVars, savedVars, fileVars, contextVars,
                        accountVars, notedVars, secretVars>>
       \/ /\ world = "sessions" /\ Stored!Next
          /\ UNCHANGED <<vars, agentVars, savedVars, fileVars, contextVars,
                        accountVars, notedVars, secretVars>>
       \/ /\ world = "checkpoints" /\ Saved!Next
          /\ UNCHANGED <<vars, agentVars, storedVars, fileVars, contextVars,
                        accountVars, notedVars, secretVars>>
       \/ /\ world = "files" /\ Files!Next
          /\ UNCHANGED <<vars, agentVars, storedVars, savedVars, contextVars,
                        accountVars, notedVars, secretVars>>
       \/ /\ world = "context" /\ Context!Next
          /\ UNCHANGED <<vars, agentVars, storedVars, savedVars, fileVars,
                        accountVars, notedVars, secretVars>>
       \/ /\ world = "account" /\ Account!Next
          /\ UNCHANGED <<vars, agentVars, storedVars, savedVars, fileVars,
                        contextVars, notedVars, secretVars>>
       \/ /\ world = "notes" /\ Noted!Next
          /\ UNCHANGED <<vars, agentVars, storedVars, savedVars, fileVars,
                        contextVars, accountVars, secretVars>>
       \/ /\ world = "secrets" /\ Secret!Next
          /\ UNCHANGED <<vars, agentVars, storedVars, savedVars, fileVars,
                        contextVars, accountVars, notedVars>>

MCSpec == MCInit /\ [][MCNext]_allVars

-----------------------------------------------------------------------------
(* AgentTurn: the turns of one chat do not overlap in the history or at    *)
(* the turn slot, whatever is cancelled.                                   *)
OneTurnAtATime == Agent!OneTurnAtATime

(* AgentTurn: a tool runs only in a mode that allows it and with an        *)
(* approval that covers it.                                                *)
EffectsAreAllowed == Agent!EffectsAreAllowed

(* AgentTurn: a turn submitted in Plan mode runs no tool that mode         *)
(* withholds (docs/ARCHITECTURE.md).                                       *)
PlanWithholds == Agent!PlanWithholds

(* AgentTurn: every call the model has made is answered in the history.    *)
HistoryIsWhole == Agent!HistoryIsWhole

(* Sessions: what is stored of a session is a prefix of what was said.     *)
StoredIsConversation == Stored!StoredIsConversation

(* Checkpoints, FileMutation: a restore can be undone, and an edit loses   *)
(* nothing it could have seen.                                             *)
WorkIsKept == Saved!RestoreIsUndoable /\ Files!EditsLoseNothing

(* Conversation: the request is the longest history that fits, and a turn  *)
(* that gets nowhere is stopped, no other is.                              *)
ContextIsSound == Context!RequestIsBest /\ Context!StallsAreSeen

(* SignIn: only the sign-in the user asked for, and its answer, decides    *)
(* what is shown and stored.                                               *)
SignInIsHonest == Account!SignInIsHonest

(* Memory: a correction replaces what it corrects and nothing else goes.   *)
(* Credentials: what the window said it stored is stored, and the next     *)
(* start finds it.                                                         *)
StoresAreKept == Noted!MemoryIsKept /\ Secret!CredentialsAreKept
=============================================================================
