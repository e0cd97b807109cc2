------------------------------- MODULE Sessions -------------------------------
(***************************************************************************)
(* Saved conversations: session/store.py (one SQLite database for every    *)
(* window), session/manager.py (the session a window works on and the      *)
(* summary it remembers of it), tui/app.py (who calls it, and when).       *)
(*                                                                         *)
(* Every store operation is a transaction of its own.  A manager operation *)
(* is several of them, and an error of a later one leaves what the earlier *)
(* ones did.                                                               *)
(***************************************************************************)
EXTENDS Naturals, Sequences, FiniteSets, SequencesExt, Functions

CONSTANTS
    Windows,      \* running TrueCoders of one project
    MaxSessions,  \* sessions ever created
    MaxTurns,     \* turns ever completed
    Faults        \* "fails", "half", "cancel", "crash"

VARIABLES
    db,       \* sessions and their turns: id -> [turns, title]
    window,   \* what a window has: [on, id, count, turns, due]
    minted,   \* ids used
    spoken,   \* turns completed
    saved,    \* <<id, turn>> committed
    trashed,  \* sessions the user deleted
    shared    \* sessions two windows have been on at once

vars == <<db, window, minted, spoken, saved, trashed, shared>>

Off == [on |-> FALSE, id |-> 0, count |-> 0, turns |-> <<>>, due |-> FALSE]

Ids == DOMAIN db
Without(f, id) == Restrict(f, DOMAIN f \ {id})
With(f, id, row) == [i \in DOMAIN f \cup {id} |-> IF i = id THEN row ELSE f[i]]

(* A window that is open and not in a turn.                                *)
Idle(w) == window[w].on /\ ~window[w].due

Others(w) == {window[v].id : v \in {u \in Windows \ {w} : window[u].on}}

(* Whether the window still works on a session after this step.            *)
Meets(w, id) == shared' = IF id \in Others(w) THEN shared \cup {id} ELSE shared

----------------------------------------------------------------------------
(* SQLiteSessionStore *)

NewRow == [turns |-> <<>>, title |-> "new"]

(* create_session                                                          *)
Creates(base) == With(base, minted + 1, NewRow)

(* save_completed_turns: the turns the database does not have yet.  Fewer  *)
(* turns than the database has is an error.                                *)
Accepts(id, turns) == id \in Ids /\ Len(db[id].turns) <= Len(turns)

(* Mutant: the whole conversation is inserted after what is stored.        *)
MutantExtended(stored, turns) == stored \o turns

Extended(stored, turns) == stored \o SubSeq(turns, Len(stored) + 1, Len(turns))

(* The first prompt becomes the title, once and never over a custom one.   *)
AutoTitle(row) == IF row.title = "new" /\ row.turns # <<>> THEN "auto" ELSE row.title

Titled(row) == [row EXCEPT !.title = AutoTitle(row)]

(* _delete_if_empty goes by the remembered count.                          *)
Emptied(base, id, count) == IF count = 0 THEN Without(base, id) ELSE base

----------------------------------------------------------------------------
Init ==
    /\ db = <<>> /\ window = [w \in Windows |-> Off] /\ minted = 0
    /\ spoken = 0
    /\ saved = {} /\ trashed = {} /\ shared = {}

(* SessionManager.__init__: a session of its own.                          *)
Open(w) ==
    /\ ~window[w].on /\ minted < MaxSessions
    /\ db' = Creates(db) /\ minted' = minted + 1
    /\ window' = [window EXCEPT ![w] = [Off EXCEPT !.on = TRUE, !.id = minted + 1]]
    /\ UNCHANGED <<spoken, saved, trashed, shared>>

(* The turn is complete; the save follows, after an await.                 *)
Speak(w) ==
    /\ Idle(w) /\ spoken < MaxTurns
    /\ spoken' = spoken + 1
    /\ window' = [window EXCEPT ![w].turns = Append(@, spoken + 1), ![w].due = TRUE]
    /\ UNCHANGED <<db, minted, saved, trashed, shared>>

(* A cancellation in between: the save is skipped.                         *)
SaveSkipped(w) ==
    /\ "cancel" \in Faults /\ window[w].due
    /\ window' = [window EXCEPT ![w].due = FALSE]
    /\ UNCHANGED <<db, minted, spoken, saved, trashed, shared>>

Committed(id, turns) == saved' = saved \cup {<<id, t>> : t \in Range(turns)}

Save(w) ==
    LET id == window[w].id
        row == [db[id] EXCEPT !.turns = Extended(@, window[w].turns)]
    IN  /\ window[w].due /\ Accepts(id, window[w].turns)
        /\ db' = [db EXCEPT ![id] = Titled(row)]
        /\ Committed(id, row.turns)
        /\ window' = [window EXCEPT ![w].due = FALSE, ![w].count = Len(row.turns)]
        /\ UNCHANGED <<minted, spoken, trashed, shared>>

(* SessionError: a busy or full database, a session that is gone, one that *)
(* has more turns than the window.                                         *)
SaveFails(w) ==
    /\ window[w].due /\ ("fails" \in Faults \/ ~Accepts(window[w].id, window[w].turns))
    /\ window' = [window EXCEPT ![w].due = FALSE]
    /\ UNCHANGED <<db, minted, spoken, saved, trashed, shared>>

(* The turns are committed; the summary cannot be read, or the title not   *)
(* be written, and the error leaves the remembered summary as it was.      *)
SaveHalfDone(w) ==
    LET id == window[w].id
        row == [db[id] EXCEPT !.turns = Extended(@, window[w].turns)]
    IN  /\ "half" \in Faults
        /\ window[w].due /\ Accepts(id, window[w].turns) /\ row # db[id]
        /\ db' = [db EXCEPT ![id] = row]
        /\ Committed(id, row.turns)
        /\ window' = [window EXCEPT ![w].due = FALSE]
        /\ UNCHANGED <<minted, spoken, trashed, shared>>

(* New chat: the window forgets, and the session it leaves is deleted when *)
(* it is remembered as empty.                                              *)
NewChat(w) ==
    /\ Idle(w) /\ minted < MaxSessions
    /\ db' = Emptied(Creates(db), window[w].id, window[w].count) /\ minted' = minted + 1
    /\ window' = [window EXCEPT ![w] = [Off EXCEPT !.on = TRUE, !.id = minted + 1]]
    /\ UNCHANGED <<spoken, saved, trashed, shared>>

(* The new session is there, the old one cannot be deleted.                *)
NewChatHalfDone(w) ==
    /\ "half" \in Faults /\ Idle(w) /\ window[w].count = 0 /\ minted < MaxSessions
    /\ db' = Creates(db) /\ minted' = minted + 1
    /\ window' = [window EXCEPT ![w] = [Off EXCEPT !.on = TRUE, !.id = minted + 1]]
    /\ UNCHANGED <<spoken, saved, trashed, shared>>

Loaded(w, id) == db[id].turns

Switch(w, id) ==
    /\ Idle(w) /\ id \in Ids
    /\ window' = [window EXCEPT ![w].id = id, ![w].count = Len(db[id].turns),
                                ![w].turns = Loaded(w, id)]
    /\ db' = IF id = window[w].id THEN db ELSE Emptied(db, window[w].id, window[w].count)
    /\ Meets(w, id)
    /\ UNCHANGED <<minted, spoken, saved, trashed>>

Rename(w, id) ==
    /\ Idle(w) /\ id \in Ids /\ db[id].title # "custom"
    /\ db' = [db EXCEPT ![id].title = "custom"]
    /\ window' = IF id = window[w].id THEN [window EXCEPT ![w].count = Len(db[id].turns)] ELSE window
    /\ UNCHANGED <<minted, spoken, saved, trashed, shared>>

(* Deleting the active session starts a new one.                           *)
Delete(w, id) ==
    /\ Idle(w) /\ id \in Ids
    /\ trashed' = trashed \cup {id}
    /\ IF id # window[w].id
       THEN db' = Without(db, id) /\ UNCHANGED <<window, minted>>
       ELSE /\ minted < MaxSessions /\ minted' = minted + 1
            /\ db' = Creates(Without(db, id))
            /\ window' = [window EXCEPT ![w] = [Off EXCEPT !.on = TRUE, !.id = minted + 1]]
    /\ UNCHANGED <<spoken, saved, shared>>

(* The active session is gone and no other takes its place: the window     *)
(* keeps the summary of a session that does not exist.                     *)
DeleteHalfDone(w) ==
    /\ "half" \in Faults /\ Idle(w) /\ window[w].id \in Ids
    /\ trashed' = trashed \cup {window[w].id}
    /\ db' = Without(db, window[w].id)
    /\ window' = [window EXCEPT ![w].turns = <<>>]
    /\ UNCHANGED <<minted, spoken, saved, shared>>

(* on_unmount, after a save that is due or without it.                     *)
Close(w) ==
    /\ Idle(w)
    /\ db' = Emptied(db, window[w].id, window[w].count)
    /\ window' = [window EXCEPT ![w] = Off]
    /\ UNCHANGED <<minted, spoken, saved, trashed, shared>>

Crash(w) ==
    /\ "crash" \in Faults /\ window[w].on
    /\ window' = [window EXCEPT ![w] = Off]
    /\ UNCHANGED <<db, minted, spoken, saved, trashed, shared>>

Next == \E w \in Windows :
    \/ Open(w) \/ Speak(w) \/ Save(w) \/ SaveSkipped(w) \/ SaveFails(w) \/ SaveHalfDone(w)
    \/ NewChat(w) \/ NewChatHalfDone(w) \/ DeleteHalfDone(w) \/ Close(w) \/ Crash(w)
    \/ \E id \in Ids : Switch(w, id) \/ Rename(w, id) \/ Delete(w, id)

Spec == Init /\ [][Next]_vars

----------------------------------------------------------------------------
(* What the database has of a session is the beginning of the conversation *)
(* the window shows, in order and once, whatever save was skipped, failed  *)
(* or done half before it; and a save that is reported has left nothing    *)
(* out.  Sessions that two windows work on at once are left out.           *)
StoredIsConversation == \A w \in Windows :
    LET id == window[w].id IN
    window[w].on /\ id \in Ids \ shared =>
        /\ IsPrefix(db[id].turns, window[w].turns)
        /\ window[w].count <= Len(db[id].turns)

(* docs/ARCHITECTURE.md: closing, or starting a new chat, removes a        *)
(* session that still has no completed turns.  So a turn that was saved    *)
(* stays saved until the user deletes its session.                         *)
SavedTurnsStay == \A s \in saved :
    \/ s[1] \in trashed
    \/ s[1] \in Ids /\ s[2] \in Range(db[s[1]].turns)
===============================================================================
