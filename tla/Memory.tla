---------------------------------- MODULE Memory ----------------------------------
(***************************************************************************)
(* The notes that outlive a conversation: memory/store.py, the two tools   *)
(* of tools/builtin/memory.py and the browser of tui/app.py.  Several      *)
(* windows, each of one workspace, share one SQLite file.  A transaction   *)
(* is one action; one that fails, or is cut short by a crash, changes      *)
(* nothing and is a stuttering step.                                       *)
(***************************************************************************)
EXTENDS Naturals, FiniteSets

CONSTANTS
    Windows, Workspace,   \* the workspace of each window
    Notes,                \* each is <<key, form>>
    Limit,                \* MemoryStore._limit
    MaxRecorded,
    Faults                \* "clock_back": the clock is set back

VARIABLES
    rows,     \* memory_entries; id is the entry_id, in the order of the rowids
    version,  \* PRAGMA user_version
    window,   \* what each window knows of the database
    picked,   \* what its browser was told to delete: an entry, or all
    recorded,
    answer    \* of the tool, in the step that records a note

vars == <<rows, version, window, picked, recorded, answer>>

Keys == {note[1] : note \in Notes}
Workspaces == {Workspace[w] : w \in Windows}
NotOpen == [pc |-> "closed", seen |-> 0, fetched |-> {}]
Open == [NotOpen EXCEPT !.pc = "open"]
All == 0
NoAnswer == [ws |-> "none", note |-> <<"none", 0>>, replaces |-> "none"]

(* note_key: case, runs of white space and closing punctuation do not      *)
(* tell two notes apart.                                                   *)
NoteKey(note) == note[1]

Row(id, ws, note, at) == [id |-> id, ws |-> ws, note |-> note, key |-> NoteKey(note), at |-> at]
Unkeyed(row) == [row EXCEPT !.key = ""]
Ids(s) == {r.id : r \in s}
Those(ws, key, s) == {r \in s : r.ws = ws /\ r.key = key}

(* A database of the first version, which told notes apart by their text.  *)
OldRows(ws) ==
    {{}} \cup {{Row(1, ws, pair[1], 1), Row(2, ws, pair[2], 2)} :
                pair \in {both \in Notes \X Notes : both[1] # both[2]}}

Init ==
    /\ \/ version = 0 /\ rows = {}
       \/ /\ version = 1
          /\ \E ws \in Workspaces : \E old \in OldRows(ws) :
                rows = {Unkeyed(r) : r \in old}
    /\ window = [w \in Windows |-> NotOpen] /\ picked = [w \in Windows |-> {}]
    /\ recorded = Cardinality(rows) /\ answer = NoAnswer

At(w, pc) == window[w].pc = pc

----------------------------------------------------------------------------
(* _initialize: the version is read, and of a database of the first one    *)
(* the rows, before the transaction that changes them.                     *)
ReadVersion(w) ==
    /\ At(w, "closed")
    /\ window' = [window EXCEPT ![w] = IF version = 2 THEN Open
                                       ELSE [NotOpen EXCEPT !.pc = "read", !.seen = version]]
    /\ UNCHANGED <<rows, version, picked, recorded>> /\ answer' = NoAnswer

Fetch(w) ==
    /\ At(w, "read") /\ window[w].seen = 1
    /\ window' = [window EXCEPT ![w].pc = "fetched", ![w].fetched = rows]
    /\ UNCHANGED <<rows, version, picked, recorded>> /\ answer' = NoAnswer

(* executescript(_SCHEMA_SQL): CREATE TABLE fails on a table that exists.  *)
Create(w) ==
    /\ At(w, "read") /\ window[w].seen = 0
    /\ version' = IF version = 0 THEN 2 ELSE version
    /\ window' = [window EXCEPT ![w] = IF version = 0 THEN Open ELSE NotOpen]
    /\ UNCHANGED <<rows, picked, recorded>> /\ answer' = NoAnswer

(* The entry that keeps the key: the last of those that share it.          *)
MutantSurvives(row, s) == TRUE
Survives(row, s) ==
    \A r \in s : r.ws = row.ws /\ NoteKey(r.note) = NoteKey(row.note) => r.id <= row.id

Keyed(fetched, s) ==
    LET Goes(row) == \E f \in fetched : f.id = row.id /\ ~Survives(f, fetched)
        Key(row) == IF row.id \in Ids(fetched) THEN [row EXCEPT !.key = NoteKey(row.note)] ELSE row
    IN  {Key(row) : row \in {r \in s : ~Goes(r)}}

(* _migrate_to_keys: ALTER TABLE fails when another window did it first.   *)
Migrate(w) ==
    /\ At(w, "fetched")
    /\ IF version = 1
       THEN /\ rows' = Keyed(window[w].fetched, rows) /\ version' = 2
            /\ window' = [window EXCEPT ![w] = Open]
       ELSE /\ window' = [window EXCEPT ![w] = NotOpen]
            /\ UNCHANGED <<rows, version>>
    /\ UNCHANGED <<picked, recorded>> /\ answer' = NoAnswer

Close(w) ==
    /\ ~At(w, "closed")
    /\ window' = [window EXCEPT ![w] = NotOpen] /\ picked' = [picked EXCEPT ![w] = {}]
    /\ UNCHANGED <<rows, version, recorded>> /\ answer' = NoAnswer

----------------------------------------------------------------------------
(* remember: what it replaces goes, the note comes, the oldest go, in one  *)
(* transaction.  A note that is there keeps its place and its time.        *)
Superseded(ws, note, replaces, s) ==
    {r \in s : ~(r.ws = ws /\ r.key = replaces /\ replaces # NoteKey(note))}

MutantUpserted(ws, note, at, s) == s \cup {Row(recorded + 1, ws, note, at)}
Upserted(ws, note, at, s) ==
    LET there == Those(ws, NoteKey(note), s)
    IN  IF there = {} THEN s \cup {Row(recorded + 1, ws, note, at)}
        ELSE {IF r \in there THEN [r EXCEPT !.note = note] ELSE r : r \in s}

Newer(p, q) == p.at > q.at \/ (p.at = q.at /\ p.id > q.id)

(* _prune *)
MutantPruned(ws, s) == {r \in s : Cardinality({q \in s : Newer(q, r)}) < Limit}
Pruned(ws, s) ==
    {r \in s : \/ r.ws # ws
               \/ Cardinality({q \in s : q.ws = ws /\ Newer(q, r)}) < Limit}

(* created_at *)
Clock == IF "clock_back" \in Faults THEN 0..recorded + 1 ELSE {recorded + 1}

Remember(w, note, replaces, at) ==
    LET ws == Workspace[w]
    IN  /\ At(w, "open") /\ recorded < MaxRecorded
        /\ rows' = Pruned(ws, Upserted(ws, note, at, Superseded(ws, note, replaces, rows)))
        /\ recorded' = recorded + 1
        /\ answer' = [ws |-> ws, note |-> note, replaces |-> replaces]
        /\ UNCHANGED <<version, window, picked>>

(* forget_note: find by the key, then delete the entry that was found.     *)
Forget(w, key) ==
    /\ At(w, "open")
    /\ rows' = rows \ Those(Workspace[w], key, rows)
    /\ UNCHANGED <<version, window, picked, recorded>> /\ answer' = NoAnswer

(* action_manage_memory: the browser lists what there is when it opens;    *)
(* an entry of it is picked, or all.                                       *)
Pick(w, ids) ==
    /\ At(w, "open") /\ picked[w] = {}
    /\ picked' = [picked EXCEPT ![w] = ids]
    /\ UNCHANGED <<rows, version, window, recorded>> /\ answer' = NoAnswer

(* _handle_memory_action: that entry, or all that there are by now.        *)
MutantDeletes(w, row) == picked[w] = {All} \/ row.id \in picked[w]
Deletes(w, row) == row.ws = Workspace[w] /\ (picked[w] = {All} \/ row.id \in picked[w])

DeletePicked(w) ==
    /\ picked[w] # {}
    /\ rows' = {r \in rows : ~Deletes(w, r)}
    /\ picked' = [picked EXCEPT ![w] = {}]
    /\ UNCHANGED <<version, window, recorded>> /\ answer' = NoAnswer

Next ==
    \/ \E w \in Windows :
          \/ ReadVersion(w) \/ Fetch(w) \/ Create(w) \/ Migrate(w) \/ Close(w)
          \/ Pick(w, {All}) \/ \E r \in rows : r.ws = Workspace[w] /\ Pick(w, {r.id})
          \/ DeletePicked(w)
          \/ \E key \in Keys : Forget(w, key)
          \/ \E note \in Notes, replaces \in Keys \cup {"none"}, at \in Clock :
                Remember(w, note, replaces, at)

Spec == Init /\ [][Next]_vars

----------------------------------------------------------------------------
(* With the keys installed there is one note of a key in a workspace, as   *)
(* it was last written, and no more of them than the limit.                *)
OneNotePerKey ==
    version = 2 =>
        /\ \A r, s \in rows : r.ws = s.ws /\ r.key = s.key => r = s
        /\ \A ws \in Workspaces : Cardinality({r \in rows : r.ws = ws}) <= Limit

Gone == {r \in rows : r.id \notin Ids(rows')}
Left(ws) == {r \in rows' : r.ws = ws}

(* A correction leaves the new note and not the one it replaces, and       *)
(* beyond those it removes only what is no newer than all that stay.       *)
CorrectionIsWhole ==
    answer' # NoAnswer =>
        /\ \E r \in Left(answer'.ws) : r.note = answer'.note
        /\ answer'.replaces # NoteKey(answer'.note) =>
              \A r \in Left(answer'.ws) : r.key # answer'.replaces
        /\ \A r \in Gone :
              /\ r.ws = answer'.ws
              /\ r.key = answer'.replaces \/ \A kept \in Left(r.ws) : r.at <= kept.at

(* A migration removes only a note that has a newer one of its key, and no *)
(* other step touches the notes of two workspaces.                         *)
OnlyItsOwn ==
    /\ version # version' =>
          \A r \in Gone : \E kept \in rows' :
              kept.ws = r.ws /\ kept.key = NoteKey(r.note) /\ kept.id > r.id
    /\ \A w \in Windows :
          Gone # {} /\ (DeletePicked(w) \/ \E k \in Keys : Forget(w, k)) =>
              \A r \in Gone : r.ws = Workspace[w]

MemoryIsKept == []OneNotePerKey /\ [][CorrectionIsWhole /\ OnlyItsOwn]_vars
=============================================================================
