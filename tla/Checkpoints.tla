----------------------------- MODULE Checkpoints -----------------------------
(***************************************************************************)
(* Checkpoints of the workspace: checkpoint/git.py (trees, refs, the       *)
(* restore), checkpoint/service.py (capture, prune, restore), the capture  *)
(* at the start of a turn and the anchor of its diff (agent/agent.py), the *)
(* restore the user asks for (tui/app.py).                                 *)
(*                                                                         *)
(* A workspace is a function from paths to contents.  Every git command is *)
(* awaited, may fail and may be killed by its timeout.                     *)
(***************************************************************************)
EXTENDS Naturals, FiniteSets

CONSTANTS
    Paths, Contents,
    Ignored,      \* the paths .gitignore names
    Limit,        \* MAX_CHECKPOINTS
    MaxEdits,     \* changes to the workspace
    MaxCaptures,  \* checkpoints ever made
    Faults        \* "fails", "killed", "forced", "together"

VARIABLES
    work,     \* the files
    index,    \* the paths git tracks
    refs,     \* the checkpoints: [id, tree], the ids in the order of their creation
    made,     \* checkpoints made
    edits,    \* edits made
    turn,     \* "none", "capture", "runs"
    anchor,   \* Agent.turn_checkpoint, its tree
    restore,  \* the restore under way: [pc, tree], "none" when there is none
    capture,  \* the captures under way, by task: [pc, tree, existing]
    locked    \* a killed git has left index.lock behind

vars == <<work, index, refs, made, edits, turn, anchor, restore, capture, locked>>

Tasks == {"turn", "restore"}
Absent == [p \in Paths |-> "none"]
NoCapture == [pc |-> "none", tree |-> Absent, existing |-> {}]
NoRestore == [pc |-> "none", tree |-> Absent]

----------------------------------------------------------------------------
(* git *)

(* snapshot_tree: add --all into an index that starts empty.               *)
Snapshot == [p \in Paths |-> IF p \in Ignored THEN "none" ELSE work[p]]

In(tree) == {p \in Paths : tree[p] # "none"}

(* read-tree -u --reset: the files of the tree are written, tracked files  *)
(* that are not in it go, others stay.                                     *)
Reset(tree, files, tracked) ==
    [p \in Paths |-> IF p \in In(tree) THEN tree[p]
                     ELSE IF p \in tracked THEN "none" ELSE files[p]]

(* Killed while it writes: some files are done, the index is not.          *)
HalfReset(tree, done) ==
    [p \in Paths |-> IF p \in done THEN Reset(tree, work, index)[p] ELSE work[p]]

----------------------------------------------------------------------------
Init ==
    /\ work \in [Paths -> Contents \cup {"none"}]
    /\ index = In(Snapshot)
    /\ refs = {} /\ made = 0 /\ edits = 0
    /\ turn = "none" /\ anchor = <<>>
    /\ restore = NoRestore
    /\ capture = [t \in Tasks |-> NoCapture]
    /\ locked = FALSE

(* A turn that may change files captures first; Plan does not, and keeps   *)
(* the anchor of the turn before it.                                       *)
StartTurn ==
    /\ turn = "none" /\ (restore.pc = "none" \/ "together" \in Faults)
    /\ \/ turn' = "capture" /\ capture' = [capture EXCEPT !["turn"] = [NoCapture EXCEPT !.pc = "snapshot"]]
       \/ turn' = "runs" /\ UNCHANGED capture
    /\ UNCHANGED <<work, index, refs, made, edits, anchor, restore, locked>>

EndTurn ==
    /\ turn = "runs" /\ turn' = "none"
    /\ UNCHANGED <<work, index, refs, made, edits, anchor, restore, capture, locked>>

(* The turn's tools, or the user between turns.                            *)
Edit(p) ==
    /\ edits < MaxEdits /\ (restore.pc = "none" \/ "together" \in Faults)
    /\ \E c \in (Contents \cup {"none"}) \ {work[p]} : work' = [work EXCEPT ![p] = c]
    /\ edits' = edits + 1
    /\ UNCHANGED <<index, refs, made, turn, anchor, restore, capture, locked>>

(* git add; an ignored file only with --force.                             *)
Stage(p) ==
    /\ work[p] # "none" /\ p \notin index /\ restore.pc = "none"
    /\ p \in Ignored => "forced" \in Faults
    /\ index' = index \cup {p}
    /\ UNCHANGED <<work, refs, made, edits, turn, anchor, restore, capture, locked>>

----------------------------------------------------------------------------
(* CheckpointService.capture *)

(* What follows the capture of a task.                                     *)
Captured(t, tree) ==
    /\ capture' = [capture EXCEPT ![t] = NoCapture]
    /\ IF t = "turn" THEN turn' = "runs" /\ anchor' = <<tree>> /\ UNCHANGED restore
       ELSE restore' = [restore EXCEPT !.pc = "apply"] /\ UNCHANGED <<turn, anchor>>

(* A turn goes on without its checkpoint; a restore does not.              *)
CaptureFails(t) ==
    /\ "fails" \in Faults /\ capture[t].pc # "none"
    /\ capture' = [capture EXCEPT ![t] = NoCapture]
    /\ IF t = "turn" THEN turn' = "runs" /\ anchor' = <<>> /\ UNCHANGED restore
       ELSE restore' = NoRestore /\ UNCHANGED <<turn, anchor>>
    /\ UNCHANGED <<work, index, refs, made, edits, locked>>

TakeSnapshot(t) ==
    /\ capture[t].pc = "snapshot"
    /\ capture' = [capture EXCEPT ![t].pc = "list", ![t].tree = Snapshot]
    /\ UNCHANGED <<work, index, refs, made, edits, turn, anchor, restore, locked>>

(* Mutant: a restore takes the newest checkpoint for its own, whatever it  *)
(* has of the files.                                                       *)
MutantReuses(t) == refs # {}

(* skip_unchanged: the newest checkpoint has this tree already.            *)
Reuses(t) ==
    /\ t = "turn"
    /\ \E newest \in refs : /\ \A r \in refs : r.id <= newest.id
                            /\ newest.tree = capture[t].tree

List(t) ==
    /\ capture[t].pc = "list"
    /\ IF Reuses(t) THEN Captured(t, capture[t].tree)
       ELSE /\ capture' = [capture EXCEPT ![t].pc = "record", ![t].existing = refs]
            /\ UNCHANGED <<turn, anchor, restore>>
    /\ UNCHANGED <<work, index, refs, made, edits, locked>>

(* commit-tree, update-ref.                                                *)
Record(t) ==
    /\ capture[t].pc = "record" /\ made < MaxCaptures
    /\ refs' = refs \cup {[id |-> made + 1, tree |-> capture[t].tree]}
    /\ made' = made + 1
    /\ capture' = [capture EXCEPT ![t].pc = "prune"]
    /\ UNCHANGED <<work, index, edits, turn, anchor, restore, locked>>

Newer(r, existing) == {q \in existing : q.id > r.id}
Surplus(existing) == {r.id : r \in {q \in existing : Cardinality(Newer(q, existing)) >= Limit - 1}}

(* A deletion that fails goes unnoticed.                                   *)
Prune(t) ==
    /\ capture[t].pc = "prune"
    /\ \E gone \in SUBSET Surplus(capture[t].existing) :
            /\ gone # Surplus(capture[t].existing) => "fails" \in Faults
            /\ refs' = {r \in refs : r.id \notin gone}
    /\ Captured(t, capture[t].tree)
    /\ UNCHANGED <<work, index, made, edits, locked>>

----------------------------------------------------------------------------
(* CheckpointService.restore; the interface does not count as busy.        *)
StartRestore ==
    /\ turn = "none" /\ restore.pc = "none"
    /\ \E r \in refs : restore' = [pc |-> "safety", tree |-> r.tree]
    /\ capture' = [capture EXCEPT !["restore"] = [NoCapture EXCEPT !.pc = "snapshot"]]
    /\ UNCHANGED <<work, index, refs, made, edits, turn, anchor, locked>>

Apply ==
    /\ restore.pc = "apply" /\ ~locked
    /\ work' = Reset(restore.tree, work, index)
    /\ index' = In(restore.tree)
    /\ anchor' = <<>> /\ restore' = NoRestore
    /\ UNCHANGED <<refs, made, edits, turn, capture, locked>>

ApplyFails ==
    /\ restore.pc = "apply" /\ ("fails" \in Faults \/ locked)
    /\ restore' = NoRestore
    /\ UNCHANGED <<work, index, refs, made, edits, turn, anchor, capture, locked>>

(* SIGKILL after 30 seconds; the next read-tree waits for the user to      *)
(* remove the lock.                                                        *)
ApplyKilled ==
    /\ restore.pc = "apply" /\ ~locked /\ "killed" \in Faults
    /\ \E done \in SUBSET Paths : work' = HalfReset(restore.tree, done)
    /\ restore' = NoRestore /\ locked' = TRUE
    /\ UNCHANGED <<index, refs, made, edits, turn, anchor, capture>>

Unlock ==
    /\ locked /\ locked' = FALSE
    /\ UNCHANGED <<work, index, refs, made, edits, turn, anchor, restore, capture>>

Next ==
    \/ StartTurn \/ EndTurn \/ StartRestore \/ Apply \/ ApplyFails
    \/ ApplyKilled \/ Unlock
    \/ \E p \in Paths : Edit(p) \/ Stage(p)
    \/ \E t \in Tasks : TakeSnapshot(t) \/ List(t) \/ Record(t) \/ Prune(t) \/ CaptureFails(t)

Spec == Init /\ [][Next]_vars

----------------------------------------------------------------------------
(* README.md: a restore captures the current state first, so a restore is  *)
(* itself undoable.  Whatever read-tree leaves behind, half a restore      *)
(* included, some checkpoint that is still listed brings every file back,  *)
(* and after a whole restore it brings back exactly what was there.        *)
RestoreIsUndoable ==
    [][work' # work /\ edits' = edits =>
        \E r \in refs' :
            LET back == Reset(r.tree, work', index') IN
            \A p \in Paths : back[p] = work[p] \/ (work[p] = "none" /\ index' = index)]_vars

===============================================================================
