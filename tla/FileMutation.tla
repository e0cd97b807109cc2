---------------------------- MODULE FileMutation ----------------------------
(***************************************************************************)
(* write_file and edit_file on one path: tools/builtin/write_file.py,      *)
(* tools/builtin/edit_file.py, tools/builtin/filesystem.py and the record  *)
(* of what they did, tools/mutation_audit.py.                              *)
(*                                                                         *)
(* A call runs on a worker thread, beside the user's editor and the calls  *)
(* of other windows.  A text is the set of changes it contains: an edit    *)
(* adds its own to what it has read, a write replaces them all.            *)
(***************************************************************************)
EXTENDS Naturals, FiniteSets

CONSTANTS
    Calls,       \* tool calls, each made once
    MaxOutside,  \* changes by others
    Faults       \* "fails", "crash", "unreadable", "inside"

VARIABLES
    file,     \* what the path names: [kind, readable, inode, stamp, text]
    call,     \* the calls
    temps,    \* calls whose temporary file exists
    records,  \* mutation records: [call, kind, before, after]
    stamps    \* stamps and inodes given out

vars == <<file, call, temps, records, stamps>>

NoText == {0}  \* no change is number 0
NoFile == [kind |-> "none", readable |-> TRUE, inode |-> 0, stamp |-> 0, text |-> {}]

Fresh == [pc |-> "idle", tool |-> "none", new |-> FALSE, created |-> FALSE, old |-> NoText,
          inode |-> 0, stamp |-> 0, replaced |-> FALSE, result |-> "none"]

At(c, pcs) == call[c].pc \in pcs

(* Between the read and the fstat of the file, and between its inspection  *)
(* and os.replace, a change by another goes unseen.                        *)
Narrow(c) == At(c, {"stat", "replace"})

OthersMay(c) == "inside" \in Faults \/ \A d \in Calls \ {c} : ~Narrow(d)

To(c, pc) == call' = [call EXCEPT ![c].pc = pc]

(* A ToolExecutionError, or any other: the temporary file is unlinked.     *)
Fails(c) ==
    /\ call' = [call EXCEPT ![c].pc = "done", ![c].result = "failed"]
    /\ temps' = temps \ {c}

----------------------------------------------------------------------------
Init ==
    /\ file \in {NoFile, [NoFile EXCEPT !.kind = "file", !.inode = 1, !.stamp = 1]}
    /\ call = [c \in Calls |-> Fresh]
    /\ temps = {} /\ records = {} /\ stamps = 1

(* run: the content is checked before the thread starts.                   *)
Begin(c) ==
    /\ At(c, {"idle"})
    /\ \E tool \in {"write", "edit"} : call' = [call EXCEPT ![c].pc = "resolve", ![c].tool = tool]
    /\ UNCHANGED <<file, temps, records, stamps>>

Refused(c) ==
    /\ At(c, {"idle", "resolve"}) /\ "fails" \in Faults /\ Fails(c)
    /\ UNCHANGED <<file, records, stamps>>

(* _resolve_destination, resolve_existing_workspace_path: no links, and an *)
(* edit wants a file that exists.                                          *)
Resolves(c) == file.kind = "file" \/ (file.kind = "none" /\ call[c].tool = "write")

Resolve(c) ==
    /\ At(c, {"resolve"})
    /\ IF Resolves(c)
       THEN /\ call' = [call EXCEPT ![c].pc = IF file.kind = "none" THEN "temp" ELSE "read",
                                    ![c].new = (file.kind = "none")]
            /\ UNCHANGED temps
       ELSE Fails(c)
    /\ UNCHANGED <<file, records, stamps>>

(* A write reads for the audit only, and takes what it gets.               *)
Read(c) ==
    /\ At(c, {"read"})
    /\ \/ /\ file.kind = "file" /\ file.readable
          /\ call' = [call EXCEPT ![c].old = file.text, ![c].inode = file.inode, ![c].stamp = file.stamp,
                                  ![c].pc = IF call[c].tool = "edit" THEN "stat" ELSE "temp"]
          /\ UNCHANGED temps
       \/ /\ file.kind # "file" \/ ~file.readable
          /\ IF call[c].tool = "edit" THEN Fails(c) ELSE To(c, "temp") /\ UNCHANGED temps
    /\ UNCHANGED <<file, records, stamps>>

(* fstat of the descriptor: of the file that was opened, as it is now.     *)
Fstat(c) ==
    /\ At(c, {"stat"})
    /\ call' = [call EXCEPT ![c].pc = "apply",
                            ![c].stamp = IF file.inode = call[c].inode THEN file.stamp ELSE call[c].stamp]
    /\ UNCHANGED <<file, temps, records, stamps>>

(* apply_edits: all of them, or EditRejected.                              *)
Apply(c) ==
    /\ At(c, {"apply"})
    /\ \/ To(c, "temp") /\ UNCHANGED temps
       \/ Fails(c)
    /\ UNCHANGED <<file, records, stamps>>

NewText(c) == IF call[c].tool = "write" THEN {c} ELSE call[c].old \cup {c}

(* mkstemp, write, fsync, beside the destination.                          *)
WriteTemp(c) ==
    /\ At(c, {"temp"})
    /\ temps' = temps \cup {c} /\ To(c, "check")
    /\ UNCHANGED <<file, records, stamps>>

(* Mutant: the file is compared by what it is, not by what it has been.    *)
MutantUnchanged(c) == file.kind = "file" /\ file.inode = call[c].inode

(* The fingerprint: device, inode, size, modification time.                *)
Unchanged(c) == file.kind = "file" /\ file.inode = call[c].inode /\ file.stamp = call[c].stamp

Check(c) ==
    /\ At(c, {"check"})
    /\ IF IF call[c].tool = "edit" THEN Unchanged(c) ELSE file.kind \in {"none", "file"}
       THEN /\ call' = [call EXCEPT ![c].pc = "replace", ![c].created = (file.kind = "none")]
            /\ UNCHANGED temps
       ELSE Fails(c)
    /\ UNCHANGED <<file, records, stamps>>

Replace(c) ==
    /\ At(c, {"replace"}) /\ OthersMay(c)
    /\ file' = [kind |-> "file", readable |-> TRUE, inode |-> stamps + 1, stamp |-> stamps + 1,
                text |-> NewText(c)]
    /\ stamps' = stamps + 1
    /\ call' = [call EXCEPT ![c].pc = "record", ![c].replaced = TRUE]
    /\ temps' = temps \ {c}
    /\ UNCHANGED records

(* What MutationRecord accepts: only a created file has no prior digest.   *)
Recordable(c) == call[c].tool = "edit" \/ (call[c].created <=> call[c].old = NoText)

(* record_mutation: a store that fails is counted and passed over; a       *)
(* record that is not acceptable raises.                                   *)
Record(c) ==
    /\ At(c, {"record"})
    /\ IF Recordable(c)
       THEN /\ call' = [call EXCEPT ![c].pc = "done", ![c].result = "ok"]
            /\ \/ records' = records \cup {[call |-> c, before |-> call[c].old, after |-> NewText(c)]}
               \/ "fails" \in Faults /\ UNCHANGED records
       ELSE /\ call' = [call EXCEPT ![c].pc = "done", ![c].result = "failed"]
            /\ UNCHANGED records
    /\ UNCHANGED <<file, temps, stamps>>

(* Permission, a full disk, a parent that is gone, at any step before the  *)
(* replacement.                                                            *)
StepFails(c) ==
    /\ "fails" \in Faults /\ At(c, {"read", "temp", "check", "replace"}) /\ Fails(c)
    /\ UNCHANGED <<file, records, stamps>>

Crash(c) ==
    /\ "crash" \in Faults /\ ~At(c, {"idle", "done", "crashed"}) /\ To(c, "crashed")
    /\ UNCHANGED <<file, temps, records, stamps>>

(* Somebody else writes into the file, replaces it, removes it, puts a     *)
(* link in its place, or takes the permission to read it away.             *)
Outside ==
    /\ stamps < MaxOutside + Cardinality({c \in Calls : call[c].replaced}) + 1
    /\ "inside" \in Faults \/ \A c \in Calls : ~Narrow(c)
    /\ stamps' = stamps + 1
    /\ LET changed == [file EXCEPT !.stamp = stamps + 1, !.text = @ \cup {stamps + 1}] IN
       \/ file.kind = "file" /\ file' = changed
       \/ file.kind # "link" /\ file' = [changed EXCEPT !.kind = "file", !.inode = stamps + 1]
       \/ file.kind # "none" /\ file' = NoFile
       \/ file.kind # "link" /\ file' = [NoFile EXCEPT !.kind = "link"]
       \/ /\ "unreadable" \in Faults /\ file.kind = "file" /\ file.readable
          /\ file' = [file EXCEPT !.readable = FALSE]
    /\ UNCHANGED <<call, temps, records>>

Next ==
    \/ Outside
    \/ \E c \in Calls :
        \/ Begin(c) \/ Refused(c) \/ Resolve(c) \/ Read(c) \/ Fstat(c) \/ Apply(c) \/ WriteTemp(c)
        \/ Check(c) \/ Replace(c) \/ Record(c) \/ StepFails(c) \/ Crash(c)

Spec == Init /\ [][Next]_vars

----------------------------------------------------------------------------
(* README.md: edit_file reports file_changed instead of overwriting a file *)
(* that moved underneath it.  What another has put into the file before    *)
(* the edit's last look at it is in the file after the edit; a failed call *)
(* leaves no temporary file behind.                                        *)
EditsLoseNothing ==
    [][\A c \in Calls :
        /\ call'[c].replaced /\ ~call[c].replaced /\ call[c].tool = "edit" => file.text \subseteq file'.text
        /\ call'[c].pc = "done" => c \notin temps']_vars

(* docs/ARCHITECTURE.md: a mutation that is already durable is never       *)
(* reported as failed.                                                     *)
DurableIsReported == \A c \in Calls : call[c].result = "failed" => ~call[c].replaced
=============================================================================
