----------------------------- MODULE Instructions -----------------------------
(***************************************************************************)
(* The project instructions of a session: the project root above the       *)
(* launch directory, the files between the two, and what of them fits into *)
(* the prompt (agent/project_instructions.py).                             *)
(* A directory has a .git or not and two files that may hold instructions, *)
(* the override first.  A file has a kind and, as a "text", its stripped   *)
(* characters, each the number of its bytes.                               *)
(***************************************************************************)
EXTENDS Naturals, Sequences

CONSTANTS
    Chains,    \* directories from the file system's root to the launch directory
    MaxBytes   \* PROJECT_INSTRUCTIONS_MAX_BYTES

VARIABLES
    chain, root,   \* the directories, and which of them is the project root
    pc,            \* "root", "discover", "load", "done", "failed"
    next,          \* the directory to look into
    entries,       \* [dir, text] of the files that were selected
    sections       \* what the prompt gets of them

vars == <<chain, root, pc, next, entries, sections>>

Unusable == {"dangling", "odd", "unreadable"}
Separator == 2

Bytes(text) ==
    LET sum[n \in 0..Len(text)] == IF n = 0 THEN 0 ELSE sum[n - 1] + text[n]
    IN  sum[Len(text)]

Sizes(texts) == [i \in 1..Len(texts) |-> Bytes(texts[i])]

\* The length of what a list of texts becomes when it is joined.
Joined(texts) ==
    Bytes(Sizes(texts)) + Separator * (IF texts = <<>> THEN 0 ELSE Len(texts) - 1)

\* find_project_root: the closest directory with a .git, or the launch directory
FindRoot ==
    /\ pc = "root" /\ pc' = "discover"
    /\ root' = LET marked == {d \in DOMAIN chain : chain[d].git}
               IN  IF marked = {} THEN Len(chain)
                   ELSE CHOOSE d \in marked : \A other \in marked : other <= d
    /\ next' = root'
    /\ UNCHANGED <<chain, entries, sections>>

\* The files of a directory that are looked at: a blank one is passed over.
Blank(file) == file.kind = "absent" \/ (file.kind = "text" /\ file.text = <<>>)
Looked(files) == IF Blank(files[1]) THEN 1..2 ELSE {1}

\* _discover_instruction_entries, one directory of the chain
Discover ==
    /\ pc = "discover" /\ next <= Len(chain)
    /\ LET files == chain[next].files
           usable == {i \in Looked(files) : ~Blank(files[i])}
       IN  IF \E i \in Looked(files) : files[i].kind \in Unusable
           THEN pc' = "failed" /\ UNCHANGED <<next, entries>>
           ELSE /\ next' = next + 1 /\ UNCHANGED pc
                /\ entries' = IF usable = {} THEN entries
                              ELSE LET i == CHOOSE i \in usable : TRUE
                                   IN  Append(entries, [dir |-> next, text |-> files[i].text])
    /\ UNCHANGED <<chain, root, sections>>

Discovered ==
    /\ pc = "discover" /\ next > Len(chain)
    /\ pc' = "load" /\ next' = 1
    /\ UNCHANGED <<chain, root, entries, sections>>

\* Mutant: what separates the sections takes no room.
MutantRoom == MaxBytes - Bytes(Sizes(sections))

\* remaining_bytes, as a number that is 0 when none remain
Room ==
    LET used == Joined(sections) + (IF sections = <<>> THEN 0 ELSE Separator)
    IN  IF used >= MaxBytes THEN 0 ELSE MaxBytes - used

\* encode, cut, decode with errors="ignore": whole characters only
Cut(text, room) ==
    LET fits == {n \in 0..Len(text) : Bytes(SubSeq(text, 1, n)) <= room}
    IN  SubSeq(text, 1, CHOOSE n \in fits : \A m \in fits : m <= n)

\* load_project_instructions: in order, until one does not fit
Load ==
    /\ pc = "load"
    /\ IF next > Len(entries) \/ Room = 0
       THEN pc' = "done" /\ UNCHANGED <<next, sections>>
       ELSE LET text == entries[next].text
                part == Cut(text, Room)
            IN  /\ sections' = IF part = <<>> THEN sections ELSE Append(sections, part)
                /\ pc' = IF part = text THEN pc ELSE "done"
                /\ next' = next + 1
    /\ UNCHANGED <<chain, root, entries>>

Init ==
    /\ chain \in Chains /\ root = 0 /\ pc = "root" /\ next = 0
    /\ entries = <<>> /\ sections = <<>>

Next == FindRoot \/ Discover \/ Discovered \/ Load

Spec == Init /\ [][Next]_vars

-----------------------------------------------------------------------------
\* What the prompt gets fits; it is, in order from the project root to the launch
\* directory, the instructions of each directory, none left out in the middle,
\* the last perhaps cut at a character; and a file that cannot be used is never
\* silently missing.
InstructionsAreOrdered ==
    /\ Joined(sections) <= MaxBytes
    /\ \A i, j \in DOMAIN entries : i < j => entries[i].dir < entries[j].dir
    /\ pc \in {"load", "done"} =>
          /\ Len(sections) <= Len(entries)
          /\ \A i \in DOMAIN sections :
                /\ \E n \in 0..Len(entries[i].text) : sections[i] = SubSeq(entries[i].text, 1, n)
                /\ i < Len(sections) => sections[i] = entries[i].text
          /\ \A d \in root..Len(chain) : chain[d].files[1].kind \notin Unusable
    /\ pc = "done" =>
          \/ Len(sections) = Len(entries) /\ \A i \in DOMAIN sections : sections[i] = entries[i].text
          \/ \E i \in DOMAIN entries :
                /\ Len(sections) \in {i - 1, i}
                /\ Joined([j \in 1..i |-> entries[j].text]) > MaxBytes
=============================================================================
