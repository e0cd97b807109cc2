--------------------------- MODULE WorkspaceSearch ---------------------------
(***************************************************************************)
(* glob, grep, list_dir and read_file: how a path of the model is resolved *)
(* in the workspace, how a tree is walked within limits, and how a file is *)
(* read window by window (tools/builtin/{glob,grep,list_dir,read_file,     *)
(* filesystem}.py).  A tool runs on a worker thread while others change    *)
(* the tree; between two awaits of the tool a tree may have changed.       *)
(*                                                                         *)
(* A name is a number, in the order of spelling.  Others write and remove  *)
(* files and directories; they put no link where a directory was.          *)
(***************************************************************************)
EXTENDS Integers, SequencesExt

CONSTANTS
    Trees,         \* trees that a call may find: [paths -> nodes], the root is <<>>
    Calls,         \* [tool, path, pattern, start, count]
    Changes,       \* nodes that others write
    PrivateDirs,   \* names no path may go through: .git, .ssh, ...
    PrivateFiles,  \* names no path may end in: .env, id_rsa, ...
    MaxScanned,    \* MAX_GLOB_SCANNED_ENTRIES and the like
    MaxMatches,    \* MAX_GLOB_MATCHES, MAX_GREP_MATCHES, MAX_DIRECTORY_ENTRIES
    MaxFile        \* MAX_GREP_FILE_BYTES, in lines

Up == -1        \* ".." of a path
Wild == 0       \* "*" of a pattern: any one name
Deep == 1       \* "**" of a pattern: any number of names
Outside == <<Up>>

\* A node: what is there, the lines of a file (of which grep hits some and none
\* can decode others) and where a link leads, which is not to another link.
Lines == {"hit", "miss", "bad"}
Absent == [kind |-> "none", lines |-> <<>>, to |-> <<>>]

VARIABLES
    tree, call,
    pc,        \* "resolve", "walk", "lines", "list", "read", "done", "failed"
    base,      \* the resolved path
    pending,   \* directories to walk
    files,     \* files to search
    found,     \* matches: [path, line], line 0 for a path itself
    scanned,   \* entries seen
    limited,   \* more matches than are returned
    from, text,   \* the window to read next, and what was read
    touched    \* paths that others changed since the call began

vars == <<tree, call, pc, base, pending, files, found, scanned, limited, from, text, touched>>

Least(a, b) == IF a <= b THEN a ELSE b
Entry(p) == IF p \in DOMAIN tree THEN tree[p] ELSE Absent
First(p, n) == SubSeq(p, 1, n)
Children(p) == {q \in DOMAIN tree : q # <<>> /\ Front(q) = p /\ tree[q].kind # "none"}
Hit(p, n) == [path |-> p, line |-> n]

-----------------------------------------------------------------------------
(* Paths. *)

\* is_sensitive_path
Sensitive(p) == p # <<>> /\ (Last(p) \in PrivateFiles \/ \E i \in DOMAIN p : p[i] \in PrivateDirs)

\* Path.resolve: ".." after the link before it
Real(p) ==
    FoldLeft(LAMBDA at, name :
                IF at = Outside THEN Outside
                ELSE IF name = Up THEN (IF at = <<>> THEN Outside ELSE Front(at))
                ELSE LET next == Append(at, name)
                     IN  IF Entry(next).kind = "link" THEN Entry(next).to ELSE next,
             <<>>, p)

HasLink(p) == \E i \in DOMAIN p : Entry(Append(Real(First(p, i - 1)), p[i])).kind = "link"

\* resolve_existing_workspace_path, without links
Admits(p, kinds) ==
    /\ ~Sensitive(p) /\ ~HasLink(p)
    /\ Real(p) # Outside /\ ~Sensitive(Real(p))
    /\ \A i \in DOMAIN p : Entry(Real(First(p, i))).kind # "none"
    /\ Entry(Real(p)).kind \in kinds

\* ReadFileTool._resolve_requested_path follows links
AdmitsRead(p) == Real(p) # Outside /\ ~Sensitive(Real(p)) /\ Entry(Real(p)).kind = "file"

Resolve ==
    /\ pc = "resolve"
    /\ \/ /\ call.tool = "read" /\ AdmitsRead(call.path)
          /\ pc' = "read" /\ UNCHANGED <<pending, files>>
       \/ /\ call.tool = "list" /\ Admits(call.path, {"dir"})
          /\ pc' = "list" /\ UNCHANGED <<pending, files>>
       \/ /\ call.tool = "glob" /\ Admits(call.path, {"dir"})
          /\ pc' = "walk" /\ pending' = <<Real(call.path)>> /\ UNCHANGED files
       \/ /\ call.tool = "grep" /\ Admits(call.path, {"dir"})
          /\ pc' = "walk" /\ pending' = <<Real(call.path)>> /\ UNCHANGED files
       \/ /\ call.tool = "grep" /\ Admits(call.path, {"file"})
          /\ pc' = "lines" /\ files' = {Real(call.path)} /\ UNCHANGED pending
    /\ base' = Real(call.path)
    /\ UNCHANGED <<tree, call, found, scanned, limited, from, text, touched>>

Fails ==
    /\ pc' = "failed"
    /\ UNCHANGED <<tree, call, base, pending, files, found, scanned, limited, from, text, touched>>

Refuse ==
    /\ pc = "resolve"
    /\ CASE call.tool = "read" -> ~AdmitsRead(call.path)
         [] call.tool = "grep" -> ~Admits(call.path, {"dir", "file"})
         [] OTHER -> ~Admits(call.path, {"dir"})
    /\ Fails

-----------------------------------------------------------------------------
(* The walk of glob and of grep. *)

Agrees(part, name) == part \in {Wild, name}

\* Mutant: "**" takes one name at least.
MutantMatches(path, pattern) ==
    LET match[i \in 1..(Len(pattern) + 1), j \in 1..(Len(path) + 1)] ==
            IF i > Len(pattern) THEN j > Len(path)
            ELSE IF j > Len(path) THEN FALSE
            ELSE IF pattern[i] = Deep THEN match[i + 1, j + 1] \/ match[i, j + 1]
            ELSE Agrees(pattern[i], path[j]) /\ match[i + 1, j + 1]
    IN  match[1, 1]

\* GlobTool._matches
Matches(path, pattern) ==
    LET match[i \in 1..(Len(pattern) + 1), j \in 1..(Len(path) + 1)] ==
            IF i > Len(pattern) THEN j > Len(path)
            ELSE IF pattern[i] = Deep
                 THEN match[i + 1, j] \/ (j <= Len(path) /\ match[i, j + 1])
                 ELSE j <= Len(path) /\ Agrees(pattern[i], path[j]) /\ match[i + 1, j + 1]
    IN  match[1, 1]

Below(p) == SubSeq(p, Len(base) + 1, Len(p))

\* One directory: its entries from the last to the first, so that the first of
\* its directories is walked next; past the limit the walk is over.
Walk ==
    /\ pc = "walk" /\ pending # <<>>
    /\ LET dir == Last(pending)
           entries == SetToSortSeq(Children(dir), LAMBDA p, q : Last(p) > Last(q))
           seen == First(entries, Least(Len(entries), MaxScanned - scanned))
           kept == SelectSeq(seen, LAMBDA p : ~Sensitive(p) /\ Entry(p).kind # "link")
       IN  IF Entry(dir).kind # "dir" THEN Fails
           ELSE /\ scanned' = scanned + Len(entries)
                /\ pending' = IF scanned' > MaxScanned THEN <<>>
                              ELSE Front(pending) \o
                                   SelectSeq(kept, LAMBDA p : Entry(p).kind = "dir")
                /\ found' = IF call.tool = "grep" THEN found
                            ELSE found \cup {Hit(p, 0) : p \in
                                    {q \in ToSet(kept) : Matches(Below(q), call.pattern)}}
                /\ files' = IF call.tool = "glob" THEN files
                            ELSE files \cup {p \in ToSet(kept) : Entry(p).kind = "file"}
                /\ UNCHANGED <<tree, call, pc, base, limited, from, text, touched>>

\* The order of results: by path, and by line.
Before(g, h) ==
    \/ g.path = h.path /\ g.line < h.line
    \/ g.path # h.path /\ IsPrefix(g.path, h.path)
    \/ \E i \in DOMAIN g.path \cap DOMAIN h.path :
          First(g.path, i - 1) = First(h.path, i - 1) /\ g.path[i] < h.path[i]

Leading(hits) == {h \in hits : Cardinality({g \in hits : Before(g, h)}) < MaxMatches}

\* GlobTool returns the first matches, GrepTool opens what it has collected.
Walked ==
    /\ pc = "walk" /\ pending = <<>>
    /\ IF call.tool = "glob"
       THEN /\ pc' = "done"
            /\ found' = Leading(found)
            /\ limited' = (Cardinality(found) > MaxMatches)
       ELSE pc' = "lines" /\ UNCHANGED <<found, limited>>
    /\ UNCHANGED <<tree, call, base, pending, files, scanned, from, text, touched>>

\* _search_file: what is gone, too long or no text is passed over
HitsIn(p) ==
    LET lines == Entry(p).lines
    IN  IF Len(lines) > MaxFile \/ "bad" \in ToSet(lines) THEN {}
        ELSE {Hit(p, i) : i \in {j \in DOMAIN lines : lines[j] = "hit"}}

\* One file, in the order of paths, until a match is one too many.
SearchFile ==
    /\ pc = "lines" /\ files # {}
    /\ LET p == CHOOSE q \in files : \A r \in files \ {q} : Before(Hit(q, 0), Hit(r, 0))
           all == found \cup HitsIn(p)
       IN  IF Entry(p).kind \notin {"file", "none"} THEN Fails
           ELSE /\ found' = Leading(all)
                /\ limited' = (Cardinality(all) > MaxMatches)
                /\ files' = IF limited' THEN {} ELSE files \ {p}
                /\ UNCHANGED <<tree, call, pc, base, pending, scanned, from, text, touched>>

Searched ==
    /\ pc = "lines" /\ files = {} /\ pc' = "done"
    /\ UNCHANGED <<tree, call, base, pending, files, found, scanned, limited, from, text, touched>>

-----------------------------------------------------------------------------
\* ListDirTool._list_directory: the entries come in any order
List ==
    /\ pc = "list"
    /\ IF Entry(base).kind # "dir" THEN Fails
       ELSE LET all == Children(base)
            IN  \E seen \in kSubset(Least(Cardinality(all), MaxScanned), all) :
                  LET visible == {p \in seen : ~Sensitive(p)}
                  IN  \E kept \in kSubset(Least(Cardinality(visible), MaxMatches), visible) :
                        /\ found' = {Hit(p, 0) : p \in kept}
                        /\ limited' = (Cardinality(visible) > MaxMatches)
                        /\ scanned' = Cardinality(all)
                        /\ pc' = "done"
                        /\ UNCHANGED <<tree, call, base, pending, files, from, text, touched>>

\* ReadFileTool._read_lines: every line up to the one after the window is
\* decoded.  The caller asks for the next window as long as there is more.
ReadWindow ==
    /\ pc = "read"
    /\ LET lines == Entry(base).lines
           after == from + call.count
           got == SubSeq(lines, from, Least(after - 1, Len(lines)))
       IN  IF \/ Entry(base).kind # "file"
              \/ "bad" \in ToSet(First(lines, Least(after, Len(lines))))
           THEN Fails
           ELSE /\ text' = text \o got
                /\ from' = from + Len(got)
                /\ pc' = IF after <= Len(lines) THEN "resolve" ELSE "done"
                /\ UNCHANGED <<tree, call, base, pending, files, found, scanned, limited, touched>>

\* A file is written, or a file or a directory removed, by another: once.
OthersChange ==
    /\ pc \notin {"done", "failed"} /\ touched = {}
    /\ \E p \in DOMAIN tree \ {<<>>}, node \in Changes :
          LET gone == {q \in DOMAIN tree : IsStrictPrefix(p, q)}
          IN  /\ Entry(Front(p)).kind = "dir" /\ tree[p] # node /\ tree[p].kind # "link"
              /\ tree[p].kind = "dir" => node.kind = "none"
              /\ tree' = [q \in DOMAIN tree |->
                            IF q = p THEN node ELSE IF q \in gone THEN Absent ELSE tree[q]]
              /\ touched' = gone \cup {p}
    /\ UNCHANGED <<call, pc, base, pending, files, found, scanned, limited, from, text>>

Init ==
    /\ tree \in Trees /\ call \in Calls
    /\ pc = "resolve" /\ base = <<>> /\ pending = <<>> /\ files = {}
    /\ found = {} /\ scanned = 0 /\ limited = FALSE
    /\ from = call.start /\ text = <<>> /\ touched = {}

Next ==
    \/ Resolve \/ Refuse \/ Walk \/ Walked \/ SearchFile \/ Searched \/ List \/ ReadWindow
    \/ OthersChange

Spec == Init /\ [][Next]_vars

-----------------------------------------------------------------------------
(* Properties. *)

\* A pattern spells a path when the path can be cut into its parts.
Spells(pattern, path) ==
    \E cut \in [0..Len(pattern) -> 0..Len(path)] :
        /\ cut[0] = 0 /\ cut[Len(pattern)] = Len(path)
        /\ \A i \in DOMAIN pattern :
              IF pattern[i] = Deep THEN cut[i - 1] <= cut[i]
              ELSE cut[i] = cut[i - 1] + 1 /\ Agrees(pattern[i], path[cut[i]])

\* A walk may get there: nothing on the way is private or a link.
Reachable(p) ==
    /\ IsStrictPrefix(base, p) /\ Entry(p).kind # "none"
    /\ \A i \in (Len(base) + 1)..Len(p) :
          ~Sensitive(First(p, i)) /\ Entry(First(p, i)).kind # "link"

\* What the call asks for, in the tree as it is.
Wanted ==
    CASE call.tool = "glob" ->
            {Hit(p, 0) : p \in {q \in DOMAIN tree : Reachable(q) /\ Spells(call.pattern, Below(q))}}
      [] call.tool = "grep" ->
            UNION {HitsIn(p) : p \in {q \in DOMAIN tree : q = base \/ Reachable(q)}}
      [] call.tool = "list" ->
            {Hit(p, 0) : p \in {q \in Children(base) : ~Sensitive(q)}}
      [] call.tool = "read" -> {}

Untouched(hits) == {h \in hits : h.path \notin touched}

Over == scanned > MaxScanned

\* Whatever others do, every match that is returned is one, none is missing
\* unless the result says that there is more, and what is returned when there
\* is more is the first of it (any of it for a directory, whose order is not
\* defined): an answer that says it is complete is complete.
SearchesAreTrue ==
    pc = "done" /\ call.tool # "read" =>
        /\ Untouched(found) \subseteq Wanted
        /\ Cardinality(found) <= MaxMatches
        /\ ~Over /\ ~limited => Untouched(found) = Untouched(Wanted)
        /\ ~Over /\ touched = {} => limited = (Cardinality(Wanted) > MaxMatches)
        /\ ~Over /\ touched = {} /\ call.tool # "list" => found = Leading(Wanted)

\* The windows of a file that stays as it is join into the file, and no file
\* that cannot be decoded is shown as if it were whole.
WindowsJoin ==
    pc = "done" /\ call.tool = "read" /\ base \notin touched =>
        LET lines == Entry(base).lines
        IN  text = SubSeq(lines, call.start, Len(lines)) /\ "bad" \notin ToSet(lines)
=============================================================================
