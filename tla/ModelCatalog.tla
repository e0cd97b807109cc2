------------------------------ MODULE ModelCatalog ------------------------------
(***************************************************************************)
(* The models a user may choose from: the Models.dev directory with its    *)
(* cached snapshot, the live lists of configured and subscription          *)
(* providers with their caches, and the catalog one discovery makes of     *)
(* them while credentials change.                                          *)
(*                                                                         *)
(*   credential  kind of the usable credential of each provider            *)
(*   snapshot    the file of the directory: at, entries                    *)
(*   lists       the file of each live list: at, and the rows              *)
(*   pc          "idle", "directory", "live", "shown"                      *)
(*   refresh     the discovery was asked to pass the caches by             *)
(*   entries     the directory this discovery uses; origin: where it is    *)
(*               from; failed: the providers whose live list failed        *)
(*   waiting     the live lists that have not come                         *)
(*   resolved    the slices so far: rows, and where they are from          *)
(***************************************************************************)
EXTENDS Naturals, FiniteSets

CONSTANTS Names,           \* stable identities of providers
          Models,          \* identities of models
          Configured,      \* those of the configuration, with the current one
          Subscribing,     \* those of them that can be signed in to
          Directories,     \* what Models.dev may answer: from names to rows
          DirectoryTTL, LiveTTL, MaxTime, MaxDiscoveries

VARIABLES credential, snapshot, lists, now, pc, refresh, entries, origin, failed,
          waiting, resolved, discoveries

files     == <<snapshot, lists>>
discovery == <<refresh, entries, origin, failed, waiting, resolved>>
vars == <<credential, files, now, pc, discovery, discoveries>>

(* A row: a model, whether its reasoning efforts are known, and whether it *)
(* has been withdrawn.                                                     *)
Row(model, effort) == [id |-> model, effort |-> effort, withdrawn |-> FALSE]

NoFile == [at |-> 0, whole |-> FALSE]
NoSlices == [p \in {} |-> {}]

Init ==
    /\ credential \in [Names -> {"none", "key"}]
    /\ snapshot = NoFile /\ lists = [p \in Configured |-> NoFile]
    /\ now = 1 /\ pc = "idle" /\ refresh = FALSE /\ entries = NoSlices /\ origin = "none"
    /\ failed = {} /\ waiting = {} /\ resolved = NoSlices /\ discoveries = 0

----------------------------------------------------------------------------
(* parse_models_dev: withdrawn models are not offered.                     *)
Parsed(directory) ==
    [p \in DOMAIN directory |-> {r \in directory[p] : ~r.withdrawn}]

(* Mutant: a snapshot is read whatever its age.                            *)
MutantReadable(stale) == snapshot.whole

(* read_models_dev_cache: within its time, unless any will do; one that    *)
(* cannot be decoded is none.                                              *)
Readable(stale) == snapshot.whole /\ (stale \/ now - snapshot.at <= DirectoryTTL)

(* read_cache, and load_models: a list within its time that is not empty.  *)
Cached(p) == lists[p].whole /\ lists[p].rows # {} /\ now - lists[p].at <= LiveTTL

(* Mutant: the file is written in place.                                   *)
MutantReplaced(directory, crash) == [at |-> now, whole |-> ~crash, entries |-> directory]

(* write_models_dev_cache: beside the file, then over it.                  *)
Replaced(directory, crash) ==
    IF crash THEN snapshot ELSE [at |-> now, whole |-> TRUE, entries |-> directory]

(* write_cache: in place.                                                  *)
Written(p, rows, crash) ==
    [lists EXCEPT ![p] = IF crash THEN NoFile ELSE [at |-> now, whole |-> TRUE, rows |-> rows]]

Uses(directory, from) == entries' = directory /\ origin' = from /\ pc' = "live"

(* load_models_dev: the fresh snapshot, else the answer, else any snapshot.*)
UseSnapshot ==
    /\ ~refresh /\ Readable(FALSE)
    /\ Uses(Parsed(snapshot.entries), "fresh") /\ UNCHANGED snapshot

Fetched ==
    /\ refresh \/ ~Readable(FALSE)
    /\ \E directory \in Directories :
         /\ Uses(Parsed(directory), "answer")
         /\ snapshot' = Replaced(directory, FALSE) \/ snapshot' = snapshot

Unreachable ==
    /\ refresh \/ ~Readable(FALSE)
    /\ IF Readable(TRUE) THEN Uses(Parsed(snapshot.entries), "stale")
                         ELSE Uses(NoSlices, "none")
    /\ UNCHANGED snapshot

(* discover_catalog: asked live are the configured providers the directory *)
(* does not have, and those that are signed in to.                         *)
Dynamic(directory) ==
    {p \in Configured : \/ p \notin DOMAIN directory
                        \/ credential[p] = "oauth" /\ p \in Subscribing}

LoadDirectory ==
    /\ pc = "directory"
    /\ UseSnapshot \/ Fetched \/ Unreachable
    /\ waiting' = Dynamic(entries') /\ resolved' = entries'
    /\ UNCHANGED <<credential, lists, now, refresh, failed, discoveries>>

Put(p, rows) == [q \in DOMAIN resolved \cup {p} |-> IF q = p THEN rows ELSE resolved[q]]

(* _retain_directory_efforts                                               *)
Retained(p, rows) ==
    {[r EXCEPT !.effort = @ \/ \E d \in entries[p] : d.id = r.id /\ d.effort] : r \in rows}

(* Mutant: what came live replaces what the directory had.                 *)
MutantMerged(p, rows) == Put(p, rows)

(* A live list replaces the directory's only if it has rows.               *)
Merged(p, rows) ==
    IF p \notin DOMAIN resolved THEN Put(p, rows)
    ELSE IF rows # {} THEN Put(p, Retained(p, rows)) ELSE resolved

(* parse_models: what a provider may answer.                               *)
LiveLists == SUBSET {Row(model, FALSE) : model \in Models}

(* load_models: the cached list, or what the provider answers, kept when   *)
(* there is anything in it.                                                *)
FromCache(p) ==
    /\ ~refresh /\ Cached(p)
    /\ resolved' = Merged(p, lists[p].rows) /\ UNCHANGED <<lists, failed>>

FetchModels(p) ==
    /\ refresh \/ ~Cached(p)
    /\ \E rows \in LiveLists :
         /\ lists' = IF rows = {} THEN lists ELSE Written(p, rows, FALSE)
         /\ resolved' = Merged(p, rows)
    /\ UNCHANGED failed

(* _slice_for: a failure is the reason of this slice alone.                *)
NoModels(p) ==
    /\ refresh \/ ~Cached(p)
    /\ failed' = failed \cup {p} /\ resolved' = Merged(p, {}) /\ UNCHANGED lists

LoadList(p) ==
    /\ pc = "live" /\ p \in waiting
    /\ FromCache(p) \/ FetchModels(p) \/ NoModels(p)
    /\ waiting' = waiting \ {p}
    /\ UNCHANGED <<credential, snapshot, now, pc, refresh, entries, origin, discoveries>>

(* The catalog, with the credentials of this moment.                       *)
Show ==
    /\ pc = "live" /\ waiting = {}
    /\ pc' = "shown"
    /\ UNCHANGED <<credential, files, now, discovery, discoveries>>

Begin(asks) ==
    /\ pc \in {"idle", "shown"} /\ discoveries < MaxDiscoveries
    /\ pc' = "directory" /\ refresh' = asks /\ discoveries' = discoveries + 1
    /\ entries' = NoSlices /\ origin' = "none" /\ failed' = {} /\ waiting' = {}
    /\ resolved' = NoSlices
    /\ UNCHANGED <<credential, files, now>>

(* _connect_for_models: a credential is collected, then all is refreshed.  *)
Connect(p, kind) ==
    /\ pc = "shown" /\ credential[p] = "none" /\ (kind = "oauth" => p \in Subscribing)
    /\ discoveries < MaxDiscoveries
    /\ credential' = [credential EXCEPT ![p] = kind]
    /\ pc' = "directory" /\ refresh' = TRUE /\ discoveries' = discoveries + 1
    /\ entries' = NoSlices /\ origin' = "none" /\ failed' = {} /\ waiting' = {}
    /\ resolved' = NoSlices
    /\ UNCHANGED <<files, now>>

(* A credential is removed, here or in another window, at any time.        *)
Forget(p) ==
    /\ credential[p] # "none"
    /\ credential' = [credential EXCEPT ![p] = "none"]
    /\ UNCHANGED <<files, now, pc, discovery, discoveries>>

(* The process ends while it writes one of its files.                      *)
Crash ==
    /\ \/ /\ pc = "directory"
          /\ \E directory \in Directories : snapshot' = Replaced(directory, TRUE)
          /\ UNCHANGED lists
       \/ /\ pc = "live" /\ \E p \in waiting : lists' = Written(p, {}, TRUE)
          /\ UNCHANGED snapshot
    /\ pc' = "idle" /\ refresh' = FALSE /\ entries' = NoSlices /\ origin' = "none"
    /\ failed' = {} /\ waiting' = {} /\ resolved' = NoSlices
    /\ UNCHANGED <<credential, now, discoveries>>

Tick ==
    /\ pc \in {"idle", "shown"} /\ now < MaxTime
    /\ now' = now + 1 /\ UNCHANGED <<credential, files, pc, discovery, discoveries>>

Next ==
    \/ LoadDirectory \/ Show \/ Crash \/ Tick
    \/ \E asks \in BOOLEAN : Begin(asks)
    \/ \E p \in Configured : LoadList(p)
    \/ \E p \in Names : Forget(p) \/ \E kind \in {"key", "oauth"} : Connect(p, kind)

Spec == Init /\ [][Next]_vars

----------------------------------------------------------------------------
(* "one provider's catalog failure never removes another provider's        *)
(* models", nor those the directory has of it: whatever lists fail, every  *)
(* provider is shown, and without rows only if nothing had any.            *)
FailuresStayApart ==
    pc = "shown" =>
        /\ DOMAIN resolved = DOMAIN entries \cup Configured
        /\ \A p \in DOMAIN entries : entries[p] # {} => resolved[p] # {}
        /\ \A p \in DOMAIN entries \ Configured : resolved[p] = entries[p]

(* What is known of a model is kept when a live list names it again, and a *)
(* withdrawn one is not offered, whichever file it came from.              *)
RowsAreComplete ==
    pc = "shown" =>
        \A p \in DOMAIN resolved : \A r \in resolved[p] :
            /\ ~r.withdrawn
            /\ p \in DOMAIN entries =>
                 \A d \in entries[p] : (d.id = r.id /\ d.effort) => r.effort

(* "a failed refresh may use that validated snapshot stale so an offline   *)
(* machine retains its picker": a stored directory is used when no other   *)
(* can be had, and after its time only then.                               *)
PickerIsRetained ==
    pc = "live" =>
        /\ snapshot.whole => origin # "none"
        /\ origin = "fresh" => ~refresh /\ now - snapshot.at <= DirectoryTTL

(* No failure and no crash takes the stored directory away.                *)
SnapshotStays == [][snapshot.whole => snapshot'.whole]_vars

CatalogIsWhole ==
    [](FailuresStayApart /\ RowsAreComplete /\ PickerIsRetained) /\ SnapshotStays
=============================================================================
