--------------------------- MODULE LanguageServer ---------------------------
(***************************************************************************)
(* The code intelligence tools over one language: the JSON-RPC transport   *)
(* (jsonrpc/transport.py), the client and its documents (lsp/client.py),   *)
(* the manager that starts a server on first use (lsp/manager.py) and the  *)
(* tools (tools/builtin/code_intelligence.py).                             *)
(*                                                                         *)
(* A turn makes its tool calls one after another.  The server answers, or  *)
(* does not, in any order, and may exit or write what is not JSON-RPC.     *)
(* A document's text is its version, the number of edits made to it.       *)
(***************************************************************************)
EXTENDS Naturals, FiniteSets

CONSTANTS
    Docs,       \* the files
    MaxCalls,   \* tool calls made
    MaxEdits,   \* edits of a file, by a tool or the user
    Faults      \* "exits", "garbage", "unstarted", "cancel"

VARIABLES
    version,    \* of each file, on disk
    live,       \* server processes that run; each start gives a number
    starts,     \* processes started
    client,     \* LspManager._clients: the process of the kept client, 0 for none
    failed,     \* LspManager._failed
    reading,    \* the client's _read_stdout goes on
    open,       \* LspClient._open
    told,       \* what the client's server was told of each document, 0 for nothing
    diagnostics,\* LspClient._diagnostics: the version reported on, 0 for none
    settled,    \* documents whose diagnostic event is set
    unanswered, \* ids of the requests its server has not answered
    calls,      \* calls made, which also numbers the requests
    call,       \* the call in progress
    last        \* what the last call returned

manager == <<live, starts, client, failed, reading>>
documents == <<open, told, diagnostics, settled>>
vars == <<version, manager, documents, unanswered, calls, call, last>>

NoCall == [pc |-> "idle", kind |-> "none", doc |-> "none", process |-> 0, since |-> 0]
Failure == [kind |-> "failed", asked |-> 0, answer |-> 0, since |-> 0]

At(pcs) == call.pc \in pcs
To(pc) == call' = [call EXCEPT !.pc = pc]

(* The request a call waits on, which is numbered after the call.          *)
Pending == IF At({"waiting"}) THEN {calls} ELSE {}

(* StdioTransport.running, of the kept client.                             *)
Running == client \in live

Returns(answer) ==
    /\ call' = NoCall
    /\ last' = [kind |-> call.kind, asked |-> calls, answer |-> answer, since |-> call.since]

Refuses == call' = NoCall /\ last' = Failure

Forgets ==
    /\ open' = {} /\ told' = [d \in Docs |-> 0]
    /\ diagnostics' = [d \in Docs |-> 0] /\ settled' = {}

Init ==
    /\ version = [d \in Docs |-> 1]
    /\ live = {} /\ starts = 0 /\ client = 0 /\ failed = FALSE /\ reading = FALSE
    /\ open = {} /\ told = [d \in Docs |-> 0]
    /\ diagnostics = [d \in Docs |-> 0] /\ settled = {}
    /\ unanswered = {} /\ calls = 0 /\ call = NoCall /\ last = Failure

----------------------------------------------------------------------------
(* A tool call: get_diagnostics of a file, one of the two position tools   *)
(* on it, or find_symbol, which asks about the whole workspace.            *)
Begin(kind, d) ==
    /\ At({"idle"}) /\ calls < MaxCalls
    /\ calls' = calls + 1
    /\ call' = [NoCall EXCEPT !.pc = "resolved", !.kind = kind, !.doc = d, !.since = version[d]]
    /\ UNCHANGED <<version, manager, documents, unanswered, last>>

(* client_for: the client kept, however it fares, or the failure kept.     *)
Reuses ==
    /\ At({"resolved"}) /\ client # 0
    /\ To(IF call.kind = "symbols" THEN "asking" ELSE "opening")
    /\ UNCHANGED <<version, manager, documents, unanswered, calls, last>>

Remembers ==
    /\ At({"resolved"}) /\ client = 0 /\ failed
    /\ Refuses
    /\ UNCHANGED <<version, manager, documents, unanswered, calls>>

(* StdioTransport.start, then the handshake.                               *)
Spawns ==
    /\ At({"resolved"}) /\ client = 0 /\ ~failed
    /\ starts' = starts + 1 /\ live' = live \cup {starts + 1}
    /\ call' = [call EXCEPT !.pc = "starting", !.process = starts + 1]
    /\ UNCHANGED <<version, client, failed, reading, documents, unanswered, calls, last>>

Cannot ==
    /\ At({"resolved"}) /\ client = 0 /\ ~failed /\ "unstarted" \in Faults
    /\ failed' = TRUE /\ Refuses
    /\ UNCHANGED <<version, live, starts, client, reading, documents, unanswered, calls>>

Starts ==
    /\ At({"starting"}) /\ call.process \in live
    /\ client' = call.process /\ reading' = TRUE
    /\ To(IF call.kind = "symbols" THEN "asking" ELSE "opening")
    /\ Forgets
    /\ UNCHANGED <<version, live, starts, failed, unanswered, calls, last>>

(* Mutant: a server that failed its handshake is left running.           *)
MutantStopped(processes) == live

(* The handshake timed out, or the server is gone: it is stopped, and the  *)
(* failure is kept for good.                                               *)
Stopped(processes) == live \ processes

StartFails ==
    /\ At({"starting"}) /\ (call.process \in live => "unstarted" \in Faults)
    /\ live' = Stopped({call.process}) /\ failed' = TRUE /\ Refuses
    /\ UNCHANGED <<version, starts, client, reading, documents, unanswered, calls>>

(* open_document sends a file's text once.  At MAX_OPEN_DOCUMENTS it asks  *)
(* close_document to close Path(uri), a spelling that no open document     *)
(* has: nothing is closed, so nothing is to be shown here.                 *)
Sends(d) == d \notin open

Opens ==
    /\ At({"opening"})
    /\ IF Sends(call.doc)
       THEN /\ open' = open \cup {call.doc}
            /\ told' = IF Running THEN [told EXCEPT ![call.doc] = version[call.doc]] ELSE told
       ELSE UNCHANGED <<open, told>>
    /\ IF Sends(call.doc) /\ ~Running
       THEN Refuses
       ELSE To(IF call.kind = "diagnostics" THEN "settling" ELSE "asking") /\ UNCHANGED last
    /\ UNCHANGED <<version, manager, diagnostics, settled, unanswered, calls>>

Unreadable ==
    /\ At({"opening"}) /\ call.doc \notin open
    /\ Refuses
    /\ UNCHANGED <<version, manager, documents, unanswered, calls>>

(* LspClient.diagnostics: the report at hand, or the one that comes in     *)
(* time, or what there is when the time is up.                             *)
Reports ==
    /\ At({"settling"}) /\ call.doc \in settled
    /\ Returns(diagnostics[call.doc])
    /\ UNCHANGED <<version, manager, documents, unanswered, calls>>

ReportsNothing ==
    /\ At({"settling"}) /\ call.doc \notin settled
    /\ Returns(diagnostics[call.doc])
    /\ UNCHANGED <<version, manager, documents, unanswered, calls>>

(* StdioTransport.request                                                  *)
Asks ==
    /\ At({"asking"}) /\ Running
    /\ To("waiting") /\ unanswered' = unanswered \cup {calls}
    /\ UNCHANGED <<version, manager, documents, calls, last>>

CannotAsk ==
    /\ At({"asking"}) /\ ~Running
    /\ Refuses
    /\ UNCHANGED <<version, manager, documents, unanswered, calls>>

TimesOut ==
    /\ At({"waiting"})
    /\ Refuses
    /\ UNCHANGED <<version, manager, documents, unanswered, calls>>

----------------------------------------------------------------------------
(* What the server says, while it is read.                                 *)
Heard == Running /\ reading

(* Mutant: a response is taken by whatever waits.                        *)
MutantMatches(id) == Pending # {}

(* _dispatch of a response: the future with its id, if one waits.          *)
Matches(id) == id \in Pending

Answers(id) ==
    /\ Heard /\ id \in unanswered
    /\ unanswered' = unanswered \ {id}
    /\ IF Matches(id) THEN Returns(id) ELSE UNCHANGED <<call, last>>
    /\ UNCHANGED <<version, manager, documents, calls>>

(* _on_notification, of textDocument/publishDiagnostics.                   *)
Publishes(d) ==
    /\ Heard /\ told[d] # 0 /\ d \notin settled
    /\ diagnostics' = [diagnostics EXCEPT ![d] = told[d]]
    /\ settled' = settled \cup {d}
    /\ UNCHANGED <<version, manager, open, told, unanswered, calls, call, last>>

(* _fail_pending: the call that waits is told at once.                     *)
FailPending == IF At({"waiting"}) THEN Refuses ELSE UNCHANGED <<call, last>>

(* ProtocolError: the reader ends, the server does not.                    *)
Garbles ==
    /\ Heard /\ "garbage" \in Faults
    /\ reading' = FALSE /\ FailPending
    /\ UNCHANGED <<version, live, starts, client, failed, documents, unanswered, calls>>

Exits(p) ==
    /\ p \in live /\ "exits" \in Faults
    /\ live' = live \ {p} /\ unanswered' = IF p = client THEN {} ELSE unanswered
    /\ IF p = client THEN reading' = FALSE /\ FailPending ELSE UNCHANGED <<reading, call, last>>
    /\ UNCHANGED <<version, starts, client, failed, documents, calls>>

----------------------------------------------------------------------------
Edits(d) ==
    /\ version[d] <= MaxEdits
    /\ version' = [version EXCEPT ![d] = @ + 1]
    /\ UNCHANGED <<manager, documents, unanswered, calls, call, last>>

(* A second Escape cancels the tool itself, whose answer is then nobody's.  *)
(* client_for has no handler for it: the process it was starting is neither *)
(* kept nor stopped ("cancel").                                             *)
Cancelled ==
    /\ ~At({"idle"}) /\ (At({"starting"}) => "cancel" \in Faults)
    /\ Refuses
    /\ UNCHANGED <<version, manager, documents, unanswered, calls>>

(* aclose: stop_all waits for a start in progress, then stops the client.  *)
(* No turn calls a tool after it.                                          *)
Close ==
    /\ client # 0 /\ ~At({"starting", "resolved"})
    /\ client' = 0 /\ reading' = FALSE /\ live' = Stopped({client})
    /\ calls' = MaxCalls
    /\ Forgets /\ unanswered' = {}
    /\ FailPending
    /\ UNCHANGED <<version, starts, failed>>

Kinds == {"diagnostics", "locate", "symbols"}

Calling ==
    Reuses \/ Remembers \/ Spawns \/ Cannot \/ Starts \/ StartFails \/ Opens \/ Unreadable
    \/ Reports \/ ReportsNothing \/ Asks \/ CannotAsk \/ TimesOut

Next ==
    \/ \E kind \in Kinds, d \in Docs : Begin(kind, d)
    \/ Calling
    \/ \E id \in unanswered : Answers(id)
    \/ \E d \in Docs : Publishes(d) \/ Edits(d)
    \/ Garbles \/ Cancelled \/ Close
    \/ \E p \in live : Exits(p)

Spec == Init /\ [][Next]_vars

----------------------------------------------------------------------------
(* What a call returns is the server's answer to its own question: one     *)
(* that comes after the question timed out is not given to the next.       *)
AnswersAreOwn ==
    last.kind \in {"locate", "symbols"} => last.answer = last.asked

(* No server runs that nobody would stop: it is the one the manager keeps, *)
(* or the one a call is starting.                                          *)
NoOrphans ==
    live \subseteq {client} \cup (IF At({"starting"}) THEN {call.process} ELSE {})

(* "Use it to check work without running a build": a report is about the   *)
(* text the file had when it was asked for, or a later one.                *)
DiagnosticsAreCurrent ==
    last.kind = "diagnostics" /\ last.answer # 0 => last.answer >= last.since
=============================================================================
