----------------------------- MODULE ModelReplies -----------------------------
(***************************************************************************)
(* What the client translates: the history of a session into the request   *)
(* of one of four wire protocols, and the reply that comes back, in pieces *)
(* or whole, into one text and one list of tool calls, which the agent     *)
(* records in the turn.  Requests that fail and are retried are the        *)
(* subject of ModelRequests; here a reply may also end too early.          *)
(*                                                                         *)
(*   transport  the protocol of the provider in use                        *)
(*   turns      the messages of the completed turns                        *)
(*   pending    those of the turn in progress                              *)
(*   seen       the call ids of the turn in progress                       *)
(*   reply      what the server sends, known to the server alone           *)
(*   progress   how many events of each call have arrived                  *)
(*   buffers    the calls the adapter has put together so far              *)
(*   calls      the calls of the completed reply                           *)
(***************************************************************************)
EXTENDS Naturals, Sequences, FiniteSets

CONSTANTS Transports,   \* subset of {"chat", "responses", "anthropic", "google"}
          Names,        \* names of tools
          SendsIds,     \* a Gemini server gives every call an id of its own
          MaxReplies,   \* bound on the replies of a session
          MaxCalls,     \* bound on the calls of a reply
          MaxMade       \* bound on the calls of a session

VARIABLES transport, turns, pending, seen, reply, progress, buffers, calls, pc, served

talk == <<turns, pending, seen>>
wire == <<reply, progress, buffers, calls>>
vars == <<transport, talk, wire, pc, served>>

(* An id is of a reply and of a call in it; a made-up one is of no reply.  *)
NoId    == [reply |-> 0, call |-> 0]
NoReply == [text |-> FALSE, names |-> <<>>, cut |-> FALSE]

Message(role, text, made, id) == [role |-> role, text |-> text, calls |-> made, id |-> id]
User == Message("user", TRUE, <<>>, NoId)
Tool(id) == Message("tool", TRUE, <<>>, id)
Assistant(text, made) == Message("assistant", text, made, NoId)

History == turns \o pending

Init ==
    /\ transport \in Transports
    /\ turns = <<>> /\ pending = <<>> /\ seen = {}
    /\ reply = NoReply /\ progress = <<>> /\ buffers = <<>> /\ calls = <<>>
    /\ pc = "idle" /\ served = 0

(* Lists, one after the other.                                             *)
Joined(lists) ==
    LET join[n \in 0..Len(lists)] == IF n = 0 THEN <<>> ELSE join[n - 1] \o lists[n]
    IN  join[Len(lists)]

----------------------------------------------------------------------------
(* The request: a list of items.  A call is of what identifies it, a       *)
(* result is of what it names as its call.                                 *)
Item(kind, of) == [kind |-> kind, of |-> of]
Texts(m) == IF m.text THEN <<Item("text", m.role)>> ELSE <<>>

(* responses_input: a flat list; a text of the assistant only if it has    *)
(* one.                                                                    *)
Items(m) ==
    IF m.role = "tool" THEN <<Item("result", m.id)>>
    ELSE Texts(m) \o [k \in 1..Len(m.calls) |-> Item("call", m.calls[k].id)]

ResponsesItems(messages) == Joined([i \in 1..Len(messages) |-> Items(messages[i])])

(* Mutant: every message becomes one of its own.                           *)
MutantAppendContent(list, role, content) == Append(list, [role |-> role, content |-> content])

(* _append_content: content of the role that spoke last joins its message. *)
AppendContent(list, role, content) ==
    IF content = <<>> THEN list
    ELSE IF list # <<>> /\ list[Len(list)].role = role
    THEN [list EXCEPT ![Len(list)].content = @ \o content]
    ELSE Append(list, [role |-> role, content |-> content])

AnthropicMessages(messages) ==
    LET list[n \in 0..Len(messages)] ==
            IF n = 0 THEN <<>>
            ELSE AppendContent(list[n - 1],
                    IF messages[n].role = "assistant" THEN "assistant" ELSE "user",
                    Items(messages[n]))
    IN  list[Len(messages)]

AllCalls(messages) == Joined([i \in 1..Len(messages) |-> messages[i].calls])

(* _call_names: one name for each id of the whole history, the last one.   *)
CallName(messages, id) ==
    LET all == AllCalls(messages)
        last == CHOOSE n \in DOMAIN all :
                    all[n].id = id /\ \A m \in DOMAIN all : all[m].id = id => m <= n
    IN  all[last].name

(* google_request: calls and results carry the name of the function.       *)
GoogleParts(m, messages) ==
    IF m.role = "tool" THEN <<Item("result", CallName(messages, m.id))>>
    ELSE Texts(m) \o [k \in 1..Len(m.calls) |-> Item("call", m.calls[k].name)]

GoogleContents(messages) ==
    Joined([i \in 1..Len(messages) |-> GoogleParts(messages[i], messages)])

Contents(list) == Joined([i \in 1..Len(list) |-> list[i].content])

(* The content of the request, in order.  A chat request is the history.   *)
Content ==
    CASE transport = "anthropic" -> Contents(AnthropicMessages(History))
      [] transport = "google" -> GoogleContents(History)
      [] OTHER -> ResponsesItems(History)

----------------------------------------------------------------------------
(* The reply.                                                              *)

ArgumentsOf(k) == <<2 * k, 2 * k + 1>>

(* The k-th call as the server means it.                                   *)
Meant(k) ==
    [id |-> IF transport = "google" /\ ~SendsIds THEN NoId ELSE [reply |-> served, call |-> k],
     name |-> reply.names[k], args |-> ArgumentsOf(k)]

(* What a tool call takes no arguments by; a call that is not named yet.   *)
Braces  == <<0>>
Unnamed == [id |-> NoId, name |-> "", args |-> <<>>]

Put(k, call) == [i \in DOMAIN buffers \cup {k} |-> IF i = k THEN call ELSE buffers[i]]

Advance(k) == progress' = [progress EXCEPT ![k] = @ + 1]

InOrder(k) == \A j \in 1..(k - 1) : progress[j] = 3

(* What has been collected of a call; its arguments come in two pieces.    *)
Buffer(k) == IF k \in DOMAIN buffers THEN buffers[k] ELSE Unnamed
Begun(k)  == IF progress[k] = 0 THEN 1 ELSE progress[k]
Longer(k) == Append(Buffer(k).args, ArgumentsOf(k)[Begun(k)])
Named(k)  == [Meant(k) EXCEPT !.args = <<>>]
Grown(k)  == [Buffer(k) EXCEPT !.args = Longer(k)]

(* _stream_response: a fragment of an index brings the id or the name of   *)
(* the call, early, late or again, or the next piece of its arguments.     *)
ChatFragment(k) ==
    /\ transport = "chat"
    /\ \E brings \in SUBSET {"id", "name"}, more \in {0, 1} :
         /\ Begun(k) + more <= 3
         /\ progress' = [progress EXCEPT ![k] = Begun(k) + more]
         /\ buffers' = Put(k,
              [id   |-> IF "id" \in brings THEN Meant(k).id ELSE Buffer(k).id,
               name |-> IF "name" \in brings THEN Meant(k).name ELSE Buffer(k).name,
               args |-> IF more = 0 THEN Buffer(k).args ELSE Longer(k)])

(* A fragment brings another id, or another name, than an earlier one did. *)
Contradicted(k) == transport = "chat" /\ (Buffer(k).id # NoId \/ Buffer(k).name # "")

(* Mutant: the finished item is added to what has been collected.          *)
MutantItemDone(k) == [buffers EXCEPT ![k].args = @ \o ArgumentsOf(k)]

(* An item that is done brings its whole arguments again.                  *)
ItemDone(k) == Put(k, Meant(k))

(* stream_response: added, the pieces of the arguments, done.              *)
ResponsesEvent(k) ==
    /\ transport = "responses" /\ progress[k] < 4
    /\ buffers' = CASE progress[k] = 0 -> Put(k, Named(k))
                    [] progress[k] = 3 -> ItemDone(k)
                    [] OTHER -> Put(k, Grown(k))
    /\ Advance(k)

(* absorb_tool_calls: the completed response replaces what was collected.  *)
Absorbed == [k \in 1..Len(reply.names) |-> Meant(k)]

(* _anthropic_stream: blocks one after the other.                          *)
AnthropicEvent(k) ==
    /\ transport = "anthropic" /\ progress[k] < 3 /\ InOrder(k)
    /\ buffers' = Put(k, IF progress[k] = 0 THEN Named(k) ELSE Grown(k))
    /\ Advance(k)

(* A call without an id is numbered within its reply.                      *)
Numbered(call, k) == IF call.id = NoId THEN [call EXCEPT !.id.call = k] ELSE call

(* _google_stream: a call comes in one part.                               *)
GooglePart(k) ==
    /\ transport = "google" /\ progress[k] = 0 /\ InOrder(k)
    /\ buffers' = Put(k, Numbered(Meant(k), k))
    /\ progress' = [progress EXCEPT ![k] = 3]

(* _anthropic_stream: a call that no piece came of takes no arguments.     *)
Completed(call) ==
    IF transport = "anthropic" /\ call.args = <<>> THEN [call EXCEPT !.args = Braces] ELSE call

(* completed_tool_calls, and its like in the other adapters: by index.     *)
CompletedCalls ==
    Joined([k \in 1..Len(reply.names) |->
               IF k \in DOMAIN buffers THEN <<Completed(buffers[k])>> ELSE <<>>])

(* Every event has come, or the stream ended early, which no adapter       *)
(* distinguishes.                                                          *)
Ended == reply.cut \/ \A k \in DOMAIN progress : progress[k] >= 3

(* A call without an id or a name fails the reply, as does one that was    *)
(* given two.                                                              *)
Nameless == \E k \in DOMAIN buffers : buffers[k].id = NoId \/ buffers[k].name = ""

Fails ==
    /\ pc = "stream"
    /\ (Ended /\ Nameless) \/ \E k \in DOMAIN progress : Contradicted(k)
    /\ pc' = "failed"
    /\ UNCHANGED <<transport, talk, wire, served>>

(* The reply is complete.                                                  *)
Finishes ==
    /\ pc = "stream" /\ Ended /\ ~Nameless
    /\ calls' = IF transport = "responses" /\ ~reply.cut THEN Absorbed ELSE CompletedCalls
    /\ pc' = "answered"
    /\ UNCHANGED <<transport, talk, reply, progress, buffers, served>>

(* non_stream_response, anthropic_completion, google_completion and        *)
(* _non_stream_response: the same calls from one payload.                  *)
AnswersAtOnce ==
    /\ pc = "stream" /\ ~reply.cut /\ buffers = <<>>
    /\ calls' = [k \in 1..Len(reply.names) |->
                    IF transport = "google" THEN Numbered(Meant(k), k) ELSE Meant(k)]
    /\ pc' = "answered"
    /\ UNCHANGED <<transport, talk, reply, progress, buffers, served>>

Arrives ==
    /\ pc = "stream"
    /\ \E k \in DOMAIN progress :
         ChatFragment(k) \/ ResponsesEvent(k) \/ AnthropicEvent(k) \/ GooglePart(k)
    /\ UNCHANGED <<transport, talk, reply, calls, pc, served>>

(* The server: any text, any calls, and perhaps an early end.              *)
Serve ==
    /\ pc = "request" /\ served < MaxReplies
    /\ served' = served + 1
    /\ \E text \in BOOLEAN, names \in UNION {[1..n -> Names] : n \in 0..MaxCalls}, cut \in BOOLEAN :
         /\ Len(names) + Len(AllCalls(History)) <= MaxMade
         /\ reply' = [text |-> text, names |-> names, cut |-> cut]
         /\ progress' = [k \in 1..Len(names) |-> 0]
    /\ buffers' = <<>> /\ calls' = <<>> /\ pc' = "stream"
    /\ UNCHANGED <<transport, talk>>

----------------------------------------------------------------------------
(* The agent.                                                              *)
Ask ==
    /\ pc = "idle" /\ served < MaxReplies
    /\ pending' = <<User>> /\ seen' = {} /\ pc' = "request"
    /\ UNCHANGED <<transport, turns, wire, served>>

Settled == reply' = NoReply /\ progress' = <<>> /\ buffers' = <<>> /\ calls' = <<>>

(* abort_turn: a failure or an interruption at any point.                  *)
Abort ==
    /\ pc # "idle"
    /\ pending' = <<>> /\ seen' = {} /\ pc' = "idle" /\ Settled
    /\ UNCHANGED <<transport, turns, served>>

Ids == {calls[i].id : i \in DOMAIN calls}

(* record_tool_calls: ids must be new to the turn.                         *)
Recordable == Cardinality(Ids) = Len(calls) /\ Ids \cap seen = {}

(* The calls and then their results, in order.                             *)
Records ==
    /\ pc = "answered" /\ calls # <<>> /\ Recordable
    /\ pending' = Append(pending, Assistant(reply.text, calls))
                    \o [i \in 1..Len(calls) |-> Tool(calls[i].id)]
    /\ seen' = seen \cup Ids /\ pc' = "request" /\ Settled
    /\ UNCHANGED <<transport, turns, served>>

Completes ==
    /\ pc = "answered" /\ calls = <<>> /\ reply.text
    /\ turns' = turns \o Append(pending, Assistant(TRUE, <<>>))
    /\ pending' = <<>> /\ seen' = {} /\ pc' = "idle" /\ Settled
    /\ UNCHANGED <<transport, served>>

Next ==
    \/ Ask \/ Serve \/ Arrives \/ Finishes \/ AnswersAtOnce \/ Fails
    \/ Records \/ Completes \/ Abort

Spec == Init /\ [][Next]_vars

----------------------------------------------------------------------------
(* What the items of a kind are of, in order.                              *)
Select(kind, items) ==
    Joined([n \in 1..Len(items) |-> IF items[n].kind = kind THEN <<items[n].of>> ELSE <<>>])

(* "tool calls always have matching results": in the request of every      *)
(* protocol the n-th result names the n-th call.                           *)
ResultsMatchCalls ==
    pc = "request" => Select("call", Content) = Select("result", Content)

(* Messages' roles alternate, from the user's, and the results of an       *)
(* assistant's calls are all in the message that follows.                  *)
RolesAlternate ==
    (pc = "request" /\ transport = "anthropic") =>
        LET list == AnthropicMessages(History)
        IN  /\ list # <<>> /\ list[1].role = "user" /\ list[Len(list)].role = "user"
            /\ \A i \in 1..(Len(list) - 1) :
                 /\ list[i].role # list[i + 1].role
                 /\ Select("call", list[i].content) = Select("result", list[i + 1].content)

(* However its events are interleaved, and however late a call is named,   *)
(* the calls of a whole reply are the server's, in its order.  Those of a  *)
(* reply cut short keep their ids, their names and their order; what has   *)
(* come of their arguments is the beginning of what the server meant, and  *)
(* nothing of the arguments becomes an empty object with Anthropic.        *)
CallsAreTheServers ==
    pc = "answered" =>
        \E at \in [1..Len(calls) -> 1..Len(reply.names)] :
            /\ \A i, j \in 1..Len(calls) : i < j => at[i] < at[j]
            /\ \A i \in 1..Len(calls) :
                 LET call == Meant(at[i])
                 IN  /\ calls[i].name = call.name
                     /\ calls[i].id = Numbered(call, at[i]).id
                     /\ \/ \E n \in 0..Len(call.args) : calls[i].args = SubSeq(call.args, 1, n)
                        \/ transport = "anthropic" /\ calls[i].args = Braces
                     /\ ~reply.cut => calls[i].args = call.args
            /\ ~reply.cut => Len(calls) = Len(reply.names)

RepliesAreWhole == CallsAreTheServers /\ RolesAlternate /\ ResultsMatchCalls
=============================================================================
