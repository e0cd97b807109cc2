------------------------------ MODULE AgentTurn ------------------------------
(***************************************************************************)
(* One agent and the interface that drives it: agent/agent.py (run, the    *)
(* agentic loop, tool calls, hooks), agent/state.py (the transactional     *)
(* conversation), execution/approval.py (grants), tui/app.py (the worker,  *)
(* the approval slot, modes, cancel, new chat, shutdown).                  *)
(*                                                                         *)
(* agent.run is an async generator that the interface's worker consumes.   *)
(* When the consumer leaves it, on AGENT_ERROR or when a cancellation      *)
(* finds the consumer in an await of its own, the generator is closed by a *)
(* task of the event loop: its finally blocks run detached, with nobody    *)
(* waiting.  abort_turn runs before that task first awaits, so nothing the *)
(* user does comes between; the turn_end hooks after it take their time.   *)
(***************************************************************************)
EXTENDS Naturals, Sequences, FiniteSets, SequencesExt

CONSTANTS
    MaxTurns,       \* prompts submitted
    MaxIterations,  \* model requests of one turn (max_iterations)
    Batches,        \* the sequences of tools a response may call
    Scopes,         \* the scopes a user picks: "once", "session", "workspace"
    MaxChats,       \* new chats
    Hooked          \* the hooks configured: "turn_start", "turn_end"

Tools == {"read_file", "write_file", "web_fetch", "update_plan", "shell"}
Modes == {"build", "plan", "full"}

VARIABLES
    selected,   \* Agent._mode
    active,     \* Agent._active_mode
    run,        \* the generators of agent.run, by turn
    pending,    \* the turn in AgentState, as messages; <<>>: none
    owed,       \* its outstanding tool calls
    completed,  \* how many turns the history has
    grants,     \* reusable grants: <<scope, chat, tool>>
    preauth,    \* Agent._pre_authorised_calls
    worker,     \* the turn the worker consumes; 0: not busy
    asking,     \* the turn whose approval holds the slot; 0: none
    chat,       \* the session shown
    ui,         \* open, clearing (new chat), leaving, draining, gone
    effect      \* the tool that runs, as it was let through

talk == <<pending, owed, completed>>
rights == <<grants, preauth>>
face == <<worker, asking, chat, ui>>
modes == <<selected, active>>
vars == <<modes, run, talk, rights, face, effect>>

Turns == 1..MaxTurns

(* "begin": before begin_turn.  "request": a model request is streamed.    *)
(* "call": the next tool call is looked at.  "stopping": a cancelled tool  *)
(* is awaited.  "answered": AGENT_END is in the consumer's hands.          *)
Pcs == {"idle", "prepare", "begin", "request", "call", "asking", "running",
        "stopping", "answered", "over"}
       \cup {"hook", "gate", "hook_asking", "hook_running"}

NoEffect == [tool |-> "none", mode |-> "build", alone |-> TRUE, asked |-> FALSE]

NewRun == [pc |-> "idle", mode |-> "build", iter |-> 0, stalled |-> FALSE,
           ending |-> FALSE, alone |-> TRUE]

Over == [NewRun EXCEPT !.pc = "over"]

At(t, pcs) == run[t].pc \in pcs
Live(t) == ~At(t, {"idle", "over"})
Detached(t) == Live(t) /\ worker # t

(* The name of a hook's call is that of the hook: two turns that run the   *)
(* same hook share it.                                                     *)
HookOf(t) == IF run[t].ending THEN "turn_end" ELSE "turn_start"

----------------------------------------------------------------------------
(* Modes and grants *)

ToolMode == IF active = "none" THEN selected ELSE active

NextMode(m) == CASE m = "build" -> "plan" [] m = "plan" -> "full" [] m = "full" -> "build"

PlanTools == {"read_file", "web_fetch", "update_plan"}

ModeAllows(m, tool) == m # "plan" \/ tool \in PlanTools

ModeApproves(m, tool) == m = "full" \/ (m = "plan" /\ tool \in PlanTools \ {"web_fetch"})

(* ToolApproval.REQUIRED                                                   *)
Asks(tool) == tool \notin {"update_plan", "shell"}

(* Mutant: a grant is found by its tool alone, whatever chat it was for.   *)
MutantGranted(tool) == \E g \in grants : g[3] = tool

Granted(tool) ==
    \/ <<"session", chat, tool>> \in grants
    \/ \E g \in grants : g[1] = "workspace" /\ g[3] = tool

AllowedScopes(tool) == IF tool = "shell" THEN Scopes \cap {"once"} ELSE Scopes

Remembered(scope, tool) ==
    IF scope = "once" THEN grants ELSE grants \cup {<<scope, chat, tool>>}

----------------------------------------------------------------------------
(* AgentState: a turn is a sequence of messages *)

User == [role |-> "user", calls |-> 0]
Calls(n) == [role |-> "calls", calls |-> n]
Result == [role |-> "tool", calls |-> 0]
Text == [role |-> "text", calls |-> 0]

(* What replace_completed_turns accepts: every batch of calls is followed  *)
(* by its results, and the last message, and no other, is a text.          *)
WellFormed(m) ==
    /\ Len(m) >= 2 /\ m[1] = User /\ Last(m) = Text
    /\ \A i \in 2..Len(m) - 1 : m[i].role \in {"calls", "tool"}
    /\ \A i \in 1..Len(m) : m[i].role = "calls" =>
            /\ i + m[i].calls < Len(m)
            /\ \A j \in i + 1..i + m[i].calls : m[j] = Result
            /\ m[i + m[i].calls + 1] # Result
    /\ m[2] # Result

Aborted == pending' = <<>> /\ owed' = <<>> /\ UNCHANGED completed

Completed ==
    /\ pending # <<>> /\ owed = <<>>
    /\ completed' = completed + 1
    /\ pending' = <<>> /\ owed' = <<>>

(* Mutant: a call is taken for answered although its result is not kept.   *)
MutantRecorded == owed' = Tail(owed) /\ UNCHANGED <<pending, completed>>

Recorded == pending' = Append(pending, Result) /\ owed' = Tail(owed) /\ UNCHANGED completed

----------------------------------------------------------------------------
(* The generator leaves a turn *)

To(t, pc) == run' = [run EXCEPT ![t].pc = pc]

Free(t) == worker' = IF worker = t THEN 0 ELSE worker

(* The end of run(): the active mode goes, whoever has set it.             *)
Finish(t) ==
    /\ run' = [run EXCEPT ![t] = Over]
    /\ active' = "none"
    /\ Free(t)

(* Mutant: a turn that is left runs no turn_end hooks and its pending      *)
(* messages stay.                                                          *)
MutantEndTurn(t) == run' = [run EXCEPT ![t].pc = "over"] /\ active' = "none" /\ UNCHANGED talk

(* The inner finally: abort_turn, then the turn_end hooks.                 *)
EndTurn(t) ==
    /\ Aborted
    /\ IF run[t].mode # "plan" /\ "turn_end" \in Hooked
       THEN run' = [run EXCEPT ![t].pc = "hook", ![t].ending = TRUE] /\ UNCHANGED active
       ELSE run' = [run EXCEPT ![t] = Over] /\ active' = "none"

(* The consumer is the one that left: it is done, and the generator ends   *)
(* on its own.                                                             *)
Detach(t) == EndTurn(t) /\ worker' = (IF worker = t THEN 0 ELSE worker)

(* The worker waits for the end of the generator.                          *)
Leave(t) == EndTurn(t) /\ worker' = IF run'[t].pc = "over" /\ worker = t THEN 0 ELSE worker

----------------------------------------------------------------------------
Init ==
    /\ selected \in Modes \ {"full"} /\ active = "none"
    /\ run = [t \in Turns |-> NewRun]
    /\ pending = <<>> /\ owed = <<>> /\ completed = 0
    /\ grants = {} /\ preauth = {}
    /\ worker = 0 /\ asking = 0 /\ chat = 0 /\ ui = "open"
    /\ effect = NoEffect

(* _submit_prompt, and run() up to its first await.                        *)
Submit(t) ==
    /\ ui = "open" /\ worker = 0
    /\ At(t, {"idle"}) /\ \A s \in 1..t - 1 : ~At(s, {"idle"})
    /\ worker' = t /\ active' = selected
    /\ LET company == \E s \in Turns : Live(s) IN
       run' = [s \in Turns |->
            IF s = t THEN [NewRun EXCEPT !.mode = selected, !.alone = ~company,
                                         !.pc = IF selected = "plan" THEN "begin" ELSE "prepare"]
            ELSE IF Live(s) THEN [run[s] EXCEPT !.alone = FALSE]
            ELSE run[s]]
    /\ UNCHANGED <<selected, talk, rights, asking, chat, ui, effect>>

(* The checkpoint, the compaction.                                         *)
Prepare(t) ==
    /\ At(t, {"prepare"})
    /\ To(t, IF "turn_start" \in Hooked THEN "hook" ELSE "begin")
    /\ UNCHANGED <<modes, talk, rights, face, effect>>

(* HookRunner._run_one: pre-authorised by its call id.                     *)
HookStarts(t) ==
    /\ At(t, {"hook"})
    /\ preauth' = preauth \cup {HookOf(t)}
    /\ To(t, "gate")
    /\ UNCHANGED <<modes, talk, grants, face, effect>>

HookAuthorised(t) == HookOf(t) \in preauth \/ ModeApproves(ToolMode, "shell")

(* The approval gate of its execution, if the policy asks at all.          *)
HookGate(t) ==
    /\ At(t, {"gate"})
    /\ \/ To(t, "hook_running") /\ UNCHANGED asking
       \/ /\ ~HookAuthorised(t)
          /\ To(t, "hook_asking") /\ asking' = t
    /\ UNCHANGED <<modes, talk, rights, worker, chat, ui, effect>>

(* It ran, was refused, or failed: release, then the turn begins or ends.  *)
HookLeaves(t) ==
    /\ preauth' = preauth \ {HookOf(t)}
    /\ IF run[t].ending THEN Finish(t)
       ELSE To(t, "begin") /\ UNCHANGED <<active, worker>>

HookEnds(t) ==
    /\ At(t, {"hook_running"})
    /\ HookLeaves(t)
    /\ UNCHANGED <<selected, talk, grants, asking, chat, ui, effect>>

(* begin_turn; a turn that is already active is an error, before any hook. *)
Begin(t) ==
    /\ At(t, {"begin"})
    /\ IF pending = <<>>
       THEN /\ pending' = <<User>> /\ owed' = <<>>
            /\ run' = [run EXCEPT ![t].pc = "request", ![t].iter = 1]
            /\ UNCHANGED <<active, worker, completed>>
       ELSE Finish(t) /\ UNCHANGED talk
    /\ UNCHANGED <<selected, rights, asking, chat, ui, effect>>

(* A failed request, a stream that ends early, a response with nothing,    *)
(* calls that repeat an id, an exhausted budget: AGENT_ERROR.              *)
Fails(t) ==
    /\ At(t, {"request"})
    /\ Detach(t)
    /\ UNCHANGED <<selected, rights, asking, chat, ui, effect>>

(* The final text, also of a stalled turn that asks for tools once more.   *)
Answers(t) ==
    /\ At(t, {"request"})
    /\ Completed
    /\ To(t, "answered")
    /\ UNCHANGED <<modes, rights, face, effect>>

CallsTools(t) ==
    /\ At(t, {"request"}) /\ ~run[t].stalled
    /\ \E batch \in Batches :
            /\ pending' = Append(pending, Calls(Len(batch)))
            /\ owed' = batch
    /\ To(t, "call")
    /\ UNCHANGED <<modes, completed, rights, face, effect>>

(* After a result: the next call, or the next request with the verdict of  *)
(* the progress monitor, or the end of the budget.                         *)
NextStep(t) ==
    IF Len(owed) > 1 THEN To(t, "call")
    ELSE \E notice \in BOOLEAN :
            run' = [run EXCEPT ![t].pc = "request", ![t].iter = @ + 1, ![t].stalled = notice]

(* The mode withholds it, its name or its arguments are wrong.             *)
Refused(t) ==
    /\ At(t, {"call"})
    /\ Recorded /\ NextStep(t)
    /\ UNCHANGED <<modes, rights, face, effect>>

Overrun(t) == run[t].iter > MaxIterations

(* range(max_iterations) is exhausted: an error, not one more request.     *)
Exhausted(t) ==
    /\ At(t, {"request"}) /\ Overrun(t)
    /\ Detach(t)
    /\ UNCHANGED <<selected, rights, asking, chat, ui, effect>>

Runs(t, tool, asked) ==
    effect' = [tool |-> tool, mode |-> run[t].mode, alone |-> run[t].alone, asked |-> asked]

(* Nothing asks: not required, the mode's approval, or a grant.            *)
RunsFreely(t) ==
    /\ At(t, {"call"}) /\ ModeAllows(ToolMode, Head(owed))
    /\ LET tool == Head(owed) IN
        /\ \/ tool = "update_plan"
           \/ ModeApproves(ToolMode, tool)
           \/ Asks(tool) /\ Granted(tool)
        /\ Runs(t, tool, FALSE)
    /\ To(t, "running")
    /\ UNCHANGED <<modes, talk, rights, face>>

(* The handler registers its future: the tool's own approval, or the gate  *)
(* of the execution a shell call has started.                              *)
AsksUser(t) ==
    /\ At(t, {"call"}) /\ ModeAllows(ToolMode, Head(owed))
    /\ Asks(Head(owed)) \/ Head(owed) = "shell"
    /\ ~ModeApproves(ToolMode, Head(owed))
    /\ Asks(Head(owed)) => ~Granted(Head(owed))
    /\ To(t, "asking") /\ asking' = t
    /\ UNCHANGED <<modes, talk, rights, worker, chat, ui, effect>>

(* A policy may allow a command outright.                                  *)
ShellAllowed(t) ==
    /\ At(t, {"call"}) /\ ModeAllows(ToolMode, Head(owed)) /\ Head(owed) = "shell"
    /\ To(t, "running") /\ Runs(t, "shell", TRUE)
    /\ UNCHANGED <<modes, talk, rights, face>>

(* What the tool answers, an error included.                               *)
ToolEnds(t) ==
    /\ At(t, {"running"})
    /\ Recorded /\ NextStep(t) /\ effect' = NoEffect
    /\ UNCHANGED <<modes, rights, face>>

(* A cancelled tool has ended: the cancellation goes on.                   *)
ToolStops(t) ==
    /\ At(t, {"stopping"})
    /\ Leave(t) /\ effect' = NoEffect
    /\ UNCHANGED <<selected, rights, asking, chat, ui>>

(* The consumer is through with AGENT_END; the generator comes to its end. *)
Announced(t) ==
    /\ At(t, {"answered"})
    /\ Leave(t)
    /\ UNCHANGED <<selected, rights, asking, chat, ui, effect>>

----------------------------------------------------------------------------
(* The user *)

(* _resolve_pending_approval with a scope.                                 *)
Approve(t) ==
    /\ ui = "open" /\ asking = t /\ asking' = 0
    /\ IF At(t, {"hook_asking"})
       THEN To(t, "hook_running") /\ UNCHANGED <<grants, effect>>
       ELSE LET tool == Head(owed) IN
            /\ \E scope \in AllowedScopes(tool) : grants' = Remembered(scope, tool)
            /\ Runs(t, tool, TRUE) /\ To(t, "running")
    /\ UNCHANGED <<modes, talk, preauth, worker, chat, ui>>

(* The rejected call is a result like another; a rejected hook is over.    *)
Rejected(t) ==
    IF At(t, {"hook_asking"}) THEN HookLeaves(t) /\ UNCHANGED talk
    ELSE Recorded /\ NextStep(t) /\ UNCHANGED <<active, preauth, worker>>

Reject(t) ==
    /\ ui = "open" /\ asking = t /\ asking' = 0
    /\ Rejected(t)
    /\ UNCHANGED <<selected, grants, chat, ui, effect>>

(* shift+tab; Full Access is confirmed on a screen of its own, once.       *)
CycleMode ==
    /\ ui = "open" /\ asking = 0
    /\ selected' = NextMode(selected)
    /\ UNCHANGED <<active, run, talk, rights, face, effect>>

Executing(t) == At(t, {"hook_running"}) \/ (At(t, {"running"}) /\ Head(owed) = "shell")

InterruptWait(t) ==
    \/ /\ At(t, {"prepare", "begin"})
       /\ Finish(t) /\ UNCHANGED <<talk, preauth, asking>>
    \/ /\ At(t, {"hook", "gate", "hook_asking", "hook_running"})
       /\ Finish(t) /\ preauth' = preauth \ {HookOf(t)}
       /\ asking' = (IF At(t, {"hook_asking"}) THEN 0 ELSE asking) /\ UNCHANGED talk
    \/ /\ At(t, {"request", "asking"})
       /\ Leave(t) /\ asking' = (IF At(t, {"asking"}) THEN 0 ELSE asking) /\ UNCHANGED preauth
    \/ /\ At(t, {"running"})
       /\ To(t, "stopping") /\ UNCHANGED <<active, talk, worker, asking, preauth>>
    \/ (* the consumer was awaiting: a delta, a card, the summary *)
       /\ At(t, {"request", "call", "answered"})
       /\ Detach(t) /\ UNCHANGED <<asking, preauth>>

(* What a cancellation of the worker does to the generator's await.  The   *)
(* first one asks a running tool to stop and waits for it, a second one    *)
(* gives the tool up.                                                      *)
Interrupt(t) ==
    \/ /\ At(t, {"stopping"})
       /\ Leave(t) /\ effect' = NoEffect /\ UNCHANGED <<asking, preauth>>
    \/ ~At(t, {"stopping"}) /\ UNCHANGED effect /\ InterruptWait(t)

(* action_cancel_response: executions before the worker.                   *)
CancelResponse(t) ==
    /\ ui = "open" /\ asking = 0 /\ worker = t
    /\ \A s \in Turns : ~Executing(s)
    /\ Interrupt(t)
    /\ UNCHANGED <<selected, grants, chat, ui>>

(* action_new_chat: the worker is cancelled and awaited, and no message of *)
(* the interface is handled meanwhile.                                     *)
NewChat ==
    /\ ui = "open" /\ chat < MaxChats
    /\ IF worker = 0 THEN UNCHANGED <<run, active, talk, worker, asking, preauth, effect>>
       ELSE Interrupt(worker)
    /\ ui' = "clearing"
    /\ UNCHANGED <<selected, grants, chat>>

(* create_session resets the conversation.                                 *)
Cleared ==
    /\ ui = "clearing" /\ worker = 0
    /\ chat' = chat + 1 /\ ui' = "open" /\ asking' = 0
    /\ pending' = <<>> /\ owed' = <<>> /\ completed' = 0
    /\ UNCHANGED <<modes, run, rights, worker, effect>>

(* on_unmount: the approval is rejected, then the worker is cancelled.     *)
Quit ==
    /\ ui = "open" /\ ui' = "leaving" /\ asking' = 0
    /\ IF asking = 0 THEN UNCHANGED <<run, active, talk, worker, preauth>> ELSE Rejected(asking)
    /\ UNCHANGED <<selected, grants, chat, effect>>

Drain ==
    /\ ui = "leaving" /\ ui' = "draining"
    /\ IF worker = 0 THEN UNCHANGED <<run, active, talk, worker, asking, preauth, effect>>
       ELSE Interrupt(worker)
    /\ UNCHANGED <<selected, grants, chat>>

(* The worker has ended, or the time to wait for it.                       *)
Gone ==
    /\ ui = "draining" /\ ui' = "gone"
    /\ UNCHANGED <<modes, run, talk, rights, worker, asking, chat, effect>>

----------------------------------------------------------------------------
(* With the interface gone the process ends, and nothing steps.            *)
AgentStep(t) ==
    /\ ui # "gone"
    /\ \/ Prepare(t) \/ HookStarts(t) \/ HookGate(t) \/ HookEnds(t) \/ Begin(t)
       \/ ~Overrun(t) /\ (Answers(t) \/ CallsTools(t) \/ Fails(t))
       \/ Exhausted(t)
       \/ Refused(t) \/ RunsFreely(t) \/ AsksUser(t) \/ ShellAllowed(t)
       \/ ToolEnds(t) \/ ToolStops(t) \/ Announced(t)

Next ==
    \/ \E t \in Turns : AgentStep(t) \/ Submit(t) \/ Approve(t) \/ Reject(t) \/ CancelResponse(t)
    \/ CycleMode \/ NewChat \/ Cleared \/ Quit \/ Drain \/ Gone

Spec == Init /\ [][Next]_vars

----------------------------------------------------------------------------
(* Completed history contains only valid turns: every call has its result, *)
(* in order, whatever was cancelled, refused or left half way.             *)
HistoryIsWhole == [][completed' > completed => WellFormed(Append(pending, Text))]_vars

(* The pending turn belongs to the turn the user sees, and the generator   *)
(* that was left detached never finds, nor clears, the messages of another.*)
PendingHasOwner ==
    pending # <<>> =>
        /\ worker # 0
        /\ At(worker, {"request", "call", "asking", "running", "stopping"})
        /\ \A t \in Turns \ {worker} : Live(t) => run[t].ending

(* The tool that runs was withheld by no mode and allowed by somebody: the *)
(* mode of its turn, a grant that covers it, or the user's answer to this  *)
(* very call.  Turns that overlap with the end of another are left to      *)
(* PlanWithholds.                                                          *)
EffectsAreAllowed ==
    effect # NoEffect /\ effect.alone =>
        /\ ModeAllows(effect.mode, effect.tool)
        /\ \/ effect.asked \/ ModeApproves(effect.mode, effect.tool) \/ ~Asks(effect.tool)
           \/ \E g \in grants : g[3] = effect.tool /\ (g[1] = "session" => g[2] = chat)

(* A hook is authorised by configuration, never by a prompt; and whoever   *)
(* waits for an answer holds the slot the answer goes to.                  *)
WaitersHoldTheSlot ==
    \A t \in Turns : run[t].alone =>
        /\ ~At(t, {"hook_asking"})
        /\ At(t, {"asking"}) <=> asking = t

(* One turn at a time: no message and no question of a turn is another's.  *)
OneTurnAtATime == PendingHasOwner /\ WaitersHoldTheSlot

(* docs/ARCHITECTURE.md: Plan withholds mutating tools, and a turn keeps   *)
(* the mode it was submitted under.                                        *)
PlanWithholds == effect # NoEffect /\ effect.mode = "plan" => effect.tool \in PlanTools
=============================================================================
