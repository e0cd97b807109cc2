--------------------------------- MODULE SignIn ---------------------------------
(***************************************************************************)
(* Connecting a provider from the model picker: a key that is typed, a     *)
(* sign-in through the browser and a callback server, or a code that is    *)
(* entered on another device while the token endpoint is polled.  The      *)
(* user may dismiss the dialog at any moment.                              *)
(*                                                                         *)
(*   view      what the picker shows: "closed", "models", "providers",     *)
(*             "provider" (the models of target), or "dialog"              *)
(*   credential  the usable credential of each provider                    *)
(*   listed    the providers that had one when the catalog was loaded      *)
(*   current   the provider of the settings                                *)
(*   flow      the wait in progress: step, and why it failed               *)
(*   callback  the callback server: listening, and its result              *)
(*   verdict   what the user answered the provider's page                  *)
(*   poll      of a device grant: its deadline, the interval kept, when    *)
(*             the next poll is due and the last one was, the pause the    *)
(*             provider asked for, and whether a poll came too soon        *)
(***************************************************************************)
EXTENDS Naturals

CONSTANTS Providers,
          Brokered,                 \* those whose device code is exchanged by their own broker
          Pauses,                   \* the intervals a grant may name; 0 for none that can be read
          DefaultInterval, MinInterval, MaxInterval, SlowDownStep,
          Expiry, MaxTime, MaxFlows

VARIABLES view, target, credential, listed, current, flow, callback, dismissed,
          verdict, poll, now, flows

picker == <<view, target, listed, current>>
vars == <<picker, credential, flow, callback, dismissed, verdict, poll, now, flows>>

NoFlow   == [step |-> "none", why |-> "none"]
NoServer == [listening |-> FALSE, result |-> "none"]
NoPoll   == [deadline |-> 0, interval |-> 0, due |-> 0, last |-> 0, asked |-> 0, hasty |-> FALSE]

Init ==
    /\ view = "closed" /\ target \in Providers /\ current \in Providers
    /\ credential \in [Providers -> BOOLEAN] /\ listed = {}
    /\ flow = NoFlow /\ callback = NoServer /\ dismissed = FALSE
    /\ verdict = "none" /\ poll = NoPoll /\ now = 1 /\ flows = 0

Usable == {p \in Providers : credential[p]}

At(step) == flow.step = step
To(step) == flow' = [flow EXCEPT !.step = step]
Fail(why) == flow' = [step |-> "failed", why |-> why]

----------------------------------------------------------------------------
(* The picker.                                                             *)

(* _model_workflow, from the command; the catalog is loaded first.         *)
OpenPicker ==
    /\ view = "closed"
    /\ view' \in {"models", "providers"} /\ listed' = Usable
    /\ UNCHANGED <<target, current, credential, flow, callback, dismissed, verdict, poll, now, flows>>

Back ==
    /\ view \in {"models", "providers", "provider"}
    /\ view' \in IF view = "provider" THEN {"models"} ELSE {"closed", "models"}
    /\ UNCHANGED <<target, listed, current, credential, flow, callback, dismissed, verdict, poll, now, flows>>

(* _connect_for_models: a provider that is not connected is asked for.     *)
PickProvider(p) ==
    /\ view \in {"models", "providers"} /\ flows < MaxFlows
    /\ target' = p
    /\ IF p \in listed THEN view' = "provider" /\ flows' = flows
                       ELSE view' = "dialog" /\ flows' = flows + 1
    /\ UNCHANGED <<listed, current, credential, flow, callback, dismissed, verdict, poll, now>>

(* Mutant: the credential of the catalog is not looked at again.           *)
MutantMayAnswer(p) == TRUE

(* _apply_model_choice looks again: the credential may have expired.       *)
MayAnswer(p) == credential[p]

PickModel(p) ==
    /\ view = "models" \/ (view = "provider" /\ p = target)
    /\ p \in listed
    /\ view' = "closed"
    /\ current' = IF MayAnswer(p) THEN p ELSE current
    /\ UNCHANGED <<target, listed, credential, flow, callback, dismissed, verdict, poll, now, flows>>

(* A token that cannot be refreshed reaches its end.                       *)
Expires(p) ==
    /\ p # current /\ credential[p]
    /\ credential' = [credential EXCEPT ![p] = FALSE]
    /\ UNCHANGED <<picker, flow, callback, dismissed, verdict, poll, now, flows>>

(* The dialog comes to its end: the catalog is loaded again.               *)
Return(connected) ==
    /\ view' = IF connected THEN "provider" ELSE "models"
    /\ credential' = IF connected THEN [credential EXCEPT ![target] = TRUE] ELSE credential
    /\ listed' = Usable \cup (IF connected THEN {target} ELSE {})
    /\ flow' = NoFlow /\ dismissed' = FALSE /\ verdict' = "none" /\ poll' = NoPoll
    /\ UNCHANGED <<target, current, now, flows>>

(* _ask_for_api_key: a key, an empty or a refused one.                     *)
TypeKey ==
    /\ view = "dialog" /\ flow = NoFlow
    /\ \E connected \in BOOLEAN : Return(connected)
    /\ UNCHANGED callback

----------------------------------------------------------------------------
(* The browser.                                                            *)

(* begin_login: the port may be taken.                                     *)
BeginLogin ==
    /\ view = "dialog" /\ flow = NoFlow
    /\ \/ callback' = [listening |-> TRUE, result |-> "none"] /\ To("waiting")
       \/ callback' = callback /\ Fail("port")
    /\ UNCHANGED <<picker, credential, dismissed, verdict, poll, now, flows>>

(* The user answers the page of the provider.                              *)
Answers ==
    /\ flow.step \in {"waiting", "polling", "exchanging"} /\ verdict = "none"
    /\ verdict' \in {"approved", "declined"}
    /\ UNCHANGED <<picker, credential, flow, callback, dismissed, poll, now, flows>>

(* What may knock at the port: the redirect of this sign-in, or anything.  *)
Requests ==
    [path : BOOLEAN, state : {"own"}, content : CASE verdict = "approved" -> {"code"}
                                                  [] verdict = "declined" -> {"error"}
                                                  [] OTHER -> {}]
    \cup [path : BOOLEAN, state : {"other"}, content : {"code", "error"}]

(* Mutant: the code is read before the state is compared.                  *)
MutantReadCallback(r) == IF r.content = "code" THEN "code" ELSE "error"

(* read_callback: the state, then an error, then the code.                 *)
ReadCallback(r) == IF r.state = "own" /\ r.content = "code" THEN "code" ELSE "error"

(* _handle: the first request decides, whatever it is.                     *)
Callback(r) ==
    /\ callback.listening
    /\ callback' = [callback EXCEPT !.result =
                       IF @ # "none" THEN @ ELSE IF r.path THEN ReadCallback(r) ELSE "error"]
    /\ UNCHANGED <<picker, credential, flow, dismissed, verdict, poll, now, flows>>

(* PendingLogin.wait: the result, or the timeout of the callback.          *)
Wakes ==
    /\ At("waiting")
    /\ \/ callback.result = "code" /\ To("exchanging")
       \/ callback.result = "error" /\ Fail("callback")
       \/ callback.result = "none" /\ Fail("timeout")
    /\ UNCHANGED <<picker, credential, callback, dismissed, verdict, poll, now, flows>>

(* post_token and parse_token_response.                                    *)
Exchange ==
    /\ At("exchanging")
    /\ To("token") \/ Fail("exchange")
    /\ UNCHANGED <<picker, credential, callback, dismissed, verdict, poll, now, flows>>

----------------------------------------------------------------------------
(* The device code.                                                        *)

Least(a, b) == IF a < b THEN a ELSE b
Most(a, b) == IF a < b THEN b ELSE a

(* parse_device_grant: the interval that is kept of the one granted.       *)
KeptInterval(granted) ==
    Least(Most(IF granted = 0 THEN DefaultInterval ELSE granted, MinInterval), MaxInterval)

(* request_device_grant                                                    *)
RequestGrant ==
    /\ view = "dialog" /\ flow = NoFlow
    /\ \/ /\ To("polling")
          /\ \E granted \in Pauses :
                poll' = [NoPoll EXCEPT !.deadline = now + Expiry, !.interval = KeptInterval(granted),
                                       !.due = now, !.asked = granted]
       \/ poll' = poll /\ Fail("device endpoint")
    /\ UNCHANGED <<picker, credential, callback, dismissed, verdict, now, flows>>

(* What can be asked for with success: no pause is longer than the limit.  *)
Owed(asked) == Least(asked, MaxInterval)

Polled(interval, asked) ==
    poll' = [poll EXCEPT !.interval = interval, !.asked = asked, !.due = now + interval, !.last = now,
                         !.hasty = @ \/ (poll.last # 0 /\ now - poll.last < Owed(poll.asked))]

(* Mutant: the poll after a slow_down keeps to the old interval.           *)
MutantSlower == poll.interval

Slower == Least(poll.interval + SlowDownStep, MaxInterval)

Due(step) == At("polling") /\ now >= poll.due /\ (step = "too late") = (now >= poll.deadline)

(* poll_device_grant: what the provider answers, slow_down as often as it  *)
(* likes.                                                                  *)
Poll ==
    /\ target \notin Brokered
    /\ \/ (Due("too late") \/ Due("expired")) /\ Fail("expired") /\ poll' = poll
       \/ Due("pending") /\ verdict = "none" /\ Polled(poll.interval, poll.asked) /\ flow' = flow
       \/ Due("slow_down") /\ Polled(Slower, poll.asked + SlowDownStep) /\ flow' = flow
       \/ Due("declined") /\ verdict = "declined" /\ Fail("declined") /\ poll' = poll
       \/ Due("other") /\ Fail("refused") /\ poll' = poll
       \/ Due("token") /\ verdict = "approved" /\ To("token") /\ poll' = poll
    /\ UNCHANGED <<picker, credential, callback, dismissed, verdict, now, flows>>

(* _poll_brokered_device_grant: an approval brings a code and its verifier *)
(* to exchange; a refusal has no name.                                     *)
PollBroker ==
    /\ target \in Brokered
    /\ \/ Due("too late") /\ Fail("expired") /\ poll' = poll
       \/ Due("pending") /\ verdict # "approved" /\ Polled(poll.interval, poll.asked) /\ flow' = flow
       \/ Due("other") /\ Fail("refused") /\ poll' = poll
       \/ Due("code") /\ verdict = "approved" /\ To("exchanging") /\ poll' = poll
    /\ UNCHANGED <<picker, credential, callback, dismissed, verdict, now, flows>>

Tick ==
    /\ now < MaxTime /\ At("polling")
    /\ now' = now + 1
    /\ UNCHANGED <<picker, credential, flow, callback, dismissed, verdict, poll, flows>>

----------------------------------------------------------------------------
Dismiss ==
    /\ view = "dialog" /\ flow # NoFlow /\ ~dismissed
    /\ dismissed' = TRUE
    /\ UNCHANGED <<picker, credential, flow, callback, verdict, poll, now, flows>>

(* _await_authorisation: a wait that is over decides, even beside a        *)
(* dismissal; the credential is adopted and stored.                        *)
Connects == At("token") /\ Return(TRUE)

Gives == (At("failed") \/ (dismissed /\ ~At("token"))) /\ Return(FALSE)

(* Mutant: only a sign-in that ends by itself closes its server.           *)
MutantClosed == IF dismissed THEN callback ELSE NoServer

(* finally: pending.close().                                               *)
Closed == NoServer

Decides == flow # NoFlow /\ (Connects \/ Gives) /\ callback' = Closed

Next ==
    \/ OpenPicker \/ Back \/ TypeKey \/ BeginLogin \/ Answers \/ Wakes \/ Exchange
    \/ RequestGrant \/ Poll \/ PollBroker \/ Tick \/ Dismiss \/ Decides
    \/ \E p \in Providers : PickProvider(p) \/ PickModel(p) \/ Expires(p)
    \/ \E r \in Requests : Callback(r)

Spec == Init /\ [][Next]_vars

----------------------------------------------------------------------------
(* A token is only ever one the user approved for this sign-in: "a         *)
(* callback with the wrong state is refused before its code is read".      *)
TokensAreApproved == At("token") => verdict = "approved"

(* "dismissing browser sign-in closes its callback listener", and so does  *)
(* every other end of it.                                                  *)
ListenerIsReleased == callback.listening => flow # NoFlow

(* "The poll respects the provider's interval, backs off on slow_down", as *)
(* far as the limit: of a longer interval, and of a slow_down beyond the   *)
(* limit, only the limit is kept.  And a refusal in the browser is never   *)
(* told of anything else.                                                  *)
PollsArePaced == ~poll.hasty /\ (flow.why = "declined" => verdict = "declined")

(* A model is never chosen of a provider that could not answer.            *)
ChosenCanAnswer == [][current' # current => credential[current']]_vars

SignInIsHonest ==
    [](TokensAreApproved /\ ListenerIsReleased /\ PollsArePaced) /\ ChosenCanAnswer
=============================================================================
