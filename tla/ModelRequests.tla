--------------------------- MODULE ModelRequests ----------------------------
(***************************************************************************)
(* A request to the model and the credential it carries:                   *)
(* client/llm_client.py, SessionSettings and credential_for_provider in    *)
(* providers/models.py, providers/tokens.py, and what /models, /login and  *)
(* /logout change in tui/app.py, at any time, while a request is made.     *)
(*                                                                         *)
(* A credential is <<provider, number>>: whose it is, and which.  One that *)
(* never ages is an API key or a token that cannot be exchanged.           *)
(***************************************************************************)
EXTENDS Naturals, FiniteSets

CONSTANTS
    Providers,
    Native,      \* providers reached by native_completion
    MaxRetries,  \* LLMClient._max_retries
    MaxIssued,   \* credentials given out
    MaxRequests

VARIABLES
    provider,   \* settings.provider
    credential, \* settings.credential
    model,      \* settings.model, by the provider that serves it
    cached,     \* LLMClient.__client: the provider and credential it was built with
    session,    \* _session_credentials
    stored,     \* tokens.json and keys.json
    aging,      \* credentials within the refresh margin
    issued,     \* credentials given out
    request,    \* the request in progress
    heard,      \* attempts of it that an event was passed on from
    sent,       \* what its last attempt was sent with
    requests,   \* requests made
    forgotten,  \* providers logged out from, and not connected again since
    strayed     \* what a refresh put under a provider that is not the token's

settings == <<provider, credential, model, cached>>
accounts == <<session, stored, aging, issued, forgotten, strayed>>
vars == <<settings, accounts, request, heard, sent, requests>>

NoCredential == <<"none", 0>>
NoClient == [provider |-> "none", credential |-> NoCredential]
NoRequest == [pc |-> "idle", old |-> NoCredential, native |-> FALSE, model |-> "none",
              client |-> NoClient, open |-> FALSE, attempt |-> 0]
NothingSent == [provider |-> "none", credential |-> NoCredential, model |-> "none"]

At(pcs) == request.pc \in pcs
Idle == request' = NoRequest

Init ==
    /\ provider \in Providers /\ model = provider
    /\ credential = <<provider, 1>> /\ cached = NoClient
    /\ session = [p \in Providers |-> NoCredential]
    /\ stored = [p \in Providers |-> IF p = provider THEN credential ELSE NoCredential]
    /\ aging = {} /\ issued = 1 /\ request = NoRequest /\ heard = {}
    /\ sent = NothingSent /\ requests = 0 /\ forgotten = {} /\ strayed = {}

(* SessionSettings.use: a connection that changes drops the client, which  *)
(* closes it under a request that has it.                                  *)
Changes(p, c) == <<p, c>> # <<provider, credential>>

Use(p, c) ==
    /\ provider' = p /\ credential' = c
    /\ cached' = IF Changes(p, c) THEN NoClient ELSE cached

Closed(p, c) == Changes(p, c) /\ cached # NoClient

StillOpen(p, c) == request.open /\ ~Closed(p, c)

----------------------------------------------------------------------------
(* _is_stale: an OAuth token that can be exchanged for a newer one.        *)
Stale(c) == c \in aging

Send ==
    /\ At({"idle"}) /\ requests < MaxRequests
    /\ requests' = requests + 1 /\ heard' = {} /\ sent' = NothingSent
    /\ request' = [NoRequest EXCEPT !.pc = IF Stale(credential) THEN "refreshing" ELSE "refreshed",
                                    !.old = credential]
    /\ UNCHANGED <<settings, accounts>>

(* refresh_credential: what comes back goes into the settings as they are  *)
(* then, and into the file.  The user may have chosen another provider.    *)
Refreshes ==
    /\ At({"refreshing"}) /\ issued < MaxIssued
    /\ issued' = issued + 1
    /\ LET new == <<request.old[1], issued + 1>>
       IN  /\ Use(provider, new)
           /\ stored' = [stored EXCEPT ![request.old[1]] = new]
           /\ strayed' = strayed \cup IF provider = request.old[1] THEN {} ELSE {<<provider, new>>}
    /\ request' = [request EXCEPT !.pc = "refreshed"]
    /\ UNCHANGED <<model, session, aging, forgotten, heard, sent, requests>>

RefreshFails ==
    /\ At({"refreshing"})
    /\ request' = [request EXCEPT !.pc = "refreshed"]
    /\ UNCHANGED <<settings, accounts, heard, sent, requests>>

(* get_client, and what of the settings the request keeps.                 *)
Client == IF cached = NoClient THEN [provider |-> provider, credential |-> credential] ELSE cached

Prepares ==
    /\ At({"refreshed"}) /\ (credential # NoCredential \/ cached # NoClient)
    /\ LET native == provider \in Native
       IN  /\ cached' = IF native THEN cached ELSE Client
           /\ request' = [request EXCEPT !.pc = "ready", !.native = native, !.model = model,
                             !.client = IF native THEN NoClient ELSE Client, !.open = TRUE]
    /\ UNCHANGED <<provider, credential, model, accounts, heard, sent, requests>>

NotConnected ==
    /\ At({"refreshed"}) /\ credential = NoCredential
    /\ Idle
    /\ UNCHANGED <<settings, accounts, heard, sent, requests>>

(* One attempt.  A native one reads the settings again, any other goes out *)
(* by the client it was given, if that is still open.                      *)
Attempts ==
    /\ At({"ready"})
    /\ request.native \/ request.open
    /\ request.native => credential # NoCredential
    /\ sent' = [model |-> request.model,
                provider |-> IF request.native THEN provider ELSE request.client.provider,
                credential |-> IF request.native THEN credential ELSE request.client.credential]
    /\ request' = [request EXCEPT !.pc = "sent"]
    /\ UNCHANGED <<settings, accounts, heard, requests>>

CannotAttempt ==
    /\ At({"ready"})
    /\ IF request.native THEN credential = NoCredential ELSE ~request.open
    /\ Idle
    /\ UNCHANGED <<settings, accounts, heard, sent, requests>>

Streams ==
    /\ At({"sent"})
    /\ heard' = heard \cup {request.attempt}
    /\ UNCHANGED <<settings, accounts, request, sent, requests>>

(* Mutant: an attempt that was heard is tried again.                     *)
MutantMayRetry == request.attempt < MaxRetries

(* A failure is tried again only if nothing was passed on from it.         *)
MayRetry == request.attempt \notin heard /\ request.attempt < MaxRetries

Fails ==
    /\ At({"sent"})
    /\ IF MayRetry
       THEN request' = [request EXCEPT !.pc = "ready", !.attempt = @ + 1]
       ELSE Idle
    /\ UNCHANGED <<settings, accounts, heard, sent, requests>>

Completes ==
    /\ At({"sent"})
    /\ Idle
    /\ UNCHANGED <<settings, accounts, heard, sent, requests>>

----------------------------------------------------------------------------
(* The user, at any time.                                                  *)

(* Mutant: the credential in use is taken along to the next provider.    *)
MutantCredentialFor(p) == IF credential # NoCredential THEN credential ELSE stored[p]

(* credential_for_provider, after what was typed in this session.          *)
CredentialFor(p) ==
    IF session[p] # NoCredential THEN session[p]
    ELSE IF provider = p /\ credential # NoCredential THEN credential ELSE stored[p]

(* _apply_model_choice                                                     *)
Choose(p) ==
    /\ CredentialFor(p) # NoCredential
    /\ Use(p, CredentialFor(p)) /\ model' = p
    /\ request' = [request EXCEPT !.open = StillOpen(p, CredentialFor(p))]
    /\ UNCHANGED <<accounts, heard, sent, requests>>

(* _collect_credential: a key or a sign-in, adopted and then stored.       *)
Connect(p) ==
    /\ issued < MaxIssued
    /\ issued' = issued + 1 /\ forgotten' = forgotten \ {p}
    /\ session' = [session EXCEPT ![p] = <<p, issued + 1>>]
    /\ stored' = [stored EXCEPT ![p] = <<p, issued + 1>>]
    /\ IF p = provider
       THEN /\ Use(p, <<p, issued + 1>>)
            /\ request' = [request EXCEPT !.open = StillOpen(p, <<p, issued + 1>>)]
       ELSE UNCHANGED <<provider, credential, cached, request>>
    /\ UNCHANGED <<model, aging, strayed, heard, sent, requests>>

(* _forget_authorisation                                                   *)
Logout ==
    /\ session[provider] # NoCredential \/ stored[provider] # NoCredential
    /\ session' = [session EXCEPT ![provider] = NoCredential]
    /\ stored' = [stored EXCEPT ![provider] = NoCredential]
    /\ forgotten' = forgotten \cup {provider}
    /\ Use(provider, NoCredential)
    /\ request' = [request EXCEPT !.open = StillOpen(provider, NoCredential)]
    /\ UNCHANGED <<model, aging, issued, strayed, heard, sent, requests>>

Ages ==
    /\ credential # NoCredential /\ credential \notin aging
    /\ aging' = aging \cup {credential}
    /\ UNCHANGED <<settings, session, stored, issued, forgotten, strayed, request, heard, sent, requests>>

Next ==
    Send \/ Refreshes \/ RefreshFails \/ Prepares \/ NotConnected \/ Attempts \/ CannotAttempt
    \/ Streams \/ Fails \/ Completes \/ Logout \/ Ages
    \/ \E p \in Providers : Choose(p) \/ Connect(p)

Spec == Init /\ [][Next]_vars

----------------------------------------------------------------------------
(* A request presents a credential only to the provider it belongs to,     *)
(* whatever is chosen, connected or forgotten while it is prepared, retried *)
(* or refreshed.  One case is left out, for the code gets it wrong: the    *)
(* token that a refresh brings goes to the provider chosen meanwhile.      *)
CredentialGoesHome ==
    \/ sent = NothingSent \/ sent.credential[1] = sent.provider
    \/ <<sent.provider, sent.credential>> \in strayed

(* What is passed on of a reply comes from one attempt: no text is shown   *)
(* twice, and no tool call is put together from two replies.               *)
OneAttemptIsHeard == Cardinality(heard) <= 1

(* "logout removes every stored credential for the current provider"       *)
LogoutForgets ==
    \A p \in forgotten :
        stored[p] = NoCredential /\ (provider = p => credential = NoCredential)
=============================================================================
