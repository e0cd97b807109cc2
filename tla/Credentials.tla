-------------------------------- MODULE Credentials --------------------------------
(***************************************************************************)
(* The credentials and the selection a window starts with and leaves       *)
(* behind: providers/keys.py, tokens.py and store.py, resolve_settings in  *)
(* providers/models.py, and what typing a key, signing in, choosing a      *)
(* model and logging out change in tui/app.py.                             *)
(*                                                                         *)
(* A credential is [of, kind, n]: whose it is, where it came from, which.  *)
(* The interface makes one change at a time, and a save is not             *)
(* interrupted by another change of the window; the process may end        *)
(* before, between and after its steps.                                    *)
(***************************************************************************)
EXTENDS Naturals

CONSTANTS
    Providers, Implied,   \* the provider BASE_URL implies, or OpenAI
    Variables,            \* providers whose own variable may hold a key
    Legacy,               \* whether keys.json may have a key named "default"
    MaxIssued,            \* keys and tokens given out
    Faults                \* "fails": a save fails; "unreadable": a file is

VARIABLES
    keys, tokens,   \* keys.json and tokens.json, by provider
    selection,      \* settings.json: the provider of the model chosen
    environment,    \* the key each variable holds; "default" is API_KEY
    window,         \* SessionSettings, and _session_credentials
    save,           \* the save in progress
    issued, expired,
    told            \* what the window last said is on disk, by file

vars == <<keys, tokens, selection, environment, window, save, issued, expired, told>>

Names == Providers \cup {"default"}
None == [of |-> "none", kind |-> "none", n |-> 0]
Unsaid == [of |-> "unsaid", kind |-> "none", n |-> 0]
Nothing == [p \in Names |-> None]

Key(p, n) == [of |-> p, kind |-> "key", n |-> n]
Token(p, n) == [of |-> p, kind |-> "token", n |-> n]
Variable(p) == [of |-> p, kind |-> "env", n |-> 0]

NoWindow == [on |-> FALSE, provider |-> Implied, credential |-> None, session |-> Nothing]
NoSave == [file |-> "none", provider |-> Implied, entry |-> None, content |-> Nothing,
           gone |-> FALSE]

Idle == save = NoSave
Usable(c) == c # None /\ c \notin expired

(* A variable that is set holds a key of its provider, and API_KEY one of  *)
(* the provider implied.                                                   *)
Environments ==
    {[p \in Names |-> IF p \notin set THEN None
                      ELSE Variable(IF p = "default" THEN Implied ELSE p)] :
        set \in SUBSET (Variables \cup {"default"})}

Init ==
    /\ keys \in {Nothing} \cup
          IF Legacy THEN {[Nothing EXCEPT !["default"] = Key(Implied, 0)]} ELSE {}
    /\ tokens = Nothing /\ selection = "none"
    /\ environment \in Environments
    /\ window = NoWindow /\ save = NoSave /\ issued = 0 /\ expired = {}
    /\ told = [keys |-> [p \in Names |-> Unsaid], tokens |-> [p \in Names |-> Unsaid],
               selection |-> "unsaid"]

----------------------------------------------------------------------------
(* load_keys, load_tokens: a file that cannot be read holds nothing.       *)
Unreadable == IF "unreadable" \in Faults THEN {Nothing} ELSE {}
LoadedKeys == {keys} \cup Unreadable
LoadedTokens == {tokens} \cup Unreadable

(* stored_credential: a token that can be used, then a key.                *)
MutantStored(p, ks, ts) == IF ks[p] # None THEN ks[p] ELSE ts[p]
Stored(p, ks, ts) == IF Usable(ts[p]) THEN ts[p] ELSE ks[p]

(* credential_for_provider: that of the settings when it is theirs, one    *)
(* that is stored, one of the environment.                                 *)
MutantCredentialFor(p, active, ks, ts) ==
    IF environment[p] # None THEN environment[p] ELSE Stored(p, ks, ts)
CredentialFor(p, active, ks, ts) ==
    IF active.provider = p /\ Usable(active.credential) THEN active.credential
    ELSE IF Stored(p, ks, ts) # None THEN Stored(p, ks, ts) ELSE environment[p]

(* settings_from_environment: its own variable, or API_KEY.                *)
FromEnvironment ==
    IF environment[Implied] # None THEN environment[Implied] ELSE environment["default"]

(* load_selection: a selection that is not one is none.                    *)
Known(known) == selection \in known

(* The provider selected, when it is known by its configuration or by the  *)
(* directory, and the credential that is remembered for it.                *)
Chosen(known) == IF Known(known) THEN selection ELSE Implied

Remembered(p, ks, ts) ==
    LET found == CredentialFor(p, NoWindow, ks, ts)
    IN  IF found # None THEN found
        ELSE IF ks["default"] # None THEN ks["default"] ELSE FromEnvironment

Start(known) ==
    /\ ~window.on
    /\ \E ks \in LoadedKeys, ts \in LoadedTokens :
          window' = [NoWindow EXCEPT !.on = TRUE, !.provider = Chosen(known),
                                     !.credential = Remembered(Chosen(known), ks, ts)]
    /\ UNCHANGED <<keys, tokens, selection, environment, save, issued, expired, told>>

(* A window that is closed, or a process that is killed at any point: a    *)
(* file that was being saved is as it was.  The next has its environment.  *)
MutantInterrupted(file) == Nothing
Interrupted(file) == file

Ends ==
    /\ window.on /\ window' = NoWindow /\ save' = NoSave
    /\ environment' \in Environments
    /\ keys' = IF save.file = "keys" THEN Interrupted(keys) ELSE keys
    /\ tokens' = IF save.file = "tokens" THEN Interrupted(tokens) ELSE tokens
    /\ UNCHANGED <<selection, issued, expired, told>>

----------------------------------------------------------------------------
(* A provider without a credential that can be used is asked for one, and  *)
(* so is that of the settings, by /login and when it is rejected.          *)
Asked(p) ==
    \/ p = window.provider
    \/ ~Usable(window.session[p]) /\ ~Usable(CredentialFor(p, window, keys, tokens))

(* _adopt *)
Adopted(p, c) ==
    [window EXCEPT !.session[p] = c,
                   !.credential = IF p = window.provider THEN c ELSE @]

Saving(file, p, entry, content, gone) ==
    [file |-> file, provider |-> p, entry |-> entry, content |-> content, gone |-> gone]

(* store_key, store_token: the file is read, and written again with the    *)
(* new entry.                                                              *)
MutantWith(file, p, c) == [Nothing EXCEPT ![p] = c]
With(file, p, c) == [file EXCEPT ![p] = c]

TypeKey(p) ==
    /\ window.on /\ Idle /\ issued < MaxIssued /\ Asked(p)
    /\ issued' = issued + 1
    /\ window' = Adopted(p, Key(p, issued'))
    /\ \E ks \in LoadedKeys :
          save' = Saving("keys", p, Key(p, issued'), With(ks, p, Key(p, issued')), FALSE)
    /\ UNCHANGED <<keys, tokens, selection, environment, expired, told>>

SignIn(p) ==
    /\ window.on /\ Idle /\ issued < MaxIssued /\ Asked(p)
    /\ issued' = issued + 1
    /\ window' = Adopted(p, Token(p, issued'))
    /\ \E ts \in LoadedTokens :
          save' = Saving("tokens", p, Token(p, issued'), With(ts, p, Token(p, issued')), FALSE)
    /\ UNCHANGED <<keys, tokens, selection, environment, expired, told>>

(* _apply_model_choice: one that the session has comes first.              *)
Held(p) ==
    IF window.session[p] # None THEN window.session[p] ELSE CredentialFor(p, window, keys, tokens)

Choose(p) ==
    /\ window.on /\ Idle /\ Usable(Held(p))
    /\ window' = [window EXCEPT !.provider = p, !.credential = Held(p)]
    /\ save' = Saving("selection", p, None, Nothing, FALSE)
    /\ UNCHANGED <<keys, tokens, selection, environment, issued, expired, told>>

(* _persist_reasoning_effort saves the selection again.                    *)
SetEffort ==
    /\ window.on /\ Idle
    /\ save' = Saving("selection", window.provider, None, Nothing, FALSE)
    /\ UNCHANGED <<keys, tokens, selection, environment, window, issued, expired, told>>

(* forget_key: whether there is anything to forget is read from the file.  *)
ForgetKey(p, gone) == Saving("keys", p, None, With(keys, p, None), gone)

(* _forget_authorisation: of the provider of the settings the token goes,  *)
(* then the key; the settings lose the credential if anything went.        *)
Logout ==
    LET p == window.provider
        held == window.session[p] # None
    IN  /\ window.on /\ Idle
        /\ save' = IF tokens[p] # None
                   THEN Saving("tokens", p, None, With(tokens, p, None), TRUE)
                   ELSE IF keys[p] # None THEN ForgetKey(p, held) ELSE NoSave
        /\ window' = [window EXCEPT !.session[p] = None,
                                    !.credential = IF save' = NoSave /\ held THEN None ELSE @]
        /\ UNCHANGED <<keys, tokens, selection, environment, issued, expired, told>>

----------------------------------------------------------------------------
(* What follows a save.                                                    *)
Done(saved) ==
    LET p == save.provider
        forgets == save.file # "selection" /\ save.entry = None
        last == ~forgets \/ save.file = "keys" \/ keys[p] = None
    IN  /\ save' = IF last THEN NoSave ELSE ForgetKey(p, TRUE)
        /\ window' = IF forgets /\ last /\ (save.gone \/ saved)
                     THEN [window EXCEPT !.credential = None] ELSE window
        /\ UNCHANGED <<environment, issued, expired>>

(* save_keys, save_tokens, save_selection: what was written to a temporary *)
(* file takes the place of the old one at once.                            *)
KeysSaved == IF save.file = "keys" THEN save.content ELSE keys
TokensSaved == IF save.file = "tokens" THEN save.content ELSE tokens
SelectionSaved == IF save.file = "selection" THEN save.provider ELSE selection

Replace ==
    /\ ~Idle /\ Done(TRUE)
    /\ keys' = KeysSaved /\ tokens' = TokensSaved /\ selection' = SelectionSaved
    /\ told' = IF save.file = "selection" THEN [told EXCEPT !.selection = save.provider]
               ELSE [told EXCEPT ![save.file][save.provider] = save.entry]

(* It fails and says so; forget_token does not look.                       *)
Fails ==
    /\ "fails" \in Faults /\ ~Idle /\ Done(FALSE)
    /\ told' = IF save.file = "tokens" /\ save.entry = None
               THEN [told EXCEPT !.tokens[save.provider] = None] ELSE told
    /\ UNCHANGED <<keys, tokens, selection>>

Expire ==
    /\ \E p \in Providers : Usable(tokens[p]) /\ expired' = expired \cup {tokens[p]}
    /\ UNCHANGED <<keys, tokens, selection, environment, window, save, issued, told>>

Next ==
    \/ \E known \in SUBSET Providers : Implied \in known /\ Start(known)
    \/ Ends \/ SetEffort \/ Logout \/ Replace \/ Fails \/ Expire
    \/ \E p \in Providers : TypeKey(p) \/ SignIn(p) \/ Choose(p)

Spec == Init /\ [][Next]_vars

----------------------------------------------------------------------------
(* What the window said it saved is on disk, whatever was saved for other  *)
(* providers, failed or was cut short since, until it is replaced or       *)
(* forgotten.                                                              *)
SaidIsStored ==
    \A p \in Providers :
        /\ told.keys[p] # Unsaid => keys[p] = told.keys[p]
        /\ told.tokens[p] \notin {Unsaid, None} => tokens[p] = told.tokens[p]

(* A window starts with the provider that was last said to be saved, if it *)
(* is still known, and with what was said to be saved for it: a token that *)
(* can be used, or else the key, whatever the environment holds.           *)
StartsAsLeft ==
    ~window.on /\ window'.on =>
        LET p == window'.provider
        IN  /\ told.selection # "unsaid" => p \in {told.selection, Implied}
            /\ IF Usable(told.tokens[p]) /\ told.tokens[p] # Unsaid
               THEN window'.credential = told.tokens[p]
               ELSE told.keys[p] \notin {Unsaid, None} /\ ~Usable(tokens[p])
                        => window'.credential = told.keys[p]

CredentialsAreKept == []SaidIsStored /\ [][StartsAsLeft]_vars

(* The credential of the settings is one of their provider: README.md:1028 *)
(* "credentials are stored and resolved by provider ID".                   *)
CredentialIsOwn ==
    window.on /\ window.credential # None => window.credential.of = window.provider
=============================================================================
