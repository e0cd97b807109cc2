---------------------------- MODULE Services_proofs ----------------------------
(***************************************************************************)
(* What a turn calls, for any commands and policies, servers, providers    *)
(* and pages: the plan of a command, a fetch, the requests to a model, a   *)
(* language server, the MCP servers, the catalog of models and the         *)
(* instructions of a project keep the invariants below, and the worlds of  *)
(* MCServices are theirs.                                                  *)
(***************************************************************************)
EXTENDS MCServices, Pipes_proofs, FiniteSetTheorems

-----------------------------------------------------------------------------
(* The plan of a command.                                                  *)

(* How far a plan is decides what is already settled.                      *)
Inputs ==
    /\ request.limits \in [Bounded -> Nat]
    /\ config.isolation \in {1, 2} /\ config.ceiling \in [Bounded -> Nat]

Settled ==
    /\ stage # "received" => decision = Ruled(rules, request, Evaluated(request, config))
    /\ stage \in {"decided", "selected", "prepared", "launched"} => decision.allowed
    /\ stage \in {"selected", "prepared", "launched"} =>
          chosen \in Backends /\ Capability(chosen, host)["filesystem"] >= decision.needs["filesystem"]
    /\ stage \in {"prepared", "launched"} => limits = decision.limits
    /\ stage = "launched" => (decision.asks => asked)

PlanInv == Inputs /\ Settled

LEMMA StricterTightens ==
    ASSUME NEW a \in Nat, NEW b \in Nat
    PROVE  /\ a # 0 => Stricter(a, b) # 0 /\ Stricter(a, b) <= a
           /\ b # 0 => Stricter(a, b) # 0 /\ Stricter(a, b) <= b
           /\ Stricter(a, b) \in Nat
BY DEF Stricter, Least

LEMMA TightenedIsBounds ==
    ASSUME NEW w \in [Bounded -> Nat], NEW c \in [Bounded -> Nat]
    PROVE  Tightened(w, c) \in [Bounded -> Nat]
BY StricterTightens DEF Tightened

LEMMA BuiltIsBounded ==
    ASSUME NEW a \in RequestType, NEW c \in ConfigType
    PROVE  Built(a, c).limits \in [Bounded -> Nat]
<1>1. a.limits \in [Bounded -> Nat] /\ c.ceiling \in [Bounded -> Nat]
    BY DEF RequestType, ConfigType
<1>2. CASE a.by = "shell"
    <2>1. Built(a, c).limits = Tightened(a.limits, c.ceiling)
        BY <1>2 DEF Built, RequestType
    <2> QED BY <1>1, <2>1, TightenedIsBounds
<1>3. CASE a.by # "shell"
    <2>1. Built(a, c).limits = [k \in Bounded |-> IF k \in Optional THEN 0 ELSE a.limits[k]]
        BY <1>3 DEF Built, RequestType
    <2> QED BY <1>1, <2>1
<1> QED BY <1>2, <1>3

(* A rule that lets a command pass leaves its needs and its limits, and    *)
(* drops no question.                                                      *)
LEMMA RuledOnlyRestricts ==
    ASSUME NEW rs, NEW r, NEW c, Ruled(rs, r, Evaluated(r, c)).allowed
    PROVE  /\ Evaluated(r, c).allowed
           /\ Ruled(rs, r, Evaluated(r, c)).needs = Needs(r, c)
           /\ Ruled(rs, r, Evaluated(r, c)).limits = Tightened(r.limits, c.ceiling)
           /\ Evaluated(r, c).asks => Ruled(rs, r, Evaluated(r, c)).asks
<1> DEFINE d == Evaluated(r, c)
<1>1. /\ d.needs = Needs(r, c) /\ d.limits = Tightened(r.limits, c.ceiling)
      /\ d = [allowed |-> d.allowed, risk |-> d.risk, asks |-> d.asks,
              limits |-> d.limits, needs |-> d.needs]
    BY DEF Evaluated
<1>2. \/ Ruled(rs, r, d) = d
      \/ Ruled(rs, r, d) = [d EXCEPT !.allowed = FALSE, !.asks = FALSE]
      \/ Ruled(rs, r, d) = [d EXCEPT !.asks = d.allowed /\ (d.asks \/ rs[r.class].ask)]
    BY DEF Ruled
<1> QED BY <1>1, <1>2

(* Only a container has a file system of its own to offer.                 *)
LEMMA LocalsDoNotIsolate ==
    ASSUME NEW b \in Backends, NEW h, Capability(b, h)["filesystem"] >= 1
    PROVE  b = "container"
BY DEF Capability, Fields, Backends

LEMMA CriticalNeedsIsolation ==
    ASSUME NEW r, NEW c, c.isolation \in {1, 2}, ~Forbidden(r), Risk(r, c) = 3
    PROVE  Needs(r, c)["filesystem"] >= 1
<1>1. Base(r, c)["filesystem"] \in {0, c.isolation}
    BY DEF Base, Fields, Optional
<1>2. Needs(r, c)["filesystem"] = Most(Base(r, c)["filesystem"], c.isolation)
    BY DEF Needs, Fields
<1> QED BY <1>1, <1>2 DEF Most

LEMMA PlanInit == Init => PlanInv
<1> SUFFICES ASSUME Init PROVE PlanInv
    OBVIOUS
<1>1. PICK a \in Arguments : request = Built(a, config)
    BY DEF Init
<1>2. config \in ConfigType /\ a \in RequestType
    BY ArgumentsAssumption, ConfigsAssumption DEF Init
<1>3. Inputs
    BY <1>1, <1>2, BuiltIsBounded DEF Inputs, ConfigType
<1> QED BY <1>3 DEF Init, PlanInv, Settled

LEMMA PlanStep == PlanInv /\ [Next]_vars => PlanInv'
<1> SUFFICES ASSUME PlanInv, [Next]_vars PROVE PlanInv'
    OBVIOUS
<1> USE DEF PlanInv, inputs
<1>0. Inputs' /\ UNCHANGED inputs
    BY DEF Inputs, Next, Decide, Select, Refuse, Prepare, Authorize, vars
<1>1. CASE Decide
    BY <1>0, <1>1 DEF Decide, Settled
<1>2. CASE Select
    <2> PICK b \in Backends : Selects(b, request, decision, host) /\ chosen' = b
                              /\ stage' \in {"refused", "selected"}
        BY <1>2 DEF Select
    <2>1. Capability(b, host)["filesystem"] >= decision.needs["filesystem"]
        BY DEF Selects, Compatible, Fields
    <2> QED BY <1>0, <1>2, <2>1 DEF Select, Settled
<1>3. CASE Refuse
    BY <1>0, <1>3 DEF Refuse, Settled
<1>4. CASE Prepare
    BY <1>0, <1>4 DEF Prepare, Settled
<1>5. CASE Authorize
    BY <1>0, <1>5 DEF Authorize, Settled
<1>6. CASE UNCHANGED vars
    BY <1>0, <1>6 DEF vars, Settled
<1> QED BY <1>1, <1>2, <1>3, <1>4, <1>5, <1>6 DEF Next

(* ExecutionPlan: for any requests, configuration, trusted rules and host, *)
(* a critical command that launches is in a container (evaluate_policy,    *)
(* apply_trusted_rules and select_backend).                                *)
THEOREM CriticalAlwaysIsolated == Spec => []CriticalIsIsolated
<1>1. PlanInv => CriticalIsIsolated
    <2> SUFFICES ASSUME PlanInv, Launched, Risk(request, config) = 3 PROVE chosen = "container"
        BY DEF CriticalIsIsolated
    <2>1. /\ decision = Ruled(rules, request, Evaluated(request, config))
          /\ decision.allowed
        BY DEF PlanInv, Settled, Launched
    <2>2. ~Forbidden(request) /\ decision.needs = Needs(request, config)
        BY <2>1, RuledOnlyRestricts DEF Evaluated
    <2>3. decision.needs["filesystem"] >= 1
        BY <2>2, CriticalNeedsIsolation DEF PlanInv, Inputs
    <2>4. /\ chosen \in Backends
          /\ Capability(chosen, host)["filesystem"] >= decision.needs["filesystem"]
        BY DEF PlanInv, Settled, Launched
    <2>5. /\ Capability(chosen, host)["filesystem"] \in Nat
          /\ decision.needs["filesystem"] \in Nat
        <3>1. Capability(chosen, host)["filesystem"] \in {0, 2}
            BY DEF Capability, Fields
        <3>2. Base(request, config)["filesystem"] \in {0, 1, 2}
            BY DEF Base, Fields, Optional, PlanInv, Inputs
        <3>3. Needs(request, config)["filesystem"] \in {0, 1, 2}
            BY <3>2 DEF Needs, Fields, Most, PlanInv, Inputs
        <3> QED BY <2>2, <3>1, <3>3
    <2> QED BY <2>3, <2>4, <2>5, LocalsDoNotIsolate
<1> QED BY <1>1, PlanInit, PlanStep, PTL DEF Spec

(* ExecutionPlan: for any rules and any limits, what launches was allowed  *)
(* without the rules, is asked what it would have been asked, and keeps    *)
(* the operator's limits and its own (tighten_limits, apply_trusted_rules, *)
(* prepare_execution).                                                     *)
THEOREM PolicyAlwaysTightens == Spec => []PolicyOnlyTightens
<1>1. PlanInv => PolicyOnlyTightens
    <2> SUFFICES ASSUME PlanInv, Launched PROVE RulesOnlyRestrict /\ LimitsOnlyTighten
        BY DEF PolicyOnlyTightens, RulesOnlyRestrict, LimitsOnlyTighten
    <2>1. /\ decision = Ruled(rules, request, Evaluated(request, config))
          /\ decision.allowed
          /\ limits = decision.limits /\ (decision.asks => asked)
        BY DEF PlanInv, Settled, Launched
    <2>2. RulesOnlyRestrict
        BY <2>1, RuledOnlyRestricts DEF RulesOnlyRestrict
    <2>3. limits = Tightened(request.limits, config.ceiling)
        BY <2>1, RuledOnlyRestricts
    <2>4. LimitsOnlyTighten
        <3> SUFFICES ASSUME NEW k \in Bounded
                     PROVE  /\ config.ceiling[k] # 0 => limits[k] # 0 /\ limits[k] <= config.ceiling[k]
                            /\ request.limits[k] # 0 => limits[k] # 0 /\ limits[k] <= request.limits[k]
            BY DEF LimitsOnlyTighten
        <3>1. request.limits[k] \in Nat /\ config.ceiling[k] \in Nat
            BY DEF PlanInv, Inputs
        <3>2. limits[k] = Stricter(request.limits[k], config.ceiling[k])
            BY <2>3 DEF Tightened
        <3> QED BY <3>1, <3>2, StricterTightens
    <2> QED BY <2>2, <2>4
<1> QED BY <1>1, PlanInit, PlanStep, PTL DEF Spec

-----------------------------------------------------------------------------
(* A fetched page.                                                         *)

LEMMA FetchBounds == MaxRedirects \in Nat /\ MaxBytes \in Nat /\ MaxBody \in Nat
BY ServicesAssumption

(* Each request uses up one hop; what is judged is an answer that is not   *)
(* empty; a response is open only while it is looked at or read.           *)
FetchHops ==
    /\ hops \in Nat /\ tries \in Nat
    /\ doing \in {"begin", "resolve", "judge"} => tries = hops /\ hops <= MaxRedirects
    /\ doing \in {"response", "read"} => tries = hops + 1 /\ hops <= MaxRedirects
    /\ tries <= MaxRedirects + 1

FetchJudged == doing = "judge" => 1 \in DOMAIN addresses

FetchBody ==
    /\ body \in Nat /\ left \in Nat /\ body <= MaxBytes
    /\ doing = "done" /\ left > 0 => truncated = TRUE

FetchOpen == doing \notin {"response", "read"} => held = FALSE

FetchInv == FetchHops /\ FetchJudged /\ FetchBody /\ FetchOpen /\ Web!PeersArePublic

LEMMA AnswerHasAFirst ==
    ASSUME NEW S, NEW n, NEW s \in UNION {[1..m -> S] : m \in 1..n}
    PROVE  1 \in DOMAIN s
<1>1. PICK m \in 1..n : s \in [1..m -> S]
    OBVIOUS
<1> QED BY <1>1

LEMMA ChunkFits ==
    ASSUME FetchBody, NEW chunk \in 1..left
    PROVE  /\ Web!Kept(chunk) \in Nat /\ Web!Kept(chunk) <= Web!Remaining
           /\ Web!Kept(chunk) <= chunk
           /\ chunk < Web!Remaining => Web!Kept(chunk) = chunk
BY FetchBounds DEF Web!Kept, Web!Remaining, FetchBody

LEMMA FetchStep ==
    ASSUME FetchInv, Web!Next
    PROVE  FetchInv'
<1> USE FetchBounds DEF FetchInv
<1>1. CASE Web!Begin
    BY <1>1
    DEF Web!Begin, Web!Fail, FetchHops, FetchJudged, FetchBody, FetchOpen,
        Web!PeersArePublic
<1>2. CASE Web!Resolve
    BY <1>2, AnswerHasAFirst
    DEF Web!Resolve, Web!Fail, FetchHops, FetchJudged, FetchBody, FetchOpen,
        Web!PeersArePublic
<1>3. CASE Web!Request
    <2>1. FetchHops' /\ FetchJudged' /\ FetchBody' /\ FetchOpen'
        BY <1>3
        DEF Web!Request, Web!Fail, FetchHops, FetchJudged, FetchBody, FetchOpen
    <2>2. Web!PeersArePublic'
        <3>1. CASE Web!Accepted /\ peer' \in Web!Pin
            BY <1>3, <3>1
            DEF Web!Request, Web!Accepted, Web!Public, Web!Pin, FetchJudged,
                Web!PeersArePublic
        <3>2. CASE UNCHANGED <<peer, tries>>
            BY <3>2 DEF Web!PeersArePublic
        <3> QED BY <1>3, <3>1, <3>2 DEF Web!Request
    <2> QED BY <2>1, <2>2
<1>4. CASE Web!Redirect
    BY <1>4
    DEF Web!Redirect, Web!Fail, FetchHops, FetchJudged, FetchBody, FetchOpen,
        Web!PeersArePublic
<1>5. CASE Web!Answer
    BY <1>5
    DEF Web!Answer, Web!Fail, FetchHops, FetchJudged, FetchBody, FetchOpen,
        Web!PeersArePublic
<1>6. CASE Web!StreamEnds
    BY <1>6
    DEF Web!StreamEnds, Web!Fail, FetchHops, FetchJudged, FetchBody, FetchOpen,
        Web!PeersArePublic
<1>7. ASSUME NEW chunk \in 1..MaxBody, Web!Chunk(chunk) PROVE FetchInv'
    <2>1. FetchBody'
        BY <1>7, ChunkFits DEF Web!Chunk, FetchBody, Web!Remaining
    <2>2. FetchHops' /\ FetchJudged' /\ FetchOpen' /\ Web!PeersArePublic'
        BY <1>7 DEF Web!Chunk, FetchHops, FetchJudged, FetchOpen, Web!PeersArePublic
    <2> QED BY <2>1, <2>2
<1> QED BY <1>1, <1>2, <1>3, <1>4, <1>5, <1>6, <1>7 DEF Web!Next

(* WebFetch: for any limits, any names and any addresses, a request leaves *)
(* only for an address judged public, a fetch ends with its responses      *)
(* closed, asks at most once more than it may be redirected, and keeps no  *)
(* more than it may (fetch, _request and _read of web/fetch.py).           *)
THEOREM FetchAlwaysContained ==
    Web!Spec => []Web!FetchIsContained
<1>1. Web!Init => FetchInv
    BY FetchBounds
    DEF Web!Init, FetchInv, FetchHops, FetchJudged, FetchBody, FetchOpen,
        Web!PeersArePublic
<1>2. FetchInv /\ [Web!Next]_(Web!vars) => FetchInv'
    <2>1. FetchInv /\ UNCHANGED Web!vars => FetchInv'
        BY DEF Web!vars, FetchInv, FetchHops, FetchJudged, FetchBody, FetchOpen,
           Web!PeersArePublic
    <2> QED BY <2>1, FetchStep
<1>3. FetchInv => Web!FetchIsContained
    BY DEF FetchInv, Web!FetchIsContained, Web!FetchIsBounded, FetchHops, FetchBody,
       FetchOpen
<1> QED BY <1>1, <1>2, <1>3, PTL DEF Web!Spec

-----------------------------------------------------------------------------
(* Requests to a model.                                                    *)

(* A credential of a provider, or none; a client is built with one of its  *)
(* provider's.  What a refresh put elsewhere is known.                     *)
Credentials == {<<p, n>> : p \in Providers, n \in Nat}
CredentialsOf(p) == {Requests!NoCredential} \cup {<<p, n>> : n \in Nat}
FitsOf(strays, p, c) == c \in CredentialsOf(p) \/ (<<p, c>> \in strays /\ c \in Credentials)
HomeOf(strays, c) == c.credential[1] = c.provider \/ <<c.provider, c.credential>> \in strays

AccountsOwned ==
    /\ provider \in Providers /\ FitsOf(strayed, provider, credential)
    /\ session \in [Providers -> {session[p] : p \in Providers}]
    /\ stored \in [Providers -> {stored[p] : p \in Providers}]
    /\ \A p \in Providers : session[p] \in CredentialsOf(p) /\ stored[p] \in CredentialsOf(p)
    /\ issued \in Nat /\ Requests!NoCredential \notin aging

(* A request knows how far it is; a client it goes out by is one that was  *)
(* built with a credential of its provider; a refresh is of a credential.  *)
Requesting ==
    /\ posted = [pc |-> posted.pc, old |-> posted.old, native |-> posted.native,
                  model |-> posted.model, client |-> posted.client, open |-> posted.open,
                  attempt |-> posted.attempt]
    /\ posted.attempt \in Nat
    /\ posted.pc = "refreshing" => posted.old \in Credentials
    /\ posted.pc \in {"ready", "sent"} /\ ~posted.native => HomeOf(strayed, posted.client)

ClientOwned == cached = Requests!NoClient \/ HomeOf(strayed, cached)

SentHome == sent = Requests!NothingSent \/ HomeOf(strayed, sent)

(* Of a request in progress only the attempt it is at was heard, and until *)
(* that one is sent none.                                                  *)
OneHeard ==
    \/ heard = {}
    \/ posted.pc = "sent" /\ heard = {posted.attempt}
    \/ posted.pc = "idle" /\ \E a \in Nat : heard = {a}

RequestsInv == AccountsOwned /\ Requesting /\ ClientOwned /\ SentHome /\ OneHeard

(* A credential that fits a provider is one it belongs to, or has strayed. *)
LEMMA FittingIsHome ==
    ASSUME NEW strays, NEW p \in Providers, NEW c, FitsOf(strays, p, c), c # Requests!NoCredential
    PROVE  c \in Credentials /\ (c[1] = p \/ <<p, c>> \in strays)
BY DEF FitsOf, CredentialsOf, Credentials

LEMMA StraysGrow ==
    ASSUME NEW strays, NEW more, strays \subseteq more
    PROVE  /\ \A p, c : FitsOf(strays, p, c) => FitsOf(more, p, c)
           /\ \A c : HomeOf(strays, c) => HomeOf(more, c)
BY DEF FitsOf, HomeOf

LEMMA ClientIsHome ==
    ASSUME AccountsOwned, ClientOwned, credential # Requests!NoCredential \/ cached # Requests!NoClient
    PROVE  HomeOf(strayed, Requests!Client)
<1>1. CASE cached = Requests!NoClient
    <2>1. credential[1] = provider \/ <<provider, credential>> \in strayed
        BY <1>1, FittingIsHome DEF AccountsOwned
    <2> QED BY <1>1, <2>1 DEF Requests!Client, HomeOf
<1>2. CASE cached # Requests!NoClient
    BY <1>2 DEF Requests!Client, ClientOwned
<1> QED BY <1>1, <1>2

(* What the settings are changed to is a credential that fits.             *)
LEMMA UseKeeps ==
    ASSUME ClientOwned, strayed \subseteq strayed', NEW p \in Providers, NEW c,
           FitsOf(strayed', p, c), Requests!Use(p, c)
    PROVE  /\ provider' \in Providers /\ FitsOf(strayed', provider', credential')
           /\ ClientOwned'
<1>1. cached' = Requests!NoClient \/ cached' = cached
    BY DEF Requests!Use
<1>2. provider' = p /\ credential' = c
    BY DEF Requests!Use
<1>3. HomeOf(strayed, cached) => HomeOf(strayed', cached)
    BY StraysGrow
<1>4. ClientOwned'
    BY <1>1, <1>3 DEF ClientOwned
<1> QED BY <1>2, <1>4

LEMMA OpenKeeps ==
    ASSUME Requesting, OneHeard, UNCHANGED <<heard, strayed>>,
           NEW b, posted' = [posted EXCEPT !.open = b]
    PROVE  Requesting' /\ OneHeard'
BY DEF Requesting, OneHeard

LEMMA CredentialForFits ==
    ASSUME AccountsOwned, NEW p \in Providers
    PROVE  FitsOf(strayed, p, Requests!CredentialFor(p))
<1>1. CASE session[p] # Requests!NoCredential
    BY <1>1 DEF AccountsOwned, Requests!CredentialFor, FitsOf
<1>2. CASE session[p] = Requests!NoCredential /\ provider = p /\ credential # Requests!NoCredential
    BY <1>2 DEF AccountsOwned, Requests!CredentialFor
<1>3. CASE session[p] = Requests!NoCredential /\ ~(provider = p /\ credential # Requests!NoCredential)
    BY <1>3 DEF AccountsOwned, Requests!CredentialFor, FitsOf
<1> QED BY <1>1, <1>2, <1>3

LEMMA IdleKeeps ==
    ASSUME Requests!Idle, UNCHANGED heard, Requesting, OneHeard
    PROVE  Requesting' /\ OneHeard'
BY DEF Requests!Idle, Requests!NoRequest, Requesting, OneHeard

LEMMA RequestsStep ==
    ASSUME RequestsInv, Requests!Next
    PROVE  RequestsInv'
<1> USE DEF RequestsInv
<1> DEFINE Same == UNCHANGED <<Requests!settings, Requests!accounts>>
<1>0. Same => AccountsOwned' /\ ClientOwned' /\ UNCHANGED strayed
    BY DEF AccountsOwned, ClientOwned, Requests!settings, Requests!accounts
<1>1. CASE Requests!Send
    <2>1. AccountsOwned' /\ ClientOwned' /\ SentHome'
        BY <1>0, <1>1 DEF Requests!Send, SentHome
    <2>2. Requests!Stale(credential) => credential \in Credentials
        BY FittingIsHome DEF Requests!Stale, AccountsOwned
    <2>3. Requesting' /\ OneHeard'
        BY <1>1, <2>2
        DEF Requests!Send, Requesting, OneHeard, Requests!NoRequest,
            Requests!settings
    <2> QED BY <2>1, <2>3
<1>2. CASE Requests!Refreshes
    <2> DEFINE home == posted.old[1]
               new == <<home, issued + 1>>
    <2>1. /\ home \in Providers /\ issued + 1 \in Nat /\ provider \in Providers
          /\ posted.pc = "refreshing"
        BY <1>2 DEF Requests!Refreshes, Requests!At, Requesting, AccountsOwned, Credentials
    <2>2. new \in CredentialsOf(home) /\ new \in Credentials
        BY <2>1 DEF CredentialsOf, Credentials
    <2>3. /\ Requests!Use(provider, new) /\ stored' = [stored EXCEPT ![home] = new]
          /\ issued' = issued + 1 /\ UNCHANGED <<session, aging, heard, sent>>
          /\ strayed' = strayed \cup IF provider = home THEN {} ELSE {<<provider, new>>}
          /\ posted' = [posted EXCEPT !.pc = "refreshed"]
        BY <1>2 DEF Requests!Refreshes
    <2> HIDE DEF home, new
    <2>4. strayed \subseteq strayed' /\ FitsOf(strayed', provider, new)
        BY <2>2, <2>3 DEF FitsOf
    <2>5. AccountsOwned' /\ ClientOwned'
        <3>1. /\ provider' \in Providers /\ FitsOf(strayed', provider', credential')
              /\ ClientOwned'
            BY <2>1, <2>3, <2>4, UseKeeps
        <3>2. /\ stored' \in [Providers -> {stored'[p] : p \in Providers}]
              /\ \A p \in Providers : stored'[p] \in CredentialsOf(p)
            BY <2>1, <2>2, <2>3 DEF AccountsOwned
        <3> QED BY <2>1, <2>3, <3>1, <3>2 DEF AccountsOwned
    <2>6. Requesting' /\ OneHeard'
        BY <2>1, <2>3 DEF Requesting, OneHeard
    <2>7. SentHome'
        <3>1. HomeOf(strayed, sent) => HomeOf(strayed', sent)
            BY <2>4, StraysGrow
        <3> QED BY <2>3, <3>1 DEF SentHome
    <2> QED BY <2>5, <2>6, <2>7
<1>3. CASE Requests!RefreshFails
    BY <1>0, <1>3
    DEF Requests!RefreshFails, Requests!At, Requesting, OneHeard, SentHome
<1>4. CASE Requests!Prepares
    <2>1. HomeOf(strayed, Requests!Client)
        BY <1>4, ClientIsHome DEF Requests!Prepares
    <2>2. ClientOwned' /\ AccountsOwned' /\ SentHome'
        BY <1>4, <2>1
        DEF Requests!Prepares, ClientOwned, AccountsOwned, SentHome,
            Requests!accounts
    <2>3. Requesting' /\ OneHeard'
        BY <1>4, <2>1 DEF Requests!Prepares, Requests!At, Requests!accounts, Requesting, OneHeard
    <2> QED BY <2>2, <2>3
<1>5. CASE Requests!NotConnected
    BY <1>0, <1>5, IdleKeeps DEF Requests!NotConnected, SentHome
<1>6. CASE Requests!Attempts
    <2>1. /\ posted.pc = "ready" /\ posted' = [posted EXCEPT !.pc = "sent"]
          /\ UNCHANGED <<heard, strayed>>
        BY <1>6 DEF Requests!Attempts, Requests!At, Requests!accounts
    <2>2. Requesting' /\ OneHeard'
        BY <2>1 DEF Requesting, OneHeard
    <2>3. SentHome'
        <3>1. CASE posted.native
            <4>1. credential[1] = provider \/ <<provider, credential>> \in strayed
                BY <1>6, <3>1, FittingIsHome DEF Requests!Attempts, AccountsOwned
            <4>2. sent'.provider = provider /\ sent'.credential = credential
                BY <1>6, <3>1 DEF Requests!Attempts
            <4> QED BY <2>1, <4>1, <4>2 DEF SentHome, HomeOf
        <3>2. CASE ~posted.native
            <4>1. HomeOf(strayed, posted.client)
                BY <2>1, <3>2 DEF Requesting
            <4>2. sent'.provider = posted.client.provider /\ sent'.credential = posted.client.credential
                BY <1>6, <3>2 DEF Requests!Attempts
            <4> QED BY <2>1, <4>1, <4>2 DEF SentHome, HomeOf
        <3> QED BY <3>1, <3>2
    <2>4. Same
        BY <1>6 DEF Requests!Attempts
    <2> QED BY <1>0, <2>2, <2>3, <2>4
<1>7. CASE Requests!CannotAttempt
    BY <1>0, <1>7, IdleKeeps DEF Requests!CannotAttempt, SentHome
<1>8. CASE Requests!Streams
    BY <1>0, <1>8
    DEF Requests!Streams, Requests!At, Requesting, OneHeard, SentHome,
        Requests!settings
<1>9. CASE Requests!Fails
    <2>1. CASE Requests!MayRetry
        <3>1. /\ posted.pc = "sent" /\ UNCHANGED <<heard, sent, strayed>>
              /\ posted' = [posted EXCEPT !.pc = "ready", !.attempt = @ + 1]
              /\ posted.attempt \notin heard
            BY <1>0, <1>9, <2>1 DEF Requests!Fails, Requests!At, Requests!MayRetry
        <3>2. heard = {}
            BY <3>1 DEF OneHeard
        <3>3. OneHeard' /\ SentHome'
            BY <3>1, <3>2 DEF OneHeard, SentHome
        <3>4. posted' = [posted EXCEPT !.pc = "ready", !.attempt = posted.attempt + 1]
            BY <3>1
        <3>5. posted.attempt + 1 \in Nat
            BY DEF Requesting
        <3>6. Requesting'
            BY <3>1, <3>4, <3>5 DEF Requesting
        <3> QED BY <1>0, <1>9, <3>3, <3>6 DEF Requests!Fails
    <2>2. CASE ~Requests!MayRetry
        BY <1>0, <1>9, <2>2, IdleKeeps DEF Requests!Fails, SentHome
    <2> QED BY <2>1, <2>2
<1>10. CASE Requests!Completes
    BY <1>0, <1>10, IdleKeeps DEF Requests!Completes, SentHome
<1>11. CASE Requests!Logout
    <2>1. /\ Requests!Use(provider, Requests!NoCredential)
          /\ UNCHANGED <<aging, issued, strayed, heard, sent>>
          /\ posted' = [posted EXCEPT !.open = Requests!StillOpen(provider, Requests!NoCredential)]
          /\ session' = [session EXCEPT ![provider] = Requests!NoCredential]
          /\ stored' = [stored EXCEPT ![provider] = Requests!NoCredential]
        BY <1>11 DEF Requests!Logout
    <2>2. /\ Requests!NoCredential \in CredentialsOf(provider) /\ provider \in Providers
          /\ FitsOf(strayed', provider, Requests!NoCredential) /\ strayed \subseteq strayed'
        BY <2>1 DEF CredentialsOf, FitsOf, AccountsOwned
    <2>3. /\ provider' \in Providers /\ FitsOf(strayed', provider', credential') /\ ClientOwned'
        BY <2>1, <2>2, UseKeeps
    <2>4. AccountsOwned'
        BY <2>1, <2>2, <2>3 DEF AccountsOwned
    <2>5. Requesting' /\ OneHeard' /\ SentHome'
        BY <2>1, OpenKeeps DEF SentHome
    <2> QED BY <2>3, <2>4, <2>5
<1>12. CASE Requests!Ages
    BY <1>12
    DEF Requests!Ages, AccountsOwned, ClientOwned, Requesting, OneHeard, SentHome,
        Requests!settings
<1>13. ASSUME NEW p \in Providers, Requests!Choose(p) PROVE RequestsInv'
    <2>1. /\ Requests!Use(p, Requests!CredentialFor(p))
          /\ UNCHANGED <<Requests!accounts, strayed, heard, sent>>
          /\ posted' = [posted EXCEPT !.open = Requests!StillOpen(p, Requests!CredentialFor(p))]
        BY <1>13 DEF Requests!Choose, Requests!accounts
    <2>2. FitsOf(strayed', p, Requests!CredentialFor(p)) /\ strayed \subseteq strayed'
        BY <2>1, CredentialForFits
    <2>3. /\ provider' \in Providers /\ FitsOf(strayed', provider', credential')
          /\ ClientOwned'
        BY <2>1, <2>2, UseKeeps
    <2>4. AccountsOwned'
        BY <2>1, <2>3 DEF AccountsOwned, Requests!accounts
    <2>5. Requesting' /\ OneHeard' /\ SentHome'
        BY <2>1, OpenKeeps DEF SentHome
    <2> QED BY <2>3, <2>4, <2>5
<1>14. ASSUME NEW p \in Providers, Requests!Connect(p) PROVE RequestsInv'
    <2> DEFINE new == <<p, issued + 1>>
    <2>1. /\ UNCHANGED <<aging, strayed, heard, sent>>
          /\ issued' = issued + 1
          /\ session' = [session EXCEPT ![p] = new]
          /\ stored' = [stored EXCEPT ![p] = new]
        BY <1>14 DEF Requests!Connect
    <2>2. /\ new \in CredentialsOf(p) /\ issued + 1 \in Nat
          /\ FitsOf(strayed', p, new) /\ strayed \subseteq strayed'
        BY <2>1 DEF CredentialsOf, FitsOf, AccountsOwned
    <2>3. /\ provider' \in Providers /\ FitsOf(strayed', provider', credential')
          /\ ClientOwned'
          /\ Requesting' /\ OneHeard'
        <3>1. CASE p = provider
            <4>1. /\ Requests!Use(p, new)
                  /\ posted' = [posted EXCEPT !.open = Requests!StillOpen(p, new)]
                BY <1>14, <3>1 DEF Requests!Connect
            <4> QED BY <2>1, <2>2, <4>1, UseKeeps, OpenKeeps
        <3>2. CASE p # provider
            <4>1. UNCHANGED <<provider, credential, cached, posted>>
                BY <1>14, <3>2 DEF Requests!Connect
            <4> QED
                BY <2>1, <4>1
                DEF AccountsOwned, ClientOwned, Requesting, OneHeard
        <3> QED BY <3>1, <3>2
    <2>4. AccountsOwned'
        BY <2>1, <2>2, <2>3 DEF AccountsOwned
    <2>5. SentHome'
        BY <2>1 DEF SentHome
    <2> QED BY <2>3, <2>4, <2>5
<1> QED
    BY <1>1, <1>2, <1>3, <1>4, <1>5, <1>6, <1>7, <1>8, <1>9, <1>10, <1>11, <1>12,
       <1>13, <1>14
    DEF Requests!Next

LEMMA RequestsStart == Requests!Init => RequestsInv
<1> SUFFICES ASSUME Requests!Init PROVE RequestsInv
    OBVIOUS
<1>1. AccountsOwned
    BY DEF Requests!Init, AccountsOwned, FitsOf, CredentialsOf, Requests!NoCredential
<1>2. Requesting /\ ClientOwned /\ SentHome /\ OneHeard
    BY DEF Requests!Init, Requesting, ClientOwned, SentHome, OneHeard,
       Requests!NoRequest
<1> QED BY <1>1, <1>2 DEF RequestsInv

(* ModelRequests: for any providers, retries and credentials, whatever the *)
(* user does while a request is refreshed, prepared or retried, each       *)
(* credential goes to the provider it is of, but for the token of a        *)
(* refresh during which another provider was chosen; and of the attempts   *)
(* at a request at most one is passed on (SessionSettings,                 *)
(* LLMClient.refresh_credential, chat_completion and get_client).          *)
THEOREM CredentialsAlwaysGoHome ==
    Requests!Spec => [](Requests!CredentialGoesHome /\ Requests!OneAttemptIsHeard)
<1>1. RequestsInv /\ [Requests!Next]_(Requests!vars) => RequestsInv'
    <2>1. RequestsInv /\ UNCHANGED Requests!vars => RequestsInv'
        BY DEF Requests!vars, Requests!settings, Requests!accounts, RequestsInv,
           AccountsOwned, Requesting, ClientOwned, SentHome, OneHeard
    <2> QED BY <2>1, RequestsStep
<1>2. RequestsInv => Requests!CredentialGoesHome /\ Requests!OneAttemptIsHeard
    <2> SUFFICES ASSUME RequestsInv PROVE Requests!CredentialGoesHome /\ Requests!OneAttemptIsHeard
        OBVIOUS
    <2>1. heard = {} \/ \E a : heard = {a}
        BY DEF RequestsInv, OneHeard
    <2>2. Cardinality(heard) \in {0, 1}
        BY <2>1, FS_EmptySet, FS_Singleton
    <2>3. Requests!Cardinality(heard) = Cardinality(heard)
        BY Zenon DEF Cardinality, Requests!Cardinality
    <2> QED
        BY <2>2, <2>3
        DEF RequestsInv, SentHome, HomeOf, Requests!CredentialGoesHome,
            Requests!OneAttemptIsHeard
<1> QED BY <1>1, <1>2, RequestsStart, PTL DEF Requests!Spec

-----------------------------------------------------------------------------
(* The language server.                                                    *)

(* A call keeps what it is; a server is started only while none is kept;   *)
(* a report is waited for only by the call that asked for one.             *)
CallStands ==
    /\ call = [pc |-> call.pc, kind |-> call.kind, doc |-> call.doc,
               process |-> call.process, since |-> call.since]
    /\ call.pc = "starting" => client = 0
    /\ call.pc = "settling" => call.kind = "diagnostics"

ProcessesNumbered == starts \in Nat /\ \A p \in procs : p \in 1..starts

LanguageInv == CallStands /\ ProcessesNumbered /\ Language!AnswersAreOwn /\ Language!NoOrphans

LEMMA RefusesKeeps ==
    ASSUME Language!Refuses, UNCHANGED client
    PROVE  CallStands' /\ Language!AnswersAreOwn' /\ call'.pc = "idle"
BY DEF Language!Refuses, Language!NoCall, Language!Failure, CallStands,
   Language!AnswersAreOwn

LEMMA OrphansKeep ==
    ASSUME Language!NoOrphans, UNCHANGED client, procs' \subseteq procs, ~Language!At({"starting"})
    PROVE  Language!NoOrphans'
BY DEF Language!NoOrphans, Language!At

LEMMA FailPendingKeeps ==
    ASSUME LanguageInv, Language!FailPending, UNCHANGED <<client, starts>>, procs' \subseteq procs
    PROVE  LanguageInv'
<1>1. ProcessesNumbered'
    BY DEF LanguageInv, ProcessesNumbered
<1>2. CASE Language!At({"waiting"})
    <2>1. Language!Refuses
        BY <1>2 DEF Language!FailPending
    <2>2. Language!NoOrphans'
        BY <1>2, OrphansKeep DEF LanguageInv, Language!At
    <2> QED BY <1>1, <2>1, <2>2, RefusesKeeps DEF LanguageInv
<1>3. CASE ~Language!At({"waiting"})
    <2>1. UNCHANGED <<call, last>>
        BY <1>3 DEF Language!FailPending
    <2> QED
        BY <1>1, <2>1
        DEF LanguageInv, CallStands, Language!AnswersAreOwn, Language!NoOrphans,
            Language!At
<1> QED BY <1>2, <1>3

LEMMA LanguageStep ==
    ASSUME LanguageInv, Language!Next
    PROVE  LanguageInv'
<1> USE DEF LanguageInv
<1>1. ASSUME NEW kind, NEW d \in Docs, Language!Begin(kind, d) PROVE LanguageInv'
    BY <1>1
    DEF Language!Begin, Language!At, Language!NoCall, Language!manager, CallStands,
        ProcessesNumbered, Language!AnswersAreOwn, Language!NoOrphans
<1>2. CASE Language!Reuses
    BY <1>2
    DEF Language!Reuses, Language!At, Language!To, Language!manager, CallStands,
        ProcessesNumbered, Language!AnswersAreOwn, Language!NoOrphans
<1>3. CASE Language!Remembers \/ Language!CannotAsk \/ Language!TimesOut \/ Language!Unreadable
    <2>1. Language!Refuses /\ UNCHANGED Language!manager /\ ~Language!At({"starting"})
        BY <1>3
        DEF Language!Remembers, Language!CannotAsk, Language!TimesOut,
            Language!Unreadable, Language!At
    <2> QED
        BY <2>1, RefusesKeeps, OrphansKeep
        DEF Language!manager, ProcessesNumbered
<1>4. CASE Language!Spawns
    <2>1. /\ call' = [call EXCEPT !.pc = "starting", !.process = starts + 1]
          /\ starts' = starts + 1 /\ procs' = procs \cup {starts + 1}
          /\ client = 0 /\ UNCHANGED <<client, last>> /\ call.pc = "resolved"
        BY <1>4 DEF Language!Spawns, Language!At
    <2>2. /\ CallStands' /\ Language!AnswersAreOwn' /\ call'.pc = "starting"
          /\ call'.process = starts + 1
        BY <2>1 DEF CallStands, Language!AnswersAreOwn
    <2>3. Language!NoOrphans'
        BY <2>1, <2>2 DEF Language!NoOrphans, Language!At
    <2>4. ProcessesNumbered'
        BY <2>1 DEF ProcessesNumbered
    <2> QED BY <2>2, <2>3, <2>4
<1>5. CASE Language!Cannot
    <2>1. /\ Language!Refuses /\ UNCHANGED <<procs, starts, client>>
          /\ ~Language!At({"starting"})
        BY <1>5 DEF Language!Cannot, Language!At
    <2> QED BY <2>1, RefusesKeeps, OrphansKeep DEF ProcessesNumbered
<1>6. CASE Language!Starts
    <2>1. /\ client' = call.process /\ UNCHANGED <<procs, starts, last>>
          /\ call.pc = "starting"
          /\ call' = [call EXCEPT !.pc = IF call.kind = "symbols" THEN "asking" ELSE "opening"]
        BY <1>6 DEF Language!Starts, Language!At, Language!To
    <2>2. CallStands' /\ Language!AnswersAreOwn' /\ call'.pc \in {"asking", "opening"}
        BY <2>1 DEF CallStands, Language!AnswersAreOwn
    <2>3. procs \subseteq {call.process}
        BY <2>1 DEF Language!NoOrphans, CallStands, ProcessesNumbered, Language!At
    <2> QED
        BY <2>1, <2>2, <2>3
        DEF Language!NoOrphans, ProcessesNumbered, Language!At
<1>7. CASE Language!StartFails
    <2>1. /\ procs' = procs \ {call.process} /\ Language!Refuses
          /\ UNCHANGED <<client, starts>>
          /\ call.pc = "starting"
        BY <1>7 DEF Language!StartFails, Language!Stopped, Language!At
    <2>2. procs' \subseteq {client}
        BY <2>1 DEF Language!NoOrphans, Language!At
    <2> QED BY <2>1, <2>2, RefusesKeeps DEF Language!NoOrphans, ProcessesNumbered
<1>8. CASE Language!Opens
    <2>1. UNCHANGED Language!manager /\ call.pc = "opening"
        BY <1>8 DEF Language!Opens, Language!At
    <2>2. CASE Language!Sends(call.doc) /\ ~Language!Running
        <3>1. Language!Refuses
            BY <1>8, <2>2 DEF Language!Opens
        <3> QED
            BY <2>1, <3>1, RefusesKeeps, OrphansKeep
            DEF Language!manager, ProcessesNumbered, Language!At
    <2>3. CASE ~(Language!Sends(call.doc) /\ ~Language!Running)
        <3>1. /\ call' = [call EXCEPT !.pc = IF call.kind = "diagnostics" THEN "settling" ELSE "asking"]
              /\ UNCHANGED last
            BY <1>8, <2>3 DEF Language!Opens, Language!To
        <3>2. CallStands' /\ Language!AnswersAreOwn'
            BY <2>1, <3>1 DEF CallStands, Language!AnswersAreOwn, Language!manager
        <3> QED
            BY <2>1, <3>2, OrphansKeep
            DEF Language!manager, ProcessesNumbered, Language!At
    <2> QED BY <2>2, <2>3
<1>9. CASE Language!Reports \/ Language!ReportsNothing
    <2>1. /\ Language!Returns(diagnostics[call.doc]) /\ UNCHANGED Language!manager
          /\ call.pc = "settling"
        BY <1>9 DEF Language!Reports, Language!ReportsNothing, Language!At
    <2>2. CallStands' /\ Language!AnswersAreOwn'
        BY <2>1
        DEF Language!Returns, Language!NoCall, CallStands, Language!AnswersAreOwn
    <2> QED
        BY <2>1, <2>2, OrphansKeep
        DEF Language!manager, ProcessesNumbered, Language!At
<1>10. CASE Language!Asks
    <2>1. /\ call' = [call EXCEPT !.pc = "waiting"]
          /\ UNCHANGED <<Language!manager, last>> /\ call.pc = "asking"
        BY <1>10 DEF Language!Asks, Language!To, Language!At
    <2>2. CallStands' /\ Language!AnswersAreOwn'
        BY <2>1 DEF CallStands, Language!AnswersAreOwn
    <2> QED
        BY <2>1, <2>2, OrphansKeep
        DEF Language!manager, ProcessesNumbered, Language!At
<1>11. ASSUME NEW id \in unanswered, Language!Answers(id) PROVE LanguageInv'
    <2>1. UNCHANGED Language!manager
        BY <1>11 DEF Language!Answers
    <2>2. CASE Language!Matches(id)
        <3>1. Language!Returns(id) /\ id = calls /\ call.pc = "waiting"
            BY <1>11, <2>2
            DEF Language!Answers, Language!Matches, Language!Pending, Language!At
        <3>2. CallStands' /\ Language!AnswersAreOwn'
            BY <3>1
            DEF Language!Returns, Language!NoCall, CallStands,
                Language!AnswersAreOwn
        <3> QED
            BY <2>1, <3>1, <3>2, OrphansKeep
            DEF Language!manager, ProcessesNumbered, Language!At
    <2>3. CASE ~Language!Matches(id)
        BY <1>11, <2>1, <2>3
        DEF Language!Answers, Language!manager, CallStands, ProcessesNumbered,
            Language!AnswersAreOwn, Language!NoOrphans, Language!At
    <2> QED BY <2>2, <2>3
<1>12. ASSUME NEW d \in Docs, Language!Publishes(d) \/ Language!Edits(d) PROVE LanguageInv'
    BY <1>12
    DEF Language!Publishes, Language!Edits, Language!manager, CallStands,
        ProcessesNumbered, Language!AnswersAreOwn, Language!NoOrphans, Language!At
<1>13. CASE Language!Garbles
    BY <1>13, FailPendingKeeps DEF Language!Garbles
<1>14. CASE Language!Cancelled
    <2>1. Language!Refuses /\ UNCHANGED Language!manager /\ ~Language!At({"starting"})
        BY <1>14 DEF Language!Cancelled
    <2> QED
        BY <2>1, RefusesKeeps, OrphansKeep
        DEF Language!manager, ProcessesNumbered
<1>15. CASE Language!Close
    <2>1. /\ client' = 0 /\ procs' = procs \ {client} /\ Language!FailPending
          /\ UNCHANGED starts
          /\ call.pc # "starting"
        BY <1>15 DEF Language!Close, Language!Stopped, Language!At
    <2>2. procs' = {} /\ ProcessesNumbered' /\ Language!NoOrphans'
        BY <2>1 DEF Language!NoOrphans, ProcessesNumbered, Language!At
    <2>3. CallStands' /\ Language!AnswersAreOwn'
        BY <2>1
        DEF Language!FailPending, Language!Refuses, Language!NoCall,
            Language!Failure, CallStands, Language!AnswersAreOwn
    <2> QED BY <2>2, <2>3
<1>16. ASSUME NEW p \in procs, Language!Exits(p) PROVE LanguageInv'
    <2>1. procs' \subseteq procs /\ UNCHANGED <<client, starts>>
        BY <1>16 DEF Language!Exits
    <2>2. Language!FailPending \/ UNCHANGED <<call, last>>
        BY <1>16 DEF Language!Exits
    <2>3. CASE UNCHANGED <<call, last>>
        BY <2>1, <2>3
        DEF CallStands, ProcessesNumbered, Language!AnswersAreOwn,
            Language!NoOrphans, Language!At
    <2> QED BY <2>1, <2>2, <2>3, FailPendingKeeps
<1> QED
    BY <1>1, <1>2, <1>3, <1>4, <1>5, <1>6, <1>7, <1>8, <1>9, <1>10, <1>11, <1>12,
       <1>13, <1>14,
       <1>15, <1>16
    DEF Language!Next, Language!Calling

(* LanguageServer: for any calls, edits and exits, an answer is that of    *)
(* the question it is given to, and no server process runs that nobody     *)
(* would stop, unless a start is cancelled (StdioTransport._dispatch,      *)
(* LspManager.client_for and stop_all).                                    *)
THEOREM AnswersAlwaysOwn ==
    Language!Spec => [](Language!AnswersAreOwn /\ Language!NoOrphans)
<1>1. Language!Init => LanguageInv
    BY DEF Language!Init, LanguageInv, Language!NoCall, Language!Failure,
       CallStands, ProcessesNumbered, Language!AnswersAreOwn, Language!NoOrphans
<1>2. LanguageInv /\ [Language!Next]_(Language!vars) => LanguageInv'
    <2>1. LanguageInv /\ UNCHANGED Language!vars => LanguageInv'
        BY DEF Language!vars, Language!manager, LanguageInv, CallStands,
           ProcessesNumbered, Language!AnswersAreOwn, Language!NoOrphans,
           Language!At
    <2> QED BY <2>1, LanguageStep
<1>3. LanguageInv => Language!AnswersAreOwn /\ Language!NoOrphans
    BY DEF LanguageInv
<1> QED BY <1>1, <1>2, <1>3, PTL DEF Language!Spec

-----------------------------------------------------------------------------
(* The MCP servers.                                                        *)

Offers == (1..Len(Servers)) \X Seq(STRING)

Registering ==
    /\ next \in Nat /\ next >= 1 /\ tools \subseteq Offers
    /\ phase \in {"starting", "started", "stopped"}
    /\ phase = "starting" => registry = [name \in BuiltIn |-> Tools!BuiltInTool(name)]

ServersInv == Registering /\ Tools!NoOrphans /\ Tools!ToolsStayDistinct

LEMMA ElementsAreIn ==
    ASSUME NEW S, NEW s \in Seq(S), NEW k \in DOMAIN s
    PROVE  s[k] \in S
OBVIOUS

(* The characters of the names that are registered.                        *)
Characters == STRING \cup {"m", "c", "p", "_"}

LEMMA CharactersOfNames ==
    ASSUME NEW C, NEW S, NEW s \in Seq(S), S \subseteq C
    PROVE  s \in Seq(C)
OBVIOUS

LEMMA FixedParts ==
    /\ Tools!Prefix \in Seq(Characters) /\ Len(Tools!Prefix) = 5
    /\ Tools!Separator \in Seq(Characters) /\ Len(Tools!Separator) = 2
<1>1. ASSUME NEW C, NEW i \in C, NEW j \in C, NEW k \in C, NEW l \in C
      PROVE  /\ <<i, j, k, l, l>> \in Seq(C) /\ Len(<<i, j, k, l, l>>) = 5
             /\ <<l, l>> \in Seq(C) /\ Len(<<l, l>>) = 2
    OBVIOUS
<1>2. PICK i \in Characters : i = "m"
    BY Zenon DEF Characters
<1>3. PICK j \in Characters : j = "c"
    BY Zenon DEF Characters
<1>4. PICK k \in Characters : k = "p"
    BY Zenon DEF Characters
<1>5. PICK l \in Characters : l = "_"
    BY Zenon DEF Characters
<1>6. Tools!Prefix = <<i, j, k, l, l>> /\ Tools!Separator = <<l, l>>
    BY <1>2, <1>3, <1>4, <1>5, Zenon DEF Tools!Prefix, Tools!Separator
<1> HIDE DEF Characters
<1> QED BY <1>1, <1>6

Joined(f, r, s) ==
    /\ Len(f) = Len(r) + Len(s) /\ DOMAIN f = 1..(Len(r) + Len(s))
    /\ Len(r) \in Nat /\ Len(s) \in Nat
    /\ \A k \in 1..Len(r) : f[k] = r[k]
    /\ \A k \in 1..Len(s) : f[Len(r) + k] = s[k]

LEMMA JoinedAt ==
    ASSUME NEW S, NEW r \in Seq(S), NEW s \in Seq(S), NEW f, f = r \o s
    PROVE  f \in Seq(S) /\ Joined(f, r, s)
BY DEF Joined

(* Where a tool's whole name has the server's name and the tool's own.     *)
Split(h, s, n) ==
    /\ s \in Seq(STRING) /\ n \in Seq(STRING)
    /\ Len(h) = 7 + Len(s) + Len(n)
    /\ \A k \in 1..5 : k \in DOMAIN h /\ h[k] = Tools!Prefix[k]
    /\ \A k \in 1..Len(s) : h[5 + k] = s[k]
    /\ \A k \in 1..Len(n) : h[7 + Len(s) + k] = n[k]

LEMMA NamesSplit ==
    ASSUME NEW t \in Offers, NEW h, h = Tools!Namespaced(t)
    PROVE  Split(h, Servers[t[1]], t[2])
<1>0. PICK s \in Seq(STRING) : s = Servers[t[1]]
    BY ServicesAssumption DEF Offers
<1>1. PICK n \in Seq(STRING) : n = t[2]
    BY DEF Offers
<1>2. s \in Seq(Characters) /\ n \in Seq(Characters)
    <2>1. STRING \subseteq Characters
        BY DEF Characters
    <2> HIDE DEF Characters
    <2> QED BY <2>1, CharactersOfNames, Zenon
<1>3. PICK p \in Seq(Characters) : p = Tools!Prefix /\ Len(p) = 5
    BY FixedParts
<1>4. PICK d \in Seq(Characters) : d = Tools!Separator /\ Len(d) = 2
    BY FixedParts
<1>5. PICK f : f = p \o s
    OBVIOUS
<1>a. f \in Seq(Characters) /\ Joined(f, p, s)
    BY <1>2, <1>5, JoinedAt
<1>6. /\ Len(f) = 5 + Len(s) /\ Len(s) \in Nat
      /\ \A k \in 1..5 : f[k] = p[k]
      /\ \A k \in 1..Len(s) : f[5 + k] = s[k]
    BY <1>a, <1>3 DEF Joined
<1>7. PICK g : g = f \o d
    OBVIOUS
<1>b. g \in Seq(Characters) /\ Joined(g, f, d)
    BY <1>a, <1>4, <1>7, JoinedAt
<1>8. /\ Len(g) = 7 + Len(s)
      /\ \A k \in 1..Len(f) : g[k] = f[k]
    BY <1>b, <1>4, <1>6 DEF Joined
<1>9. h = g \o n
    BY <1>0, <1>1, <1>3, <1>4, <1>5, <1>7 DEF Tools!Namespaced
<1>c. Joined(h, g, n)
    BY <1>2, <1>b, <1>9, JoinedAt
<1>10. /\ Len(h) = 7 + Len(s) + Len(n) /\ Len(n) \in Nat /\ DOMAIN h = 1..(7 + Len(s) + Len(n))
       /\ \A k \in 1..Len(g) : h[k] = g[k]
       /\ \A k \in 1..Len(n) : h[7 + Len(s) + k] = n[k]
    BY <1>c, <1>8 DEF Joined
<1>11. \A k \in 1..5 : k \in DOMAIN h /\ h[k] = p[k]
    <2> TAKE k \in 1..5
    <2>1. k \in 1..Len(f) /\ k \in 1..Len(g) /\ k \in 1..(7 + Len(s) + Len(n))
        BY <1>6, <1>8, <1>10
    <2>2. h[k] = g[k] /\ g[k] = f[k] /\ f[k] = p[k]
        BY <2>1, <1>6, <1>8, <1>10
    <2> QED BY <2>1, <2>2, <1>10
<1>12. \A k \in 1..Len(s) : h[5 + k] = s[k]
    <2> TAKE k \in 1..Len(s)
    <2>1. 5 + k \in 1..Len(f) /\ 5 + k \in 1..Len(g)
        BY <1>6, <1>8
    <2> QED BY <2>1, <1>6, <1>8, <1>10
<1>13. Split(h, s, n)
    BY <1>3, <1>10, <1>11, <1>12 DEF Split
<1> QED BY <1>0, <1>1, <1>13

(* Two sequences of one length with the same elements are one.             *)
LEMMA SameElements ==
    ASSUME NEW s \in Seq(STRING), NEW r \in Seq(STRING), Len(s) = Len(r),
           \A k \in 1..Len(s) : s[k] = r[k]
    PROVE  s = r
BY SeqEqual

(* So of two tools of one name, two servers or two own names are the same  *)
(* only if both are.                                                       *)
LEMMA NamesAreApart ==
    ASSUME NEW t \in Offers, NEW u \in Offers,
           Tools!Namespaced(t) = Tools!Namespaced(u), t[1] = u[1] \/ t[2] = u[2]
    PROVE  t = u
<1> DEFINE s == Servers[t[1]]
           r == Servers[u[1]]
           n == t[2]
           m == u[2]
<1>1. PICK h : h = Tools!Namespaced(t) /\ h = Tools!Namespaced(u)
    OBVIOUS
<1>a. Split(h, s, n) /\ Split(h, r, m)
    BY <1>1, NamesSplit
<1>2. /\ s \in Seq(STRING) /\ n \in Seq(STRING) /\ Len(h) = 7 + Len(s) + Len(n)
      /\ \A k \in 1..Len(s) : h[5 + k] = s[k]
      /\ \A k \in 1..Len(n) : h[7 + Len(s) + k] = n[k]
    BY <1>a DEF Split
<1>3. /\ r \in Seq(STRING) /\ m \in Seq(STRING) /\ Len(h) = 7 + Len(r) + Len(m)
      /\ \A k \in 1..Len(r) : h[5 + k] = r[k]
      /\ \A k \in 1..Len(m) : h[7 + Len(r) + k] = m[k]
    BY <1>a DEF Split
<1>4. Len(s) \in Nat /\ Len(n) \in Nat /\ Len(r) \in Nat /\ Len(m) \in Nat
    BY <1>2, <1>3
<1>5. t[1] \in DOMAIN Servers /\ u[1] \in DOMAIN Servers
    BY ServicesAssumption DEF Offers
<1>6. CASE t[1] = u[1]
    <2>1. s = r
        BY <1>6
    <2> HIDE DEF s, r, n, m
    <2>2. Len(n) = Len(m)
        BY <2>1, <1>2, <1>3, <1>4
    <2>3. \A k \in 1..Len(n) : n[k] = m[k]
        BY <2>1, <2>2, <1>2, <1>3
    <2>4. n = m
        BY <2>2, <2>3, <1>2, <1>3, SameElements
    <2> QED BY <2>4, <1>6 DEF Offers, n, m
<1>7. CASE t[2] = u[2]
    <2>1. n = m
        BY <1>7
    <2> HIDE DEF s, r, n, m
    <2>2. Len(s) = Len(r)
        BY <2>1, <1>2, <1>3, <1>4
    <2>3. \A k \in 1..Len(s) : s[k] = r[k]
        BY <2>2, <1>2, <1>3
    <2>4. s = r
        BY <2>2, <2>3, <1>2, <1>3, SameElements
    <2>5. t[1] = u[1]
        BY <2>4, <1>5, ServicesAssumption DEF s, r
    <2> QED BY <2>5, <1>7 DEF Offers
<1> QED BY <1>6, <1>7

LEMMA OffersAreTools ==
    ASSUME NEW listing \in Listings, NEW i \in 1..Len(Servers)
    PROVE  {<<i, name>> : name \in Tools!Descriptors(listing)} \subseteq Offers
<1>1. \A k \in DOMAIN listing : listing[k].name \in Seq(STRING)
    <2>1. listing \in Seq([name : Seq(STRING), usable : BOOLEAN, depth : Nat])
        BY ServicesAssumption
    <2>2. \A k \in DOMAIN listing :
            listing[k] \in [name : Seq(STRING), usable : BOOLEAN, depth : Nat]
        BY <2>1, ElementsAreIn
    <2> QED BY <2>2
<1>2. Tools!Descriptors(listing) \subseteq Seq(STRING)
    BY <1>1 DEF Tools!Descriptors
<1> QED BY <1>2 DEF Offers

(* The first of a name is one of that name.                                *)
LEMMA FirstIsFirst ==
    ASSUME tools \subseteq Offers, NEW tool \in tools, NEW name, name = Tools!Namespaced(tool)
    PROVE  /\ Tools!First(name) \in tools /\ Tools!Namespaced(Tools!First(name)) = name
           /\ Tools!First(name)[1] <= tool[1]
<1> DEFINE Same == {t \in tools : Tools!Namespaced(t) = name}
           Places == {t[1] : t \in Same}
<1>1. Places \subseteq Nat /\ Places # {} /\ tool \in Same
    BY ServicesAssumption DEF Offers
<1>2. PICK n \in Places : \A m \in Places : n <= m
    <2> HIDE DEF Places
    <2> QED BY <1>1, HasLeast
<1>3. PICK t \in Same : t[1] = n
    BY <1>2
<1>4. t \in tools /\ Tools!Namespaced(t) = name /\ \A u \in tools : Tools!Namespaced(u) = name => t[1] <= u[1]
    BY <1>2, <1>3
<1> HIDE DEF Same, Places
<1>5. /\ Tools!First(name) \in tools /\ Tools!Namespaced(Tools!First(name)) = name
      /\ \A u \in tools : Tools!Namespaced(u) = name => Tools!First(name)[1] <= u[1]
    BY <1>4, Zenon DEF Tools!First
<1> QED BY <1>5

(* What is registered: the tools under their whole names, and the          *)
(* program's own.                                                          *)
Distinct(all) ==
    /\ \A name \in BuiltIn : all[name] = Tools!BuiltInTool(name)
    /\ \A name \in DOMAIN all \ BuiltIn :
          all[name] \in tools /\ Tools!Namespaced(all[name]) = name
    /\ \A tool \in tools :
          /\ Tools!Namespaced(tool) \in DOMAIN all
          /\ \/ all[Tools!Namespaced(tool)] = tool
             \/ /\ all[Tools!Namespaced(tool)] \in tools
                /\ all[Tools!Namespaced(tool)][1] < tool[1]
                /\ all[Tools!Namespaced(tool)][2] # tool[2]

LEMMA RegisteredIsDistinct ==
    ASSUME tools \subseteq Offers,
           registry = [name \in BuiltIn |-> Tools!BuiltInTool(name)], NEW all, all = Tools!Registered
    PROVE  Distinct(all)
<1>1. /\ DOMAIN registry = BuiltIn
      /\ DOMAIN all = BuiltIn \cup {Tools!Namespaced(tool) : tool \in tools}
      /\ \A name \in DOMAIN all :
            all[name] = IF name \in BuiltIn THEN registry[name] ELSE Tools!First(name)
    BY DEF Tools!Registered
<1>2. ASSUME NEW name \in BuiltIn PROVE all[name] = Tools!BuiltInTool(name)
    BY <1>1, <1>2
<1>3. ASSUME NEW name \in DOMAIN all \ BuiltIn
      PROVE  all[name] \in tools /\ Tools!Namespaced(all[name]) = name
    <2>1. PICK tool \in tools : name = Tools!Namespaced(tool)
        BY <1>1, <1>3
    <2>2. all[name] = Tools!First(name)
        BY <1>1, <1>3
    <2> QED BY <2>1, <2>2, FirstIsFirst
<1>4. ASSUME NEW tool \in tools
      PROVE  /\ Tools!Namespaced(tool) \in DOMAIN all
             /\ \/ all[Tools!Namespaced(tool)] = tool
                \/ /\ all[Tools!Namespaced(tool)] \in tools
                   /\ all[Tools!Namespaced(tool)][1] < tool[1]
                   /\ all[Tools!Namespaced(tool)][2] # tool[2]
    <2>1. PICK name : name = Tools!Namespaced(tool)
        OBVIOUS
    <2>2. tool \in Offers
        BY <1>4
    <2>3. name \notin BuiltIn
        <3>1. \A k \in 1..5 : k \in DOMAIN name /\ name[k] = Tools!Prefix[k]
            BY <2>1, <2>2, NamesSplit DEF Split
        <3> QED BY <3>1, ServicesAssumption
    <2>4. PICK f : f = Tools!First(name)
        OBVIOUS
    <2>5. name \in DOMAIN all /\ all[name] = f
        BY <1>1, <2>1, <2>3, <2>4
    <2>6. f \in tools /\ Tools!Namespaced(f) = name /\ f[1] <= tool[1]
        BY <2>1, <2>4, FirstIsFirst
    <2>7. f[1] \in Nat /\ tool[1] \in Nat /\ f \in Offers
        BY <2>2, <2>6, ServicesAssumption DEF Offers
    <2>8. f[1] = tool[1] \/ f[2] = tool[2] => f = tool
        BY <2>1, <2>2, <2>6, <2>7, NamesAreApart
    <2>9. f = tool \/ (f[1] < tool[1] /\ f[2] # tool[2])
        BY <2>6, <2>7, <2>8
    <2> QED BY <2>1, <2>5, <2>6, <2>9
<1> QED BY <1>2, <1>3, <1>4 DEF Distinct

LEMMA ServersStep ==
    ASSUME ServersInv, Tools!Next
    PROVE  ServersInv'
<1> USE DEF ServersInv
<1>0. Len(Servers) \in Nat
    BY ServicesAssumption
<1>1. CASE Tools!Unstarted
    BY <1>1
    DEF Tools!Unstarted, Tools!Proceeds, Tools!Starting, Registering,
        Tools!NoOrphans, Tools!ToolsStayDistinct
<1>2. CASE Tools!Spawns
    BY <1>2
    DEF Tools!Spawns, Tools!Starting, Tools!Current, Registering, Tools!NoOrphans,
        Tools!ToolsStayDistinct
<1>3. CASE Tools!Initialized
    BY <1>3
    DEF Tools!Initialized, Tools!Starting, Tools!Current, Registering,
        Tools!NoOrphans, Tools!ToolsStayDistinct
<1>4. CASE Tools!Abandons
    BY <1>4
    DEF Tools!Abandons, Tools!Discarded, Tools!Proceeds, Tools!Starting,
        Tools!Current, Registering, Tools!NoOrphans, Tools!ToolsStayDistinct
<1>5. CASE Tools!Lists
    <2>1. tools' \subseteq Offers
        BY <1>0, <1>5, OffersAreTools DEF Tools!Lists, Tools!Starting, Registering
    <2>2. Tools!NoOrphans'
        BY <1>5
        DEF Tools!Lists, Tools!Proceeds, Tools!Starting, Tools!Current,
            Tools!NoOrphans
    <2> QED
        BY <1>5, <2>1, <2>2
        DEF Tools!Lists, Tools!Proceeds, Tools!Starting, Registering,
            Tools!ToolsStayDistinct
<1>6. CASE Tools!Registers
    <2>1. /\ registry' = Tools!Registered /\ phase' = "started" /\ phase = "starting"
          /\ UNCHANGED <<next, step, live, clients, tools>> /\ ~Tools!Starting
        BY <1>0, <1>6 DEF Tools!Registers, Tools!Starting, Registering
    <2>2. Tools!ToolsStayDistinct'
        <3>1. PICK all : all = Tools!Registered
            OBVIOUS
        <3>2. registry' = all /\ tools' = tools
            BY <2>1, <3>1
        <3>3. tools \subseteq Offers /\ registry = [name \in BuiltIn |-> Tools!BuiltInTool(name)]
            BY <2>1 DEF Registering
        <3>4. Distinct(all)
            BY <3>1, <3>3, RegisteredIsDistinct
        <3> QED BY <3>2, <3>4, Zenon DEF Distinct, Tools!ToolsStayDistinct, Tools!Namespaced, Tools!BuiltInTool
    <2>3. Tools!NoOrphans'
        BY <2>1 DEF Tools!NoOrphans, Tools!Starting
    <2> QED BY <2>1, <2>2, <2>3 DEF Registering
<1>7. CASE Tools!ServerExits
    BY <1>7
    DEF Tools!ServerExits, Tools!Starting, Tools!Current, Registering,
        Tools!NoOrphans, Tools!ToolsStayDistinct
<1>8. CASE Tools!Stop
    BY <1>8
    DEF Tools!Stop, Tools!Starting, Registering, Tools!NoOrphans,
        Tools!ToolsStayDistinct
<1> QED BY <1>1, <1>2, <1>3, <1>4, <1>5, <1>6, <1>7, <1>8 DEF Tools!Next

(* McpServers: whatever servers list, in whichever order they fail, a tool *)
(* is registered under its whole name, none for a tool of the program, one *)
(* is left out only for a tool of an earlier server that has another name  *)
(* and makes the same whole, and no server is left running                 *)
(* (namespaced_name, Agent.initialize_mcp, McpManager._start_one, stop).   *)
THEOREM ToolsAlwaysDistinct ==
    Tools!Spec => [](Tools!ToolsStayDistinct /\ Tools!NoOrphans)
<1>1. Tools!Init => ServersInv
    BY DEF Tools!Init, ServersInv, Registering, Tools!NoOrphans,
       Tools!ToolsStayDistinct
<1>2. ServersInv /\ [Tools!Next]_(Tools!vars) => ServersInv'
    <2>1. ServersInv /\ UNCHANGED Tools!vars => ServersInv'
        BY DEF Tools!vars, ServersInv, Tools!Starting, Tools!Current, Registering,
           Tools!NoOrphans, Tools!ToolsStayDistinct
    <2> QED BY <2>1, ServersStep
<1>3. ServersInv => Tools!ToolsStayDistinct /\ Tools!NoOrphans
    BY DEF ServersInv
<1> QED BY <1>1, <1>2, <1>3, PTL DEF Tools!Spec

-----------------------------------------------------------------------------
(* The catalog of models.                                                  *)

RowRecords == [id : Models, effort : BOOLEAN, withdrawn : BOOLEAN]

(* Models.dev keys the models of a provider by id, so it lists each once;  *)
(* the code reads the id in the entry, which nothing ties to the key.      *)
ModelsListedOnce ==
    \A dir \in Directories : \A p \in DOMAIN dir :
        \A r, s \in dir[p] : r.id = s.id => r = s

OfferedRows(rows) == rows \subseteq RowRecords /\ \A r \in rows : ~r.withdrawn
ListedOnce(rows) == \A r, s \in rows : r.id = s.id => r = s
KnowsOf(known, rows) == \A d \in known, r \in rows : d.id = r.id /\ d.effort => r.effort

(* What is on disk came from Models.dev and from the providers.            *)
FilesAreLists ==
    /\ snapshot.whole => snapshot.entries \in Directories
    /\ DOMAIN lists = Configured
    /\ \A p \in Configured : lists[p].whole => OfferedRows(lists[p].rows)

(* While lists come in, a provider without a slice is waited for, and each *)
(* slice holds at least what the directory had of it.                      *)
SlicesCovered ==
    /\ DOMAIN entries \subseteq DOMAIN resolved
    /\ DOMAIN resolved \subseteq DOMAIN entries \cup Configured
    /\ Configured \subseteq DOMAIN resolved \cup waiting

SliceKeeps(p) ==
    /\ entries[p] # {} => resolved[p] # {}
    /\ p \notin Configured => resolved[p] = entries[p]
    /\ KnowsOf(entries[p], resolved[p])

SlicesKept ==
    /\ \A p \in DOMAIN entries : OfferedRows(entries[p]) /\ ListedOnce(entries[p]) /\ SliceKeeps(p)
    /\ \A p \in DOMAIN resolved : OfferedRows(resolved[p])

CatalogInv ==
    FilesAreLists /\ Catalog!PickerIsRetained /\ (at \in {"live", "shown"} => SlicesCovered /\ SlicesKept)
        /\ (at = "shown" => waiting = {})

LEMMA ParsedIsOffered ==
    ASSUME ModelsListedOnce, NEW dir \in Directories
    PROVE  \A p \in DOMAIN Catalog!Parsed(dir) :
              OfferedRows(Catalog!Parsed(dir)[p]) /\ ListedOnce(Catalog!Parsed(dir)[p])
BY ServicesAssumption
DEF ModelsListedOnce, Catalog!Parsed, OfferedRows, ListedOnce, RowRecords

LEMMA LiveIsOffered == \A rows \in Catalog!LiveLists : OfferedRows(rows)
<1>1. \A m \in Models : Catalog!Row(m, FALSE) \in RowRecords /\ ~Catalog!Row(m, FALSE).withdrawn
    BY DEF Catalog!Row, RowRecords
<1>2. ASSUME NEW rows \in Catalog!LiveLists, NEW r \in rows PROVE \E m \in Models : r = Catalog!Row(m, FALSE)
    BY <1>2 DEF Catalog!LiveLists
<1> QED BY <1>1, <1>2, Zenon DEF OfferedRows

LEMMA RetainedIsOffered ==
    ASSUME NEW p, NEW rows, OfferedRows(rows)
    PROVE  /\ OfferedRows(Catalog!Retained(p, rows))
           /\ KnowsOf(entries[p], Catalog!Retained(p, rows))
           /\ rows # {} => Catalog!Retained(p, rows) # {}
<1>1. ASSUME NEW r \in Catalog!Retained(p, rows)
      PROVE  /\ r \in RowRecords /\ ~r.withdrawn
             /\ \A d \in entries[p] : d.id = r.id /\ d.effort => r.effort
    <2> DEFINE more(s) == \E d \in entries[p] : d.id = s.id /\ d.effort
    <2>1. PICK s \in rows : r = [s EXCEPT !.effort = @ \/ more(s)]
        BY <1>1 DEF Catalog!Retained
    <2>2. s \in RowRecords /\ ~s.withdrawn
        BY DEF OfferedRows
    <2>3. (s.effort \/ more(s)) \in BOOLEAN
        BY <2>2, Zenon
    <2> HIDE DEF more
    <2>4. /\ r \in RowRecords /\ r.id = s.id /\ r.withdrawn = s.withdrawn
          /\ r.effort = (s.effort \/ more(s))
        BY <2>1, <2>2, <2>3 DEF RowRecords
    <2>5. \A d \in entries[p] : d.id = r.id /\ d.effort => r.effort
        BY <2>4, Zenon DEF more
    <2> QED BY <2>2, <2>4, <2>5
<1>2. rows # {} => Catalog!Retained(p, rows) # {}
    BY DEF Catalog!Retained
<1> QED BY <1>1, <1>2 DEF OfferedRows, KnowsOf

(* A list that comes in changes the slice of its provider alone.           *)
LEMMA MergedHolds ==
    ASSUME SlicesCovered, SlicesKept, NEW p \in Configured, NEW rows, OfferedRows(rows),
           resolved' = Catalog!Merged(p, rows), waiting' = waiting \ {p}, UNCHANGED entries
    PROVE  SlicesCovered' /\ SlicesKept'
<1>1. CASE p \notin DOMAIN resolved
    <2>1. /\ DOMAIN resolved' = DOMAIN resolved \cup {p} /\ resolved'[p] = rows
          /\ \A q \in DOMAIN resolved : resolved'[q] = resolved[q]
        BY <1>1 DEF Catalog!Merged, Catalog!Put
    <2>2. SlicesCovered'
        BY <2>1 DEF SlicesCovered
    <2>3. \A q \in DOMAIN entries : SliceKeeps(q)'
        BY <1>1, <2>1 DEF SlicesCovered, SlicesKept, SliceKeeps
    <2> QED BY <2>1, <2>2, <2>3 DEF SlicesKept
<1>2. CASE p \in DOMAIN resolved /\ rows # {}
    <2>1. /\ DOMAIN resolved' = DOMAIN resolved
          /\ resolved'[p] = Catalog!Retained(p, rows)
          /\ \A q \in DOMAIN resolved \ {p} : resolved'[q] = resolved[q]
        BY <1>2 DEF Catalog!Merged, Catalog!Put
    <2>2. SlicesCovered'
        BY <1>2, <2>1 DEF SlicesCovered
    <2>3. ASSUME NEW q \in DOMAIN entries PROVE SliceKeeps(q)'
        <3>1. CASE q = p
            BY <1>2, <2>1, <3>1, RetainedIsOffered DEF SliceKeeps
        <3>2. CASE q # p
            BY <2>1, <3>2 DEF SlicesCovered, SlicesKept, SliceKeeps
        <3> QED BY <3>1, <3>2
    <2>4. \A q \in DOMAIN resolved' : OfferedRows(resolved'[q])
        BY <2>1, RetainedIsOffered DEF SlicesKept
    <2> QED BY <2>2, <2>3, <2>4 DEF SlicesKept
<1>3. CASE p \in DOMAIN resolved /\ rows = {}
    <2>1. resolved' = resolved
        BY <1>3 DEF Catalog!Merged
    <2> QED BY <1>3, <2>1 DEF SlicesCovered, SlicesKept, SliceKeeps
<1> QED BY <1>1, <1>2, <1>3

LEMMA CatalogStep ==
    ASSUME ModelsListedOnce, CatalogInv, Catalog!Next
    PROVE  CatalogInv'
<1> USE DEF CatalogInv
<1>1. CASE Catalog!LoadDirectory
    <2>1. UNCHANGED <<lists, now, refresh>> /\ waiting' = Catalog!Dynamic(entries')
          /\ resolved' = entries'
        BY <1>1 DEF Catalog!LoadDirectory
    <2>2. /\ at' = "live" /\ FilesAreLists' /\ Catalog!PickerIsRetained'
          /\ \A p \in DOMAIN entries' : OfferedRows(entries'[p]) /\ ListedOnce(entries'[p])
        <3>1. CASE Catalog!UseSnapshot
            <4>1. /\ entries' = Catalog!Parsed(snapshot.entries) /\ origin' = "fresh"
                  /\ at' = "live"
                  /\ ~refresh /\ snapshot.whole /\ now - snapshot.at <= DirectoryTTL
                  /\ UNCHANGED snapshot
                BY <3>1 DEF Catalog!UseSnapshot, Catalog!Uses, Catalog!Readable
            <4> QED
                BY <2>1, <4>1, ParsedIsOffered
                DEF FilesAreLists, Catalog!PickerIsRetained
        <3>2. CASE Catalog!Fetched
            <4>1. PICK dir \in Directories :
                     /\ entries' = Catalog!Parsed(dir) /\ origin' = "answer"
                     /\ at' = "live"
                     /\ \/ snapshot' = [at |-> now, whole |-> TRUE, entries |-> dir]
                        \/ snapshot' = snapshot
                BY <3>2 DEF Catalog!Fetched, Catalog!Uses, Catalog!Replaced
            <4> QED
                BY <2>1, <4>1, ParsedIsOffered
                DEF FilesAreLists, Catalog!PickerIsRetained
        <3>3. CASE Catalog!Unreachable
            <4>1. UNCHANGED snapshot /\ at' = "live"
                BY <3>3 DEF Catalog!Unreachable, Catalog!Uses
            <4>2. CASE snapshot.whole
                <5>1. entries' = Catalog!Parsed(snapshot.entries) /\ origin' = "stale"
                    BY <3>3, <4>2
                    DEF Catalog!Unreachable, Catalog!Uses, Catalog!Readable
                <5> QED
                    BY <2>1, <4>1, <4>2, <5>1, ParsedIsOffered
                    DEF FilesAreLists, Catalog!PickerIsRetained
            <4>3. CASE ~snapshot.whole
                <5>1. entries' = Catalog!NoSlices /\ origin' = "none"
                    BY <3>3, <4>3
                    DEF Catalog!Unreachable, Catalog!Uses, Catalog!Readable
                <5> QED
                    BY <2>1, <4>1, <4>3, <5>1
                    DEF FilesAreLists, Catalog!PickerIsRetained, Catalog!NoSlices
            <4> QED BY <4>2, <4>3
        <3> QED BY <1>1, <3>1, <3>2, <3>3 DEF Catalog!LoadDirectory
    <2>3. SlicesCovered'
        BY <2>1 DEF SlicesCovered, Catalog!Dynamic
    <2>4. SlicesKept'
        <3>1. \A p \in DOMAIN entries' : SliceKeeps(p)'
            BY <2>1, <2>2 DEF SliceKeeps, KnowsOf, ListedOnce
        <3> QED BY <2>1, <2>2, <3>1 DEF SlicesKept
    <2> QED BY <2>2, <2>3, <2>4
<1>2. ASSUME NEW p \in Configured, Catalog!LoadList(p) PROVE CatalogInv'
    <2>1. /\ at = "live" /\ p \in waiting /\ waiting' = waiting \ {p}
          /\ UNCHANGED <<snapshot, now, at, refresh, entries, origin>>
        BY <1>2 DEF Catalog!LoadList
    <2>2. \E rows : /\ OfferedRows(rows) /\ resolved' = Catalog!Merged(p, rows)
                    /\ lists' = lists \/ lists' = Catalog!Written(p, rows, FALSE)
        <3>1. CASE Catalog!FromCache(p)
            <4>1. /\ resolved' = Catalog!Merged(p, lists[p].rows) /\ lists' = lists
                  /\ lists[p].whole
                BY <3>1 DEF Catalog!FromCache, Catalog!Cached
            <4> QED BY <4>1 DEF FilesAreLists
        <3>2. CASE Catalog!FetchModels(p)
            BY <3>2, LiveIsOffered DEF Catalog!FetchModels
        <3>3. CASE Catalog!NoModels(p)
            BY <3>3 DEF Catalog!NoModels, OfferedRows
        <3> QED BY <1>2, <3>1, <3>2, <3>3 DEF Catalog!LoadList
    <2>3. PICK rows : /\ OfferedRows(rows) /\ resolved' = Catalog!Merged(p, rows)
                      /\ lists' = lists \/ lists' = Catalog!Written(p, rows, FALSE)
        BY <2>2
    <2>4. SlicesCovered' /\ SlicesKept'
        BY <2>1, <2>3, MergedHolds
    <2>5. FilesAreLists'
        <3>1. CASE lists' = lists
            BY <2>1, <3>1 DEF FilesAreLists
        <3>2. CASE lists' = Catalog!Written(p, rows, FALSE)
            <4>1. lists' = [lists EXCEPT ![p] = [at |-> now, whole |-> TRUE, rows |-> rows]]
                BY <3>2 DEF Catalog!Written
            <4> QED BY <2>1, <2>3, <4>1 DEF FilesAreLists
        <3> QED BY <2>3, <3>1, <3>2
    <2>6. Catalog!PickerIsRetained'
        BY <2>1 DEF Catalog!PickerIsRetained
    <2> QED BY <2>1, <2>4, <2>5, <2>6
<1>3. CASE Catalog!Show
    BY <1>3
    DEF Catalog!Show, Catalog!files, Catalog!discovery, FilesAreLists,
        Catalog!PickerIsRetained, SlicesCovered, SlicesKept, SliceKeeps
<1>4. ASSUME NEW asks \in BOOLEAN, Catalog!Begin(asks) PROVE CatalogInv'
    BY <1>4
    DEF Catalog!Begin, Catalog!files, FilesAreLists, Catalog!PickerIsRetained
<1>5. ASSUME NEW p \in Names, NEW kind, Catalog!Connect(p, kind) PROVE CatalogInv'
    BY <1>5
    DEF Catalog!Connect, Catalog!files, FilesAreLists, Catalog!PickerIsRetained
<1>6. ASSUME NEW p \in Names, Catalog!Forget(p) PROVE CatalogInv'
    BY <1>6
    DEF Catalog!Forget, Catalog!files, Catalog!discovery, FilesAreLists,
        Catalog!PickerIsRetained, SlicesCovered, SlicesKept, SliceKeeps
<1>7. CASE Catalog!Crash
    <2>1. at' = "idle"
        BY <1>7 DEF Catalog!Crash
    <2>2. /\ snapshot' = snapshot
          /\ lists' = lists \/ \E p \in waiting : lists' = [lists EXCEPT ![p] = Catalog!NoFile]
        BY <1>7 DEF Catalog!Crash, Catalog!Replaced, Catalog!Written
    <2>3. FilesAreLists'
        BY <2>2 DEF FilesAreLists, Catalog!NoFile
    <2> QED BY <2>1, <2>3 DEF Catalog!PickerIsRetained
<1>8. CASE Catalog!Tick
    BY <1>8
    DEF Catalog!Tick, Catalog!files, Catalog!discovery, FilesAreLists,
        Catalog!PickerIsRetained, SlicesCovered, SlicesKept, SliceKeeps
<1> QED BY <1>1, <1>2, <1>3, <1>4, <1>5, <1>6, <1>7, <1>8 DEF Catalog!Next

(* A stored directory is replaced by one, never taken away.                *)
LEMMA SnapshotStep ==
    ASSUME Catalog!Next, snapshot.whole
    PROVE  snapshot'.whole
<1>1. CASE Catalog!LoadDirectory
    <2>1. CASE Catalog!Fetched
        <3>1. \E dir \in Directories :
                 snapshot' = [at |-> now, whole |-> TRUE, entries |-> dir] \/ snapshot' = snapshot
            BY <2>1 DEF Catalog!Fetched, Catalog!Replaced
        <3> QED BY <3>1
    <2>2. CASE Catalog!UseSnapshot \/ Catalog!Unreachable
        BY <2>2 DEF Catalog!UseSnapshot, Catalog!Unreachable
    <2> QED BY <1>1, <2>1, <2>2 DEF Catalog!LoadDirectory
<1>2. CASE Catalog!Crash
    BY <1>2 DEF Catalog!Crash, Catalog!Replaced
<1> QED
    BY <1>1, <1>2
    DEF Catalog!Next, Catalog!Show, Catalog!Tick, Catalog!Begin, Catalog!LoadList,
        Catalog!Forget, Catalog!Connect, Catalog!files

(* ModelCatalog: for any providers, directories, lists and times, and with *)
(* any failures and crashes, a failure removes no other provider's models, *)
(* what is known of a model is kept, a stored directory is used when no    *)
(* other can be had, and stays (discover_catalog, _slice_for,              *)
(* _retain_directory_efforts, load_models_dev).                            *)
THEOREM CatalogAlwaysWhole ==
    ASSUME ModelsListedOnce
    PROVE  Catalog!Spec => Catalog!CatalogIsWhole
<1>1. Catalog!Init => CatalogInv
    BY DEF Catalog!Init, CatalogInv, FilesAreLists, Catalog!PickerIsRetained,
       Catalog!NoFile
<1>2. CatalogInv /\ [Catalog!Next]_(Catalog!vars) => CatalogInv'
    <2>1. CatalogInv /\ UNCHANGED Catalog!vars => CatalogInv'
        BY DEF Catalog!vars, Catalog!files, Catalog!discovery, CatalogInv,
           FilesAreLists, Catalog!PickerIsRetained, SlicesCovered, SlicesKept,
           SliceKeeps
    <2> QED BY <2>1, CatalogStep
<1>3. CatalogInv => Catalog!FailuresStayApart /\ Catalog!RowsAreComplete /\ Catalog!PickerIsRetained
    <2>1. CatalogInv => Catalog!FailuresStayApart
        BY DEF CatalogInv, SlicesCovered, SlicesKept, SliceKeeps,
           Catalog!FailuresStayApart
    <2>2. CatalogInv => Catalog!RowsAreComplete
        BY DEF CatalogInv, SlicesKept, SliceKeeps, KnowsOf, OfferedRows,
           Catalog!RowsAreComplete
    <2> QED BY <2>1, <2>2 DEF CatalogInv
<1>4. [Catalog!Next]_(Catalog!vars) => [snapshot.whole => snapshot'.whole]_(Catalog!vars)
    BY SnapshotStep
<1> QED
    BY <1>1, <1>2, <1>3, <1>4, PTL
    DEF Catalog!Spec, Catalog!CatalogIsWhole, Catalog!SnapshotStays

-----------------------------------------------------------------------------
(* The instructions of a project.                                          *)
Texts == Seq(Nat \ {0})

(* The sum of a sequence of numbers is that of a function.                 *)
Sums(f, s, n) == f[0] = 0 /\ \A i \in 1..n : f[i] = f[i - 1] + s[i]
SumBy(f, s) == f = [n \in 0..Len(s) |-> IF n = 0 THEN 0 ELSE f[n - 1] + s[n]]

LEMMA BytesIs ==
    ASSUME NEW s
    PROVE  Prompt!Bytes(s) = (CHOOSE f : SumBy(f, s))[Len(s)]
BY Zenon DEF Prompt!Bytes, SumBy

Iterated(f, a, n, F) == f[0] = a /\ \A i \in 1..n : f[i] = F[i][f[i - 1]]

LEMMA IteratesTo ==
    ASSUME NEW T, NEW a \in T, NEW n \in Nat, NEW F \in [1..n -> [T -> T]]
    PROVE  \E f \in [0..n -> T] : Iterated(f, a, n, F)
BY Iterates DEF Iterated

LEMMA SumFound ==
    ASSUME NEW s \in Seq(Nat)
    PROVE  \E f \in [0..Len(s) -> Nat] : Sums(f, s, Len(s)) /\ Prompt!Bytes(s) = f[Len(s)]
<1>1. PICK n \in Nat : n = Len(s) /\ \A i \in 1..n : s[i] \in Nat
    BY LenProperties
<1> DEFINE F == [i \in 1..n |-> [t \in Nat |-> t + s[i]]]
<1>2. F \in [1..n -> [Nat -> Nat]] /\ \A i \in 1..n : \A t \in Nat : F[i][t] = t + s[i]
    BY <1>1
<1> HIDE DEF F
<1>3. PICK f \in [0..n -> Nat] : f[0] = 0 /\ \A i \in 1..n : f[i] = F[i][f[i - 1]]
    <2> DEFINE S == Nat
    <2>1. PICK z \in S : z = 0
        OBVIOUS
    <2>2. PICK G \in [1..n -> [S -> S]] : G = F
        BY <1>2, Zenon
    <2> HIDE DEF S
    <2>4. \E f \in [0..n -> S] : Iterated(f, z, n, G)
        BY IteratesTo
    <2> QED BY <2>1, <2>2, <2>4, Zenon DEF S, Iterated
<1>4. ASSUME NEW i \in 1..n PROVE f[i] = f[i - 1] + s[i]
    <2>1. i - 1 \in 0..n
        OBVIOUS
    <2>2. f[i - 1] \in Nat
        BY <2>1
    <2> QED BY <1>2, <1>3, <2>2
<1>5. ASSUME NEW i \in 0..n PROVE f[i] = IF i = 0 THEN 0 ELSE f[i - 1] + s[i]
    <2>1. i # 0 => i \in 1..n
        OBVIOUS
    <2> QED BY <1>3, <1>4, <2>1
<1>6. f = [i \in 0..n |-> IF i = 0 THEN 0 ELSE f[i - 1] + s[i]]
    <2>1. f = [i \in 0..n |-> f[i]]
        OBVIOUS
    <2> QED BY <1>5, <2>1
<1>7. SumBy(f, s)
    BY <1>1, <1>6 DEF SumBy
<1>8. PICK g : g = CHOOSE h : SumBy(h, s)
    OBVIOUS
<1>9. SumBy(g, s)
    BY <1>7, <1>8, Zenon
<1>10. g[0] = 0 /\ \A i \in 1..n : g[i] = g[i - 1] + s[i]
    <2>1. 0 \in 0..n /\ \A i \in 1..n : i \in 0..n /\ i # 0
        OBVIOUS
    <2>2. g = [i \in 0..n |-> IF i = 0 THEN 0 ELSE g[i - 1] + s[i]]
        BY <1>1, <1>9 DEF SumBy
    <2> QED BY <2>1, <2>2
<1> DEFINE S == {m \in Nat : m <= n => g[m] = f[m]}
<1>11. 0 \in S
    BY <1>3, <1>10
<1>12. ASSUME NEW m \in Nat, m \in S PROVE m + 1 \in S
    <2> SUFFICES ASSUME m + 1 <= n PROVE g[m + 1] = f[m + 1]
        OBVIOUS
    <2>1. m + 1 \in 1..n /\ m <= n /\ (m + 1) - 1 = m
        OBVIOUS
    <2> QED BY <1>4, <1>10, <1>12, <2>1
<1>13. g[n] = f[n]
    <2> HIDE DEF S
    <2>1. n \in S
        BY <1>11, <1>12, InductionOverASet
    <2> QED BY <2>1 DEF S
<1>14. Prompt!Bytes(s) = f[n]
    BY <1>1, <1>8, <1>13, BytesIs
<1> QED BY <1>1, <1>3, <1>4, <1>14 DEF Sums

LEMMA SumsAgree ==
    ASSUME NEW n \in Nat, NEW f, NEW g, NEW s, NEW t, Sums(f, s, n), Sums(g, t, n),
           \A i \in 1..n : s[i] = t[i]
    PROVE  f[n] = g[n]
<1> DEFINE S == {m \in Nat : m <= n => f[m] = g[m]}
<1>1. 0 \in S
    BY DEF Sums
<1>2. ASSUME NEW m \in Nat, m \in S PROVE m + 1 \in S
    <2> SUFFICES ASSUME m + 1 <= n PROVE f[m + 1] = g[m + 1]
        OBVIOUS
    <2>1. m + 1 \in 1..n /\ m <= n /\ (m + 1) - 1 = m
        OBVIOUS
    <2> QED BY <1>2, <2>1 DEF Sums
<1> HIDE DEF S
<1>3. n \in S
    BY <1>1, <1>2, InductionOverASet
<1> QED BY <1>3 DEF S

LEMMA BytesTyped ==
    ASSUME NEW s \in Seq(Nat)
    PROVE  Prompt!Bytes(s) \in Nat
<1>1. PICK f \in [0..Len(s) -> Nat] : Prompt!Bytes(s) = f[Len(s)]
    BY SumFound
<1>2. Len(s) \in 0..Len(s)
    BY LenProperties
<1> QED BY <1>1, <1>2

LEMMA BytesEmpty == Prompt!Bytes(<<>>) = 0
<1>1. PICK s \in Seq(Nat) : s = <<>> /\ Len(s) = 0
    BY EmptySeq
<1>2. Prompt!Bytes(s) = 0
    BY <1>1, SumFound DEF Sums
<1> QED BY <1>1, <1>2

Longer(t, s, e, n) ==
    /\ t = Append(s, e) /\ t # <<>> /\ Len(t) = n + 1
    /\ t[n + 1] = e /\ \A i \in 1..n : t[i] = s[i]

LEMMA OneMore ==
    ASSUME NEW S, NEW s \in Seq(S), NEW e \in S
    PROVE  \E t \in Seq(S) : Longer(t, s, e, Len(s))
<1>1. /\ Append(s, e) \in Seq(S) /\ Append(s, e) # <<>>
      /\ Len(Append(s, e)) = Len(s) + 1
      /\ Append(s, e)[Len(s) + 1] = e /\ \A i \in 1..Len(s) : Append(s, e)[i] = s[i]
    BY AppendProperties, LenProperties
<1> QED BY <1>1 DEF Longer

LEMMA BytesLonger ==
    ASSUME NEW s \in Seq(Nat), NEW k \in Nat
    PROVE  Prompt!Bytes(Append(s, k)) = Prompt!Bytes(s) + k
<1>1. PICK n \in Nat : n = Len(s)
    BY LenProperties
<1>2. PICK t \in Seq(Nat) : Longer(t, s, k, n)
    BY <1>1, OneMore
<1>7. t = Append(s, k) /\ Len(t) = n + 1 /\ t[n + 1] = k /\ \A i \in 1..n : t[i] = s[i]
    BY <1>2 DEF Longer
<1>3. PICK f : Sums(f, s, n) /\ Prompt!Bytes(s) = f[n]
    BY <1>1, SumFound
<1>4. PICK g : Sums(g, t, n + 1) /\ Prompt!Bytes(t) = g[n + 1]
    BY <1>7, SumFound
<1>5. Sums(g, t, n) /\ g[n + 1] = g[n] + k
    <2>1. n + 1 \in 1..(n + 1) /\ (n + 1) - 1 = n /\ 1..n \subseteq 1..(n + 1)
        OBVIOUS
    <2> QED BY <1>7, <1>4, <2>1 DEF Sums
<1>6. f[n] = g[n]
    BY <1>7, <1>3, <1>5, SumsAgree
<1> QED BY <1>7, <1>3, <1>4, <1>5, <1>6

LEMMA TextsAreNumbers == Texts \subseteq Seq(Nat)
BY DEF Texts

LEMMA BytesPositive ==
    ASSUME NEW s \in Texts, s # <<>>
    PROVE  Prompt!Bytes(s) > 0
<1>1. PICK t \in Texts, k \in Nat \ {0} : s = Append(t, k)
    BY SequenceEmptyOrAppend DEF Texts
<1>2. t \in Seq(Nat)
    BY TextsAreNumbers
<1>3. Prompt!Bytes(t) \in Nat /\ Prompt!Bytes(s) = Prompt!Bytes(t) + k
    BY <1>1, <1>2, BytesTyped, BytesLonger
<1> QED BY <1>3

(* What a list of texts becomes when it is joined, and one text more.      *)
Between(texts) == IF texts = <<>> THEN 0 ELSE 2

LEMMA SizesAre ==
    ASSUME NEW texts \in Seq(Texts)
    PROVE  /\ Prompt!Sizes(texts) \in Seq(Nat) /\ Len(Prompt!Sizes(texts)) = Len(texts)
           /\ \A i \in 1..Len(texts) : Prompt!Sizes(texts)[i] = Prompt!Bytes(texts[i])
<1>1. PICK n \in Nat : n = Len(texts) /\ \A i \in 1..n : texts[i] \in Texts
    BY LenProperties
<1>2. \A i \in 1..n : Prompt!Bytes(texts[i]) \in Nat
    BY <1>1, TextsAreNumbers, BytesTyped
<1>3. Prompt!Sizes(texts) = [i \in 1..n |-> Prompt!Bytes(texts[i])]
    BY <1>1 DEF Prompt!Sizes
<1> QED BY <1>1, <1>2, <1>3

LEMMA JoinedIs ==
    ASSUME NEW texts \in Seq(Texts), NEW words \in Texts
    PROVE  /\ Prompt!Joined(texts) \in Nat /\ Prompt!Bytes(words) \in Nat
           /\ Prompt!Joined(Append(texts, words)) = Prompt!Joined(texts) + Between(texts) + Prompt!Bytes(words)
<1>1. PICK n \in Nat : n = Len(texts) /\ (texts = <<>> <=> n = 0)
    BY LenProperties, EmptySeq
<1>11. PICK more \in Seq(Texts) : Longer(more, texts, words, n)
    BY <1>1, OneMore
<1>2. /\ more = Append(texts, words) /\ more # <<>> /\ Len(more) = n + 1
      /\ more[n + 1] = words /\ \A i \in 1..n : more[i] = texts[i]
    BY <1>11 DEF Longer
<1>3. PICK k \in Nat : k = Prompt!Bytes(words)
    BY TextsAreNumbers, BytesTyped
<1>4. PICK s \in Seq(Nat) : s = Prompt!Sizes(texts) /\ Len(s) = n /\ \A i \in 1..n : s[i] = Prompt!Bytes(texts[i])
    BY <1>1, SizesAre
<1>5. PICK t \in Seq(Nat) : t = Prompt!Sizes(more) /\ Len(t) = n + 1
                             /\ \A i \in 1..(n + 1) : t[i] = Prompt!Bytes(more[i])
    BY <1>2, SizesAre
<1>6. t = Append(s, k)
    <2>3. PICK u \in Seq(Nat) : Longer(u, s, k, n)
        BY <1>4, OneMore
    <2>1. /\ u = Append(s, k) /\ Len(u) = n + 1 /\ u[n + 1] = k
          /\ \A i \in 1..n : u[i] = s[i]
        BY <2>3 DEF Longer
    <2>2. ASSUME NEW i \in 1..(n + 1) PROVE t[i] = u[i]
        <3>1. i \in 1..n \/ i = n + 1
            OBVIOUS
        <3>2. CASE i = n + 1
            BY <1>2, <1>3, <1>5, <2>1, <3>2
        <3>3. CASE i \in 1..n
            BY <1>2, <1>4, <1>5, <2>1, <3>3
        <3> QED BY <3>1, <3>2, <3>3
    <2> QED BY <1>5, <2>1, <2>2, SeqEqual
<1>7. Prompt!Bytes(s) \in Nat /\ Prompt!Bytes(t) = Prompt!Bytes(s) + k
    BY <1>6, BytesTyped, BytesLonger
<1>8. Prompt!Joined(texts) = Prompt!Bytes(s) + 2 * (IF n = 0 THEN 0 ELSE n - 1)
    BY <1>1, <1>4 DEF Prompt!Joined, Prompt!Separator
<1>9. Prompt!Joined(more) = Prompt!Bytes(t) + 2 * n
    BY <1>2, <1>5 DEF Prompt!Joined, Prompt!Separator
<1>10. Between(texts) = IF n = 0 THEN 0 ELSE 2
    BY <1>1 DEF Between
<1> QED BY <1>2, <1>3, <1>7, <1>8, <1>9, <1>10

LEMMA JoinedEmpty == Prompt!Joined(<<>>) = 0
<1>1. <<>> \in Seq(Texts) /\ Len(<<>>) = 0
    OBVIOUS
<1>2. PICK s \in Seq(Nat) : s = Prompt!Sizes(<<>>) /\ Len(s) = 0
    BY <1>1, SizesAre
<1>3. s = <<>>
    BY <1>2, EmptySeq
<1> QED BY <1>2, <1>3, BytesEmpty DEF Prompt!Joined, Prompt!Separator

(* All of a sequence is the sequence; a set of numbers has a greatest.     *)
LEMMA TakingAll ==
    ASSUME NEW S, NEW s \in Seq(S)
    PROVE  SubSeq(s, 1, Len(s)) = s
<1>1. PICK n \in Nat : n = Len(s) /\ \A i \in 1..n : s[i] \in S
    BY LenProperties
<1>2. PICK u \in Seq(S) : u = SubSeq(s, 1, n) /\ Len(u) = n /\ \A i \in 1..n : u[i] = s[i]
    BY <1>1, SubSeqProperties
<1> QED BY <1>1, <1>2, SeqEqual

LEMMA AllOfAText ==
    ASSUME NEW words \in Texts
    PROVE  SubSeq(words, 1, Len(words)) = words /\ Len(words) \in 0..Len(words)
<1> DEFINE S == Nat \ {0}
<1>1. PICK s \in Seq(S) : s = words
    BY DEF Texts
<1> HIDE DEF S
<1>2. SubSeq(s, 1, Len(s)) = s /\ Len(s) \in Nat
    BY TakingAll, LenProperties
<1> QED BY <1>1, <1>2

LEMMA HasGreatest ==
    ASSUME NEW n \in Nat, NEW S, S \subseteq 0..n, S # {}
    PROVE  \E top \in S : \A other \in S : other <= top
<1> DEFINE Above == {n - d : d \in S}
<1>1. Above \subseteq Nat /\ Above # {}
    <2>1. \A d \in S : n - d \in Nat
        OBVIOUS
    <2> QED BY <2>1
<1> HIDE DEF Above
<1>2. PICK a \in Above : \A b \in Above : a <= b
    BY <1>1, HasLeast
<1>3. PICK d \in S : a = n - d
    BY DEF Above
<1>4. ASSUME NEW other \in S PROVE other <= d
    <2>1. n - other \in Above
        BY DEF Above
    <2>2. a <= n - other /\ other \in Nat /\ d \in Nat
        BY <1>2, <2>1
    <2> QED BY <1>3, <2>2
<1> QED BY <1>4

(* What is cut of a text fits, and is the text if the text does.           *)
LEMMA CutIs ==
    ASSUME NEW words \in Texts, NEW room \in Nat
    PROVE  /\ Prompt!Cut(words, room) \in Texts
           /\ \E n \in 0..Len(words) : Prompt!Cut(words, room) = SubSeq(words, 1, n)
           /\ Prompt!Bytes(Prompt!Cut(words, room)) <= room
           /\ Prompt!Cut(words, room) # words => Prompt!Bytes(words) > room
<1>1. PICK l \in Nat : l = Len(words) /\ \A i \in 1..l : words[i] \in Nat \ {0}
    BY LenProperties DEF Texts
<1> DEFINE Lengths == {n \in 0..l : Prompt!Bytes(SubSeq(words, 1, n)) <= room}
<1>2. 0 \in Lengths
    <2>1. SubSeq(words, 1, 0) = <<>>
        <3>1. SubSeq(words, 1, 0) \in Seq(Nat \ {0}) /\ Len(SubSeq(words, 1, 0)) = 0
            BY SubSeqProperties DEF Texts
        <3> QED BY <3>1, EmptySeq
    <2>2. Prompt!Bytes(SubSeq(words, 1, 0)) = 0
        BY <2>1, BytesEmpty, Zenon
    <2> QED BY <2>2
<1>3. \E n \in Lengths : \A m \in Lengths : m <= n
    <2> DEFINE Above == {l - n : n \in Lengths}
    <2>1. Above \subseteq Nat /\ Above # {}
        BY <1>2
    <2> HIDE DEF Above
    <2>2. PICK a \in Above : \A b \in Above : a <= b
        BY <2>1, HasLeast
    <2>3. PICK n \in Lengths : a = l - n
        BY DEF Above
    <2>4. ASSUME NEW m \in Lengths PROVE m <= n
        <3>1. l - m \in Above
            BY DEF Above
        <3>2. a <= l - m /\ m \in Nat /\ n \in Nat
            BY <2>2, <3>1
        <3> QED BY <2>3, <3>2
    <2> QED BY <2>4
<1>4. PICK n : n = CHOOSE k \in Lengths : \A m \in Lengths : m <= k
    OBVIOUS
<1>5. n \in Lengths /\ \A m \in Lengths : m <= n
    <2> HIDE DEF Lengths
    <2> QED BY <1>3, <1>4, Zenon
<1>6. Prompt!Cut(words, room) = SubSeq(words, 1, n)
    BY <1>1, <1>4 DEF Prompt!Cut
<1>7. n \in 0..l /\ Prompt!Bytes(SubSeq(words, 1, n)) <= room
    BY <1>5
<1>8. SubSeq(words, 1, n) \in Texts
    <2>1. n \in Int /\ \A i \in 1..n : words[i] \in Nat \ {0}
        BY <1>1, <1>7
    <2> QED BY <2>1, SubSeqProperties DEF Texts
<1>9. ASSUME Prompt!Bytes(words) <= room PROVE SubSeq(words, 1, n) = words
    <2>1. SubSeq(words, 1, l) = words
        <3>1. PICK u \in Seq(Nat \ {0}) : u = SubSeq(words, 1, l) /\ Len(u) = l /\ \A i \in 1..l : u[i] = words[i]
            BY <1>1, SubSeqProperties DEF Texts
        <3> QED BY <1>1, <3>1, SeqEqual DEF Texts
    <2>4. Prompt!Bytes(SubSeq(words, 1, l)) <= room
        BY <1>9, <2>1, Zenon
    <2>2. l \in Lengths
        BY <2>4
    <2>3. n = l
        BY <1>5, <1>7, <2>2
    <2> QED BY <2>1, <2>3
<1>10. Prompt!Bytes(words) \in Nat
    BY TextsAreNumbers, BytesTyped
<1> HIDE DEF Lengths
<1> QED BY <1>1, <1>6, <1>7, <1>8, <1>9, <1>10

(* What is loaded so far is what was selected, in the order of directories *)
(* that were looked into, and nothing there was passed over.               *)
Looking == 1..Len(chain)
Readable(d) == chain[d].files[1].kind \notin Prompt!Unusable
Loaded(n) == Len(sections) = n /\ \A i \in 1..n : sections[i] = selected[i].text
LoadedPart(n) ==
    /\ Len(sections) = n
    /\ \A i \in 1..(n - 1) : sections[i] = selected[i].text
    /\ \E k \in 0..Len(selected[n].text) : sections[n] = SubSeq(selected[n].text, 1, k)
Upto(n) == [j \in 1..n |-> selected[j].text]
TooLong(n) == Prompt!Joined(Upto(n)) > PromptBytes

PromptTypes ==
    /\ chain \in Chains /\ root \in Nat /\ directory \in Nat
    /\ loading \in {"root", "discover", "load", "done", "failed"}
    /\ selected \in Seq([dir : Nat, text : Texts \ {<<>>}])
    /\ sections \in Seq(Texts)

PromptInv ==
    /\ PromptTypes
    /\ loading = "root" => selected = <<>>
    /\ loading \in {"root", "discover", "failed"} => sections = <<>>
    /\ loading \in {"discover", "load", "done"} => root \in Looking
    /\ \A i, j \in 1..Len(selected) : i < j => selected[i].dir < selected[j].dir
    /\ loading = "discover" =>
          /\ directory \in root..(Len(chain) + 1)
          /\ \A i \in 1..Len(selected) : selected[i].dir < directory
          /\ \A d \in root..(directory - 1) : Readable(d)
    /\ loading \in {"load", "done"} => \A d \in root..Len(chain) : Readable(d)
    /\ loading = "load" => directory \in 1..(Len(selected) + 1) /\ Loaded(directory - 1)
    /\ loading = "done" =>
          \/ Loaded(Len(selected))
          \/ \E n \in 1..Len(selected) : TooLong(n) /\ (Loaded(n - 1) \/ LoadedPart(n))
    /\ Prompt!Joined(sections) <= PromptBytes

LEMMA ChainIs ==
    ASSUME NEW c \in Chains
    PROVE  /\ Len(c) \in Nat \ {0} /\ DOMAIN c = 1..Len(c)
           /\ \A d \in 1..Len(c) :
                 /\ c[d].git \in BOOLEAN
                 /\ \A i \in 1..2 : c[d].files[i].kind \in Kinds /\ c[d].files[i].text \in Texts
<1> DEFINE F == Seq([kind : Kinds, text : Seq(Nat \ {0})])
           D == [git : BOOLEAN, files : F]
<1>1. c \in Seq(D) /\ c # <<>>
    BY ServicesAssumption
<1>2. \A d \in DOMAIN c : Len(c[d].files) = 2
    BY ServicesAssumption
<1> HIDE DEF D
<1>3. Len(c) \in Nat \ {0} /\ DOMAIN c = 1..Len(c) /\ \A d \in 1..Len(c) : c[d] \in D
    BY <1>1, EmptySeq, LenProperties
<1>4. ASSUME NEW d \in 1..Len(c)
      PROVE  /\ c[d].git \in BOOLEAN
             /\ \A i \in 1..2 : c[d].files[i].kind \in Kinds /\ c[d].files[i].text \in Texts
    <2>1. c[d] \in D /\ Len(c[d].files) = 2
        BY <1>2, <1>3
    <2>2. c[d].git \in BOOLEAN /\ c[d].files \in F
        BY <2>1 DEF D
    <2> DEFINE E == [kind : Kinds, text : Seq(Nat \ {0})]
    <2>3. PICK f \in Seq(E) : f = c[d].files /\ Len(f) = 2
        BY <2>1, <2>2
    <2> HIDE DEF E
    <2>4. f[1] \in E /\ f[2] \in E
        BY <2>3, ElementOfSeq
    <2>5. \A i \in 1..2 : i = 1 \/ i = 2
        OBVIOUS
    <2>6. ASSUME NEW i \in 1..2 PROVE f[i].kind \in Kinds /\ f[i].text \in Texts
        <3>1. f[i] \in E
            BY <2>4, <2>5
        <3> QED BY <3>1 DEF E, Texts
    <2> QED BY <2>2, <2>3, <2>6
<1> QED BY <1>3, <1>4

LEMMA SelectedIs ==
    ASSUME NEW s \in Seq([dir : Nat, text : Texts \ {<<>>}])
    PROVE  /\ Len(s) \in Nat /\ DOMAIN s = 1..Len(s)
           /\ \A i \in 1..Len(s) : s[i].dir \in Nat /\ s[i].text \in Texts \ {<<>>}
<1> DEFINE E == [dir : Nat, text : Texts \ {<<>>}]
<1>1. PICK r \in Seq(E) : r = s
    OBVIOUS
<1> HIDE DEF E
<1>2. PICK n \in Nat : n = Len(r) /\ DOMAIN r = 1..n /\ \A i \in 1..n : r[i] \in E
    BY LenProperties
<1>3. ASSUME NEW i \in 1..n PROVE r[i].dir \in Nat /\ r[i].text \in Texts \ {<<>>}
    <2>1. r[i] \in E
        BY <1>2
    <2> QED BY <2>1 DEF E
<1> QED BY <1>1, <1>2, <1>3

LEMMA PromptStarts == Prompt!Init => PromptInv
<1> SUFFICES ASSUME Prompt!Init PROVE PromptInv
    OBVIOUS
<1>1. /\ chain \in Chains /\ root = 0 /\ loading = "root" /\ directory = 0
      /\ selected = <<>> /\ sections = <<>>
    BY DEF Prompt!Init
<1>2. /\ Len(selected) = 0 /\ selected \in Seq([dir : Nat, text : Texts \ {<<>>}])
      /\ sections \in Seq(Texts)
    BY <1>1
<1>3. Prompt!Joined(sections) <= PromptBytes
    <2>1. Prompt!Joined(sections) = 0
        BY <1>1, JoinedEmpty
    <2> QED BY <2>1, ServicesAssumption
<1>4. PromptTypes
    BY <1>1, <1>2 DEF PromptTypes
<1> QED BY <1>1, <1>2, <1>3, <1>4 DEF PromptInv

LEMMA RootStep ==
    ASSUME PromptInv, Prompt!FindRoot
    PROVE  PromptInv'
<1>1. /\ loading = "root" /\ loading' = "discover" /\ directory' = root'
      /\ chain' = chain /\ selected' = selected /\ sections' = sections
    BY DEF Prompt!FindRoot
<1>2. /\ chain \in Chains /\ selected = <<>> /\ sections = <<>>
      /\ sections \in Seq(Texts) /\ Prompt!Joined(sections) <= PromptBytes
      /\ selected \in Seq([dir : Nat, text : Texts \ {<<>>}])
    BY <1>1 DEF PromptInv, PromptTypes
<1>3. Len(chain) \in Nat \ {0} /\ DOMAIN chain = 1..Len(chain)
    BY <1>2, ChainIs
<1>4. root' \in 1..Len(chain)
    <2> DEFINE Roots == {d \in DOMAIN chain : chain[d].git}
    <2>1. root' = IF Roots = {} THEN Len(chain)
                  ELSE CHOOSE d \in Roots : \A other \in Roots : other <= d
        BY DEF Prompt!FindRoot
    <2>2. CASE Roots = {}
        BY <1>3, <2>1, <2>2
    <2>3. CASE Roots # {}
        <3>1. Roots \subseteq 1..Len(chain)
            BY <1>3
        <3> HIDE DEF Roots
        <3>2. \E top \in Roots : \A other \in Roots : other <= top
            <4>1. PICK n \in Nat : n = Len(chain)
                BY <1>3
            <4>2. Roots \subseteq 0..n
                BY <3>1, <4>1
            <4> QED BY <2>3, <4>2, HasGreatest
        <3>3. (CHOOSE d \in Roots : \A other \in Roots : other <= d) \in Roots
            BY <3>2, Zenon
        <3> QED BY <2>1, <2>3, <3>1, <3>3, Zenon
    <2> QED BY <2>2, <2>3
<1>5. Len(selected) = 0
    BY <1>2, EmptySeq
<1>6. PromptTypes'
    BY <1>1, <1>2, <1>3, <1>4 DEF PromptTypes
<1>7. root' \in root'..(Len(chain) + 1) /\ \A d \in root'..(root' - 1) : FALSE
    <2>1. PICK l \in Nat : l = Len(chain)
        BY <1>3
    <2>2. PICK r \in 1..l : r = root'
        BY <1>4, <2>1
    <2>3. r \in Int /\ r <= l
        OBVIOUS
    <2>4. r \in r..(l + 1) /\ \A d \in r..(r - 1) : FALSE
        BY <2>3
    <2> QED BY <2>1, <2>2, <2>4
<1>8. \A i \in 1..Len(selected) : FALSE
    BY <1>5
<1>9. \A d \in root'..(root' - 1) : Readable(d)'
    BY <1>7
<1> QED BY <1>1, <1>2, <1>4, <1>6, <1>7, <1>8, <1>9 DEF PromptInv, Looking

(* A directory that is looked into has one file that is used, or none.     *)
LEMMA LookedIs ==
    ASSUME NEW d \in 1..Len(chain), chain \in Chains, NEW pair, pair = chain[d].files,
           NEW usable, usable = {i \in Prompt!Looked(pair) : ~Prompt!Blank(pair[i])},
           ~\E i \in Prompt!Looked(pair) : pair[i].kind \in Prompt!Unusable
    PROVE  /\ Readable(d) /\ usable \subseteq 1..2
           /\ \A i \in usable : pair[i].text \in Texts \ {<<>>}
<1>1. \A i \in 1..2 : pair[i].kind \in Kinds /\ pair[i].text \in Texts
    BY ChainIs
<1>2. Prompt!Looked(pair) \subseteq 1..2 /\ 1 \in Prompt!Looked(pair)
    BY DEF Prompt!Looked
<1>3. Readable(d)
    BY <1>2 DEF Readable
<1>4. ASSUME NEW i \in usable PROVE pair[i].text \in Texts \ {<<>>}
    <2>1. i \in Prompt!Looked(pair) /\ ~Prompt!Blank(pair[i])
        OBVIOUS
    <2>2. /\ pair[i].kind \in Kinds /\ pair[i].kind \notin Prompt!Unusable
          /\ pair[i].text \in Texts
        BY <1>1, <1>2, <2>1
    <2> QED BY <2>1, <2>2 DEF Prompt!Blank, Prompt!Unusable, Kinds
<1> QED BY <1>2, <1>3, <1>4

LEMMA DiscoverStep ==
    ASSUME PromptInv, Prompt!Discover
    PROVE  PromptInv'
<1>1. /\ loading = "discover" /\ directory <= Len(chain)
      /\ chain' = chain /\ root' = root /\ sections' = sections
    BY DEF Prompt!Discover
<1>2. /\ PromptTypes /\ sections = <<>> /\ Prompt!Joined(sections) <= PromptBytes
      /\ root \in 1..Len(chain) /\ directory \in root..(Len(chain) + 1)
      /\ \A i, j \in 1..Len(selected) : i < j => selected[i].dir < selected[j].dir
      /\ \A i \in 1..Len(selected) : selected[i].dir < directory
      /\ \A d \in root..(directory - 1) : Readable(d)
    BY <1>1 DEF PromptInv, Looking
<1>3. chain \in Chains /\ root \in Nat /\ directory \in Nat /\ sections \in Seq(Texts)
      /\ selected \in Seq([dir : Nat, text : Texts \ {<<>>}])
    BY <1>2 DEF PromptTypes
<1>4. Len(chain) \in Nat \ {0}
    BY <1>3, ChainIs
<1>5. directory \in 1..Len(chain)
    BY <1>1, <1>2, <1>3, <1>4
<1> DEFINE pair == chain[directory].files
           usable == {i \in Prompt!Looked(pair) : ~Prompt!Blank(pair[i])}
           Spoilt == \E i \in Prompt!Looked(pair) : pair[i].kind \in Prompt!Unusable
<1>6. CASE Spoilt
    <2>1. loading' = "failed" /\ directory' = directory /\ selected' = selected
        BY <1>6 DEF Prompt!Discover
    <2>2. PromptTypes'
        BY <1>1, <1>3, <2>1 DEF PromptTypes
    <2> QED BY <1>1, <1>2, <2>1, <2>2 DEF PromptInv
<1>7. CASE ~Spoilt
    <2>1. /\ loading' = "discover" /\ directory' = directory + 1
          /\ selected' = IF usable = {} THEN selected
                         ELSE LET i == CHOOSE i \in usable : TRUE
                              IN  Append(selected, [dir |-> directory, text |-> pair[i].text])
        BY <1>1, <1>7 DEF Prompt!Discover
    <2>2. Readable(directory) /\ \A i \in usable : pair[i].text \in Texts \ {<<>>}
        BY <1>3, <1>5, <1>7, LookedIs
    <2> HIDE DEF usable
    <2>3. \/ selected' = selected
          \/ \E e \in [dir : Nat, text : Texts \ {<<>>}] : e.dir = directory /\ selected' = Append(selected, e)
        <3>1. CASE usable = {}
            BY <2>1, <3>1
        <3>2. CASE usable # {}
            <4>1. PICK i \in usable : i = CHOOSE k \in usable : TRUE
                BY <3>2
            <4>2. selected' = Append(selected, [dir |-> directory, text |-> pair[i].text])
                BY <2>1, <3>2, <4>1, Zenon
            <4>3. PICK words \in Texts \ {<<>>} : words = pair[i].text
                BY <2>2
            <4> DEFINE e == [dir |-> directory, text |-> words]
            <4>4. e \in [dir : Nat, text : Texts \ {<<>>}] /\ e.dir = directory
                BY <1>3
            <4>5. selected' = Append(selected, e)
                BY <4>2, <4>3, Zenon
            <4> HIDE DEF e
            <4> QED BY <4>4, <4>5
        <3> QED BY <3>1, <3>2
    <2>4. /\ selected' \in Seq([dir : Nat, text : Texts \ {<<>>}])
          /\ \A i, j \in 1..Len(selected') : i < j => selected'[i].dir < selected'[j].dir
          /\ \A i \in 1..Len(selected') : selected'[i].dir < directory + 1
        <3>1. PICK n \in Nat : n = Len(selected)
            BY <1>3, LenProperties
        <3>4. \A i \in 1..n : selected[i].dir \in Nat
            BY <1>3, <3>1, SelectedIs
        <3>2. CASE selected' = selected
            <4>1. \A i \in 1..n : selected[i].dir < directory + 1
                BY <1>2, <1>3, <3>1, <3>4
            <4> QED BY <1>2, <1>3, <3>1, <3>2, <4>1
        <3>3. ASSUME NEW e \in [dir : Nat, text : Texts \ {<<>>}], e.dir = directory, selected' = Append(selected, e)
              PROVE  /\ selected' \in Seq([dir : Nat, text : Texts \ {<<>>}])
                     /\ \A i, j \in 1..Len(selected') : i < j => selected'[i].dir < selected'[j].dir
                     /\ \A i \in 1..Len(selected') : selected'[i].dir < directory + 1
            <4> DEFINE E == [dir : Nat, text : Texts \ {<<>>}]
            <4> HIDE DEF E
            <4>0. selected \in Seq(E) /\ e \in E
                BY <1>3 DEF E
            <4>1. PICK t \in Seq(E) : Longer(t, selected, e, n)
                BY <3>1, <4>0, OneMore
            <4>2. /\ t = selected' /\ Len(t) = n + 1 /\ t[n + 1] = e
                  /\ \A i \in 1..n : t[i] = selected[i]
                BY <3>3, <4>1 DEF Longer
            <4>3. \A i \in 1..n : t[i].dir < directory /\ t[i].dir \in Nat
                BY <1>2, <3>1, <3>4, <4>2
            <4>4. \A i \in 1..(n + 1) : i \in 1..n \/ i = n + 1
                OBVIOUS
            <4>5. \A i \in 1..(n + 1) : t[i].dir < directory + 1
                BY <1>3, <3>3, <4>2, <4>3, <4>4
            <4>6. ASSUME NEW i \in 1..(n + 1), NEW j \in 1..(n + 1), i < j PROVE t[i].dir < t[j].dir
                <5>1. i \in 1..n
                    BY <4>6
                <5>2. CASE j \in 1..n
                    BY <1>2, <3>1, <4>2, <4>6, <5>1, <5>2
                <5>3. CASE j = n + 1
                    BY <3>3, <4>2, <4>3, <5>1, <5>3
                <5> QED BY <4>4, <5>2, <5>3
            <4> QED BY <4>2, <4>5, <4>6 DEF E
        <3> QED BY <2>3, <3>2, <3>3
    <2>5. PromptTypes'
        BY <1>1, <1>3, <2>1, <2>4 DEF PromptTypes
    <2>6. \A d \in root..((directory + 1) - 1) : Readable(d)
        <3>1. ASSUME NEW d \in root..((directory + 1) - 1) PROVE d \in root..(directory - 1) \/ d = directory
            BY <1>2, <1>3
        <3> QED BY <1>2, <2>2, <3>1
    <2>7. directory + 1 \in root..(Len(chain) + 1)
        BY <1>2, <1>3, <1>4, <1>5
    <2>8. \A d \in root..((directory + 1) - 1) : Readable(d)'
        BY <1>1, <2>6 DEF Readable
    <2> QED BY <1>1, <1>2, <2>1, <2>4, <2>5, <2>7, <2>8 DEF PromptInv, Looking
<1> QED BY <1>6, <1>7

LEMMA DiscoveredStep ==
    ASSUME PromptInv, Prompt!Discovered
    PROVE  PromptInv'
<1>1. /\ loading = "discover" /\ loading' = "load" /\ directory > Len(chain)
      /\ directory' = 1
      /\ chain' = chain /\ root' = root /\ selected' = selected /\ sections' = sections
    BY DEF Prompt!Discovered
<1>2. /\ PromptTypes /\ sections = <<>> /\ Prompt!Joined(sections) <= PromptBytes
      /\ root \in 1..Len(chain) /\ directory \in root..(Len(chain) + 1)
      /\ \A i, j \in 1..Len(selected) : i < j => selected[i].dir < selected[j].dir
      /\ \A d \in root..(directory - 1) : Readable(d)
    BY <1>1 DEF PromptInv, Looking
<1>3. chain \in Chains /\ root \in Nat /\ directory \in Nat /\ sections \in Seq(Texts)
      /\ selected \in Seq([dir : Nat, text : Texts \ {<<>>}])
    BY <1>2 DEF PromptTypes
<1>4. Len(chain) \in Nat \ {0} /\ Len(selected) \in Nat
    BY <1>3, ChainIs, LenProperties
<1>5. directory - 1 = Len(chain) /\ 1 \in 1..(Len(selected) + 1)
    BY <1>1, <1>2, <1>3, <1>4
<1>6. \A d \in root..Len(chain) : Readable(d)'
    BY <1>1, <1>2, <1>5 DEF Readable
<1>7. Loaded(0)'
    <2>1. Len(sections) = 0
        BY <1>2, EmptySeq
    <2> QED BY <1>1, <2>1 DEF Loaded
<1>8. PromptTypes'
    BY <1>1, <1>3 DEF PromptTypes
<1> QED BY <1>1, <1>2, <1>5, <1>6, <1>7, <1>8 DEF PromptInv, Looking

(* The texts that are loaded are the first ones, and one more.             *)
LEMMA UptoIs ==
    ASSUME PromptTypes, NEW n \in Nat, n + 1 <= Len(selected), Loaded(n)
    PROVE  Upto(n + 1) = Append(sections, selected[n + 1].text)
<1>1. /\ sections \in Seq(Texts) /\ Len(sections) = n
      /\ \A i \in 1..n : sections[i] = selected[i].text
    BY DEF PromptTypes, Loaded
<1>2. PICK m \in Nat : m = Len(selected)
    BY SelectedIs DEF PromptTypes
<1>3. \A i \in 1..m : selected[i].text \in Texts
    BY <1>2, SelectedIs DEF PromptTypes
<1>4. PICK words \in Texts : words = selected[n + 1].text
    BY <1>2, <1>3
<1>5. PICK t \in Seq(Texts) : Longer(t, sections, words, n)
    BY <1>1, OneMore
<1>6. /\ t = Append(sections, words) /\ Len(t) = n + 1 /\ t[n + 1] = words
      /\ \A i \in 1..n : t[i] = sections[i]
    BY <1>5 DEF Longer
<1>7. PICK u : u = Upto(n + 1)
    OBVIOUS
<1>8. /\ u \in Seq(Texts) /\ Len(u) = n + 1
      /\ \A i \in 1..(n + 1) : u[i] = selected[i].text
    <2>1. u = [j \in 1..(n + 1) |-> selected[j].text]
        BY <1>7 DEF Upto
    <2>2. \A j \in 1..(n + 1) : selected[j].text \in Texts
        BY <1>2, <1>3
    <2> QED BY <2>1, <2>2
<1>9. ASSUME NEW i \in 1..(n + 1) PROVE t[i] = u[i]
    <2>1. i \in 1..n \/ i = n + 1
        OBVIOUS
    <2> QED BY <1>1, <1>4, <1>6, <1>8, <2>1
<1>10. t = u
    BY <1>6, <1>8, <1>9, SeqEqual
<1> QED BY <1>4, <1>6, <1>7, <1>10, Zenon

LEMMA TooLongStays ==
    ASSUME NEW n \in Nat, selected' = selected, TooLong(n)
    PROVE  TooLong(n)'
<1>1. Upto(n)' = Upto(n)
    BY DEF Upto
<1> QED BY <1>1, Zenon DEF TooLong

LEMMA RoomIs ==
    ASSUME sections \in Seq(Texts)
    PROVE  /\ Prompt!Room \in Nat /\ Prompt!Joined(sections) + Between(sections) \in Nat
           /\ Prompt!Room = IF Prompt!Joined(sections) + Between(sections) >= PromptBytes THEN 0
                            ELSE PromptBytes - (Prompt!Joined(sections) + Between(sections))
<1>1. Prompt!Joined(sections) \in Nat
    <2>1. <<>> \in Texts
        BY DEF Texts
    <2> QED BY <2>1, JoinedIs
<1>2. Between(sections) \in Nat
    BY DEF Between
<1>3. PromptBytes \in Nat
    BY ServicesAssumption
<1>4. Prompt!Room = IF Prompt!Joined(sections) + Between(sections) >= PromptBytes THEN 0
                    ELSE PromptBytes - (Prompt!Joined(sections) + Between(sections))
    BY Zenon DEF Prompt!Room, Between, Prompt!Separator
<1> QED BY <1>1, <1>2, <1>3, <1>4

LEMMA LoadStep ==
    ASSUME PromptInv, Prompt!Load
    PROVE  PromptInv'
<1>1. /\ loading = "load" /\ chain' = chain /\ root' = root /\ selected' = selected
    BY DEF Prompt!Load
<1>2. /\ PromptTypes /\ Prompt!Joined(sections) <= PromptBytes
      /\ root \in 1..Len(chain)
      /\ \A i, j \in 1..Len(selected) : i < j => selected[i].dir < selected[j].dir
      /\ \A d \in root..Len(chain) : Readable(d)
      /\ directory \in 1..(Len(selected) + 1) /\ Loaded(directory - 1)
    BY <1>1 DEF PromptInv, Looking
<1>3. chain \in Chains /\ root \in Nat /\ directory \in Nat /\ sections \in Seq(Texts)
      /\ selected \in Seq([dir : Nat, text : Texts \ {<<>>}])
    BY <1>2 DEF PromptTypes
<1>4. PICK m \in Nat : m = Len(selected) /\ \A i \in 1..m : selected[i].text \in Texts \ {<<>>}
    BY <1>3, SelectedIs
<1>5. PICK n \in Nat : directory = n + 1 /\ n <= m
    <2>1. directory - 1 \in Nat /\ directory = (directory - 1) + 1 /\ directory - 1 <= m
        BY <1>2, <1>3, <1>4
    <2> QED BY <2>1
<1>6. directory - 1 = n /\ Loaded(n) /\ Len(sections) = n
    <2>1. directory - 1 = n
        BY <1>5
    <2> QED BY <1>2, <2>1 DEF Loaded
<1>7. \A d \in root..Len(chain) : Readable(d)'
    BY <1>1, <1>2 DEF Readable
<1>8. PICK u \in Nat : u = Prompt!Joined(sections) + Between(sections)
    BY <1>3, RoomIs
<1>9. PICK room \in Nat : room = Prompt!Room /\ room = IF u >= PromptBytes THEN 0 ELSE PromptBytes - u
    BY <1>3, <1>8, RoomIs
<1>10. CASE n + 1 > m
    <2>1. loading' = "done" /\ directory' = directory /\ sections' = sections
        BY <1>4, <1>5, <1>10 DEF Prompt!Load
    <2>2. Loaded(Len(selected))'
        <3>1. n = m
            BY <1>5, <1>10
        <3>2. Loaded(Len(selected))
            BY <1>4, <1>6, <3>1
        <3> QED BY <1>1, <2>1, <3>2 DEF Loaded
    <2>3. PromptTypes'
        BY <1>1, <1>3, <2>1 DEF PromptTypes
    <2> QED BY <1>1, <1>2, <1>7, <2>1, <2>2, <2>3 DEF PromptInv, Looking
<1>11. CASE n + 1 <= m
    <2>1. n + 1 \in 1..m
        BY <1>11
    <2>2. PICK words \in Texts : words = selected[n + 1].text /\ words # <<>>
        BY <1>4, <2>1
    <2>3. PICK b \in Nat : b = Prompt!Bytes(words) /\ b > 0
        <3>1. Prompt!Bytes(words) \in Nat /\ Prompt!Bytes(words) > 0
            BY <2>2, BytesPositive, BytesTyped, TextsAreNumbers
        <3> QED BY <3>1
    <2>4. Upto(n + 1) = Append(sections, words)
        BY <1>2, <1>4, <1>6, <1>11, <2>2, UptoIs
    <2>5. Prompt!Joined(Append(sections, words)) = u + b
        BY <1>3, <1>8, <2>3, JoinedIs
    <2>6. Prompt!Joined(Upto(n + 1)) = u + b
        BY <2>4, <2>5, Zenon
    <2>7. CASE room = 0
        <3>1. loading' = "done" /\ directory' = directory /\ sections' = sections
            BY <1>9, <2>7 DEF Prompt!Load
        <3>2. TooLong(n + 1)
            <4>1. u >= PromptBytes
                BY <1>9, <2>7, ServicesAssumption
            <4>2. u + b > PromptBytes
                BY <2>3, <4>1, ServicesAssumption
            <4> QED BY <2>6, <4>2 DEF TooLong
        <3>3. TooLong(n + 1)' /\ Loaded((n + 1) - 1)'
            <4>1. (n + 1) - 1 = n
                OBVIOUS
            <4>2. TooLong(n + 1)'
                BY <1>1, <3>2, TooLongStays
            <4> QED BY <1>1, <1>6, <3>1, <4>1, <4>2 DEF Loaded
        <3>4. PromptTypes'
            BY <1>1, <1>3, <3>1 DEF PromptTypes
        <3>5. n + 1 \in 1..Len(selected')
            BY <1>1, <1>4, <2>1
        <3> QED BY <1>1, <1>2, <1>7, <3>1, <3>3, <3>4, <3>5 DEF PromptInv, Looking
    <2>8. CASE room # 0
        <3>1. PICK part \in Texts : /\ part = Prompt!Cut(words, room)
                                    /\ \E k \in 0..Len(words) : part = SubSeq(words, 1, k)
                                    /\ Prompt!Bytes(part) <= room
                                    /\ part # words => b > room
            BY <2>3, CutIs
        <3>2. /\ sections' = IF part = <<>> THEN sections ELSE Append(sections, part)
              /\ loading' = IF part = words THEN loading ELSE "done"
              /\ directory' = directory + 1
            <4>1. /\ ~(directory > Len(selected) \/ Prompt!Room = 0)
                  /\ words = selected[directory].text
                BY <1>4, <1>5, <1>9, <1>11, <2>2, <2>8
            <4> QED BY <1>9, <3>1, <4>1 DEF Prompt!Load
        <3>3. PICK t \in Seq(Texts) : Longer(t, sections, part, n)
            BY <1>3, <1>6, OneMore
        <3>4. /\ t = Append(sections, part) /\ Len(t) = n + 1 /\ t[n + 1] = part
              /\ \A i \in 1..n : t[i] = sections[i]
            BY <3>3 DEF Longer
        <3>5. Prompt!Joined(sections') <= PromptBytes
            <4>1. CASE part = <<>>
                BY <1>2, <3>2, <4>1
            <4>2. CASE part # <<>>
                <5>1. PICK c \in Nat : c = Prompt!Bytes(part)
                    BY BytesTyped, TextsAreNumbers
                <5>2. Prompt!Joined(t) = u + c
                    BY <1>3, <1>8, <3>4, <5>1, JoinedIs
                <5>3. c <= room /\ room = PromptBytes - u /\ PromptBytes \in Nat
                    BY <1>9, <2>8, <3>1, <5>1, ServicesAssumption
                <5>4. sections' = t
                    BY <3>2, <3>4, <4>2
                <5> QED BY <5>2, <5>3, <5>4
            <4> QED BY <4>1, <4>2
        <3>6. sections' \in Seq(Texts)
            BY <1>3, <3>2, <3>4
        <3>7. PromptTypes'
            BY <1>1, <1>3, <3>2, <3>6 DEF PromptTypes
        <3>8. CASE part = words
            <4>1. sections' = t /\ loading' = "load" /\ directory' = (n + 1) + 1
                BY <1>1, <1>5, <2>2, <3>2, <3>4, <3>8
            <4>2. Loaded(n + 1)'
                <5>1. ASSUME NEW i \in 1..(n + 1) PROVE t[i] = selected[i].text
                    <6>1. i \in 1..n \/ i = n + 1
                        OBVIOUS
                    <6> QED BY <1>6, <2>2, <3>4, <3>8, <6>1 DEF Loaded
                <5> QED BY <1>1, <3>4, <4>1, <5>1 DEF Loaded
            <4>3. (directory - 1)' = n + 1 /\ directory' \in 1..(m + 1)
                BY <1>11, <4>1
            <4>4. Loaded(directory - 1)'
                BY <4>2, <4>3 DEF Loaded
            <4> QED BY <1>1, <1>2, <1>4, <1>7, <3>5, <3>7, <4>1, <4>3, <4>4 DEF PromptInv, Looking
        <3>9. CASE part # words
            <4>1. TooLong(n + 1)
                <5>1. u + b > PromptBytes
                    <6>1. b > room /\ room = PromptBytes - u /\ PromptBytes \in Nat
                        BY <1>9, <2>8, <3>1, <3>9, ServicesAssumption
                    <6> QED BY <6>1
                <5> QED BY <2>6, <5>1 DEF TooLong
            <4>2. TooLong(n + 1)'
                BY <1>1, <4>1, TooLongStays
            <4>3. (Loaded((n + 1) - 1) \/ LoadedPart(n + 1))'
                <5>0. (n + 1) - 1 = n
                    OBVIOUS
                <5>1. CASE part = <<>>
                    BY <1>1, <1>6, <3>2, <5>0, <5>1 DEF Loaded
                <5>2. CASE part # <<>>
                    <6>1. sections' = t
                        BY <3>2, <3>4, <5>2
                    <6>2. PICK k \in 0..Len(selected[n + 1].text) : t[n + 1] = SubSeq(selected[n + 1].text, 1, k)
                        BY <2>2, <3>1, <3>4
                    <6>3. \A i \in 1..((n + 1) - 1) : t[i] = selected[i].text
                        BY <1>6, <3>4, <5>0 DEF Loaded
                    <6> QED BY <1>1, <3>4, <6>1, <6>2, <6>3 DEF LoadedPart
                <5> QED BY <5>1, <5>2
            <4>4. loading' = "done" /\ n + 1 \in 1..Len(selected')
                BY <1>1, <1>4, <2>1, <3>2, <3>9
            <4> QED BY <1>1, <1>2, <1>7, <3>5, <3>7, <4>2, <4>3, <4>4 DEF PromptInv, Looking
        <3> QED BY <3>8, <3>9
    <2> QED BY <2>7, <2>8
<1>12. n + 1 > m \/ n + 1 <= m
    OBVIOUS
<1> QED BY <1>10, <1>11, <1>12

LEMMA PromptStays ==
    ASSUME PromptInv, chain' = chain, root' = root, loading' = loading, directory' = directory,
           selected' = selected, sections' = sections
    PROVE  PromptInv'
<1>1. PromptTypes'
    BY DEF PromptInv, PromptTypes
<1>2. \A d \in Nat : Readable(d)' <=> Readable(d)
    BY DEF Readable
<1>3. \A n \in Nat : Loaded(n)' <=> Loaded(n)
    BY DEF Loaded
<1>4. \A n \in Nat : LoadedPart(n)' <=> LoadedPart(n)
    BY DEF LoadedPart
<1>5. \A n \in Nat : TooLong(n) => TooLong(n)'
    BY TooLongStays
<1>6. /\ Len(chain) \in Nat /\ Len(selected) \in Nat /\ root \in Nat
      /\ directory \in Nat
    BY ChainIs, SelectedIs DEF PromptInv, PromptTypes
<1> QED BY <1>1, <1>2, <1>3, <1>4, <1>5, <1>6 DEF PromptInv, Looking

LEMMA PromptMoves == PromptInv /\ [Prompt!Next]_(Prompt!vars) => PromptInv'
<1> SUFFICES ASSUME PromptInv, [Prompt!Next]_(Prompt!vars) PROVE PromptInv'
    OBVIOUS
<1>1. CASE UNCHANGED Prompt!vars
    <2>1. UNCHANGED promptVars
        BY <1>1 DEF Prompt!vars, promptVars
    <2>2. /\ chain' = chain /\ root' = root /\ loading' = loading
          /\ directory' = directory
          /\ selected' = selected /\ sections' = sections
        BY <2>1 DEF promptVars
    <2> QED BY <2>2, PromptStays
<1>2. CASE Prompt!Next
    BY <1>2, RootStep, DiscoverStep, DiscoveredStep, LoadStep DEF Prompt!Next
<1> QED BY <1>1, <1>2

LEMMA PromptIsRight == PromptInv => Prompt!InstructionsAreOrdered
<1> SUFFICES ASSUME PromptInv PROVE Prompt!InstructionsAreOrdered
    OBVIOUS
<1>1. PICK m \in Nat : m = Len(selected) /\ DOMAIN selected = 1..m
    BY SelectedIs DEF PromptInv, PromptTypes
<1>2. PICK l \in Nat : l = Len(sections) /\ DOMAIN sections = 1..l
    BY LenProperties DEF PromptInv, PromptTypes
<1>10. \A i \in 1..m : selected[i].text \in Texts
    BY <1>1, SelectedIs DEF PromptInv, PromptTypes
<1>3. ASSUME NEW n \in Nat, n <= m, Loaded(n)
      PROVE  /\ l = n
             /\ \A i \in 1..l : /\ \E k \in 0..Len(selected[i].text) : sections[i] = SubSeq(selected[i].text, 1, k)
                                /\ sections[i] = selected[i].text
    <2>1. l = n /\ \A i \in 1..n : sections[i] = selected[i].text
        BY <1>2, <1>3 DEF Loaded
    <2>2. ASSUME NEW i \in 1..l PROVE \E k \in 0..Len(selected[i].text) : sections[i] = SubSeq(selected[i].text, 1, k)
        <3>1. PICK words \in Texts : words = selected[i].text
            BY <1>3, <1>10, <2>1
        <3>2. SubSeq(words, 1, Len(words)) = words /\ Len(words) \in 0..Len(words)
            BY AllOfAText
        <3> QED BY <2>1, <3>1, <3>2
    <2> QED BY <2>1, <2>2
<1>4. ASSUME NEW n \in 1..m, LoadedPart(n)
      PROVE  /\ l = n
             /\ \A i \in 1..l : \E k \in 0..Len(selected[i].text) : sections[i] = SubSeq(selected[i].text, 1, k)
             /\ \A i \in 1..l : i < l => sections[i] = selected[i].text
    <2>1. l = n /\ \A i \in 1..(n - 1) : sections[i] = selected[i].text
        BY <1>2, <1>4 DEF LoadedPart
    <2>2. ASSUME NEW i \in 1..l PROVE \E k \in 0..Len(selected[i].text) : sections[i] = SubSeq(selected[i].text, 1, k)
        <3>1. CASE i = n
            BY <1>4, <3>1 DEF LoadedPart
        <3>2. CASE i # n
            <4>0. i \in 1..(n - 1)
                BY <2>1, <3>2
            <4>1. PICK words \in Texts : words = selected[i].text
                BY <1>10, <2>1
            <4>2. SubSeq(words, 1, Len(words)) = words /\ Len(words) \in 0..Len(words)
                BY AllOfAText
            <4> QED BY <2>1, <4>0, <4>1, <4>2
        <3> QED BY <3>1, <3>2
    <2>3. ASSUME NEW i \in 1..l, i < l PROVE sections[i] = selected[i].text
        <3>1. i \in 1..(n - 1)
            BY <2>1, <2>3
        <3> QED BY <2>1, <3>1
    <2> QED BY <2>1, <2>2, <2>3
<1>5. /\ Prompt!Joined(sections) <= PromptBytes
      /\ \A i, j \in 1..m : i < j => selected[i].dir < selected[j].dir
    BY <1>1 DEF PromptInv
<1>6. loading \in {"load", "done"} => \A d \in root..Len(chain) : chain[d].files[1].kind \notin Prompt!Unusable
    BY DEF PromptInv, Readable
<1>7. loading = "load" => \E n \in Nat : n <= m /\ Loaded(n)
    <2> SUFFICES ASSUME loading = "load" PROVE \E n \in Nat : n <= m /\ Loaded(n)
        OBVIOUS
    <2>1. directory \in 1..(m + 1) /\ Loaded(directory - 1)
        BY <1>1 DEF PromptInv
    <2>2. directory - 1 \in Nat /\ directory - 1 <= m
        BY <2>1
    <2> QED BY <2>1, <2>2
<1>8. loading = "done" => Loaded(m) \/ \E n \in 1..m : TooLong(n) /\ (Loaded(n - 1) \/ LoadedPart(n))
    BY <1>1 DEF PromptInv
<1>9. loading \in {"load", "done"} =>
        /\ l <= m
        /\ \A i \in 1..l :
              /\ \E k \in 0..Len(selected[i].text) : sections[i] = SubSeq(selected[i].text, 1, k)
              /\ i < l => sections[i] = selected[i].text
    <2>1. ASSUME NEW n \in 1..m PROVE n - 1 \in Nat /\ n - 1 <= m /\ n <= m
        OBVIOUS
    <2>2. m <= m
        OBVIOUS
    <2> QED BY <1>3, <1>4, <1>7, <1>8, <2>1, <2>2
<1>11. loading = "done" =>
          \/ l = m /\ \A i \in 1..l : sections[i] = selected[i].text
          \/ \E i \in 1..m : l \in {i - 1, i} /\ Prompt!Joined([j \in 1..i |-> selected[j].text]) > PromptBytes
    <2> SUFFICES ASSUME loading = "done"
                 PROVE  \/ l = m /\ \A i \in 1..l : sections[i] = selected[i].text
                        \/ \E i \in 1..m : l \in {i - 1, i} /\ TooLong(i)
        BY DEF TooLong, Upto
    <2>1. CASE Loaded(m)
        <3>1. m <= m
            OBVIOUS
        <3> QED BY <1>3, <2>1, <3>1
    <2>2. ASSUME NEW n \in 1..m, TooLong(n), Loaded(n - 1) \/ LoadedPart(n) PROVE l \in {n - 1, n}
        <3>1. n - 1 \in Nat /\ n - 1 <= m
            OBVIOUS
        <3>2. CASE Loaded(n - 1)
            BY <1>3, <3>1, <3>2
        <3>3. CASE LoadedPart(n)
            BY <1>4, <3>3
        <3> QED BY <2>2, <3>2, <3>3
    <2> QED BY <1>8, <2>1, <2>2
<1> QED BY <1>1, <1>2, <1>5, <1>6, <1>9, <1>11 DEF Prompt!InstructionsAreOrdered

(* InstructionsAreOrdered of Instructions: for any directories, files and  *)
(* limit, the prompt gets the instructions from the project root to the    *)
(* launch directory, in that order and none left out, up to what fits.     *)
LEMMA PromptAlwaysOrdered == Prompt!Spec => []Prompt!InstructionsAreOrdered
<1>1. PromptInv /\ [Prompt!Next]_(Prompt!vars) => PromptInv'
    BY PromptMoves
<1> QED BY <1>1, PromptStarts, PromptIsRight, PTL DEF Prompt!Spec

-----------------------------------------------------------------------------
-----------------------------------------------------------------------------
(* The replies of a model: lists that are joined.                          *)
LEMMA InductionOverSequences ==
    ASSUME NEW T, NEW H, <<>> \in H, \A s \in Seq(T), x \in T : s \in H => Append(s, x) \in H
    PROVE  Seq(T) \subseteq H
<1> DEFINE M == {n \in Nat : \A s \in Seq(T) : Len(s) = n => s \in H}
<1>1. 0 \in M
    <2>1. \A s \in Seq(T) : Len(s) = 0 => s = <<>>
        BY EmptySeq
    <2> QED BY <2>1
<1>2. ASSUME NEW n \in Nat, n \in M PROVE n + 1 \in M
    <2> SUFFICES ASSUME NEW s \in Seq(T), Len(s) = n + 1 PROVE s \in H
        OBVIOUS
    <2>1. s # <<>>
        BY EmptySeq
    <2>2. PICK t \in Seq(T), x \in T : s = Append(t, x)
        BY <2>1, SequenceEmptyOrAppend
    <2>3. Len(t) \in Nat /\ Len(s) = Len(t) + 1
        BY <2>2, AppendProperties, LenProperties
    <2>4. Len(t) = n
        BY <2>3
    <2> QED BY <1>2, <2>2, <2>4
<1> HIDE DEF M
<1>3. Nat \subseteq M
    BY <1>1, <1>2, InductionOverASet
<1>4. ASSUME NEW s \in Seq(T) PROVE s \in H
    <2>1. Len(s) \in M
        BY <1>3, LenProperties
    <2> QED BY <2>1 DEF M
<1> QED BY <1>4

Joins(f, rows, n) == f[0] = <<>> /\ \A i \in 1..n : f[i] = f[i - 1] \o rows[i]
JoinBy(f, rows) ==
    f = [n \in 0..Len(rows) |-> IF n = 0 THEN <<>> ELSE f[n - 1] \o rows[n]]

LEMMA JoinedBy ==
    ASSUME NEW rows
    PROVE  Replies!Joined(rows) = (CHOOSE f : JoinBy(f, rows))[Len(rows)]
BY Zenon DEF Replies!Joined, JoinBy

LEMMA JoinFound ==
    ASSUME NEW S, NEW rows \in Seq(Seq(S))
    PROVE  \E f \in [0..Len(rows) -> Seq(S)] :
              Joins(f, rows, Len(rows)) /\ Replies!Joined(rows) = f[Len(rows)]
<1> DEFINE W == Seq(S)
<1>1. PICK n \in Nat : n = Len(rows) /\ \A i \in 1..n : rows[i] \in W
    BY LenProperties
<1>01. \A s, t \in W : s \o t \in W
    BY Joining
<1>02. PICK z \in W : z = <<>>
    BY EmptySeq
<1> HIDE DEF W
<1> DEFINE F == [i \in 1..n |-> [t \in W |-> t \o rows[i]]]
<1>2. F \in [1..n -> [W -> W]] /\ \A i \in 1..n : \A t \in W : F[i][t] = t \o rows[i]
    BY <1>1, <1>01
<1> HIDE DEF F
<1>3. PICK f \in [0..n -> W] : Iterated(f, z, n, F)
    BY <1>2, IteratesTo
<1>4. f[0] = <<>> /\ \A i \in 1..n : f[i] = f[i - 1] \o rows[i]
    <2>1. ASSUME NEW i \in 1..n PROVE f[i] = f[i - 1] \o rows[i]
        <3>1. i - 1 \in 0..n
            OBVIOUS
        <3>2. f[i - 1] \in W
            BY <3>1
        <3> QED BY <1>2, <1>3, <3>2 DEF Iterated
    <2> QED BY <1>02, <1>3, <2>1 DEF Iterated
<1>6. f = [i \in 0..n |-> IF i = 0 THEN <<>> ELSE f[i - 1] \o rows[i]]
    <2>1. f = [i \in 0..n |-> f[i]]
        OBVIOUS
    <2>2. ASSUME NEW i \in 0..n PROVE f[i] = IF i = 0 THEN <<>> ELSE f[i - 1] \o rows[i]
        <3>1. i # 0 => i \in 1..n
            OBVIOUS
        <3> QED BY <1>4, <3>1
    <2> QED BY <2>1, <2>2
<1>7. JoinBy(f, rows)
    BY <1>1, <1>6 DEF JoinBy
<1>8. PICK g : g = CHOOSE h : JoinBy(h, rows)
    OBVIOUS
<1>9. JoinBy(g, rows)
    BY <1>7, <1>8, Zenon
<1>10. g[0] = <<>> /\ \A i \in 1..n : g[i] = g[i - 1] \o rows[i]
    <2>1. 0 \in 0..n /\ \A i \in 1..n : i \in 0..n /\ i # 0
        OBVIOUS
    <2>2. g = [i \in 0..n |-> IF i = 0 THEN <<>> ELSE g[i - 1] \o rows[i]]
        BY <1>1, <1>9 DEF JoinBy
    <2> QED BY <2>1, <2>2
<1> DEFINE M == {m \in Nat : m <= n => g[m] = f[m]}
<1>11. 0 \in M
    BY <1>4, <1>10
<1>12. ASSUME NEW m \in Nat, m \in M PROVE m + 1 \in M
    <2> SUFFICES ASSUME m + 1 <= n PROVE g[m + 1] = f[m + 1]
        OBVIOUS
    <2>1. m + 1 \in 1..n /\ m <= n /\ (m + 1) - 1 = m
        OBVIOUS
    <2> QED BY <1>4, <1>10, <1>12, <2>1
<1>13. g[n] = f[n]
    <2> HIDE DEF M
    <2>1. n \in M
        BY <1>11, <1>12, InductionOverASet
    <2> QED BY <2>1 DEF M
<1>14. Replies!Joined(rows) = f[n]
    BY <1>1, <1>8, <1>13, JoinedBy
<1> QED BY <1>1, <1>4, <1>14 DEF Joins, W

LEMMA JoinsAgree ==
    ASSUME NEW n \in Nat, NEW f, NEW g, NEW s, NEW t, Joins(f, s, n), Joins(g, t, n),
           \A i \in 1..n : s[i] = t[i]
    PROVE  f[n] = g[n]
<1> DEFINE M == {m \in Nat : m <= n => f[m] = g[m]}
<1>1. 0 \in M
    BY DEF Joins
<1>2. ASSUME NEW m \in Nat, m \in M PROVE m + 1 \in M
    <2> SUFFICES ASSUME m + 1 <= n PROVE f[m + 1] = g[m + 1]
        OBVIOUS
    <2>1. m + 1 \in 1..n /\ m <= n /\ (m + 1) - 1 = m
        OBVIOUS
    <2> QED BY <1>2, <2>1 DEF Joins
<1> HIDE DEF M
<1>3. n \in M
    BY <1>1, <1>2, InductionOverASet
<1> QED BY <1>3 DEF M

LEMMA JoinedMore ==
    ASSUME NEW S, NEW rows \in Seq(Seq(S)), NEW x \in Seq(S)
    PROVE  /\ Replies!Joined(rows) \in Seq(S)
           /\ Replies!Joined(Append(rows, x)) = Replies!Joined(rows) \o x
<1> DEFINE W == Seq(S)
<1>1. PICK n \in Nat : n = Len(rows)
    BY LenProperties
<1>2. PICK more \in Seq(W) : Longer(more, rows, x, n)
    BY <1>1, OneMore
<1>3. PICK f \in [0..n -> W] : Joins(f, rows, n) /\ Replies!Joined(rows) = f[n]
    BY <1>1, JoinFound
<1>4. Len(more) = n + 1
    BY <1>2 DEF Longer
<1>5. PICK g \in [0..(n + 1) -> W] : Joins(g, more, n + 1) /\ Replies!Joined(more) = g[n + 1]
    BY <1>4, JoinFound
<1>6. Joins(g, more, n)
    <2>1. \A i \in 1..n : i \in 1..(n + 1)
        OBVIOUS
    <2> QED BY <1>5, <2>1 DEF Joins
<1>7. \A i \in 1..n : more[i] = rows[i]
    BY <1>2 DEF Longer
<1>8. f[n] = g[n]
    BY <1>3, <1>6, <1>7, JoinsAgree
<1>9. g[n + 1] = g[n] \o more[n + 1]
    <2>1. n + 1 \in 1..(n + 1) /\ (n + 1) - 1 = n
        OBVIOUS
    <2> QED BY <1>5, <2>1 DEF Joins
<1>10. more = Append(rows, x) /\ more[n + 1] = x
    BY <1>2 DEF Longer
<1>11. f[n] \in W
    BY <1>3
<1> QED BY <1>3, <1>5, <1>8, <1>9, <1>10, <1>11

LEMMA JoinedNone == Replies!Joined(<<>>) = <<>>
<1> DEFINE S == Nat
<1>1. PICK rows \in Seq(Seq(S)) : rows = <<>> /\ Len(rows) = 0
    BY EmptySeq
<1>2. PICK f : Joins(f, rows, 0) /\ Replies!Joined(rows) = f[0]
    BY <1>1, JoinFound
<1> QED BY <1>1, <1>2 DEF Joins

(* What f makes of every element of a list, joined.                        *)
Makes(f, T, S) == \A x \in T : f[x] \in S
Spread(f, s) == Replies!Joined([i \in 1..Len(s) |-> f[s[i]]])

LEMMA SpreadEmpty ==
    ASSUME NEW f
    PROVE  Spread(f, <<>>) = <<>>
<1>1. [i \in 1..Len(<<>>) |-> f[<<>>[i]]] = <<>>
    OBVIOUS
<1> QED BY <1>1, JoinedNone DEF Spread

Over(f, s) == [i \in 1..Len(s) |-> f[s[i]]]

LEMMA OverIs ==
    ASSUME NEW S, NEW T, NEW f, Makes(f, T, S), NEW s \in Seq(T)
    PROVE  /\ Over(f, s) \in Seq(S) /\ Len(Over(f, s)) = Len(s)
           /\ \A i \in 1..Len(s) : Over(f, s)[i] = f[s[i]]
<1>1. PICK n \in Nat : n = Len(s) /\ \A i \in 1..n : s[i] \in T
    BY LenProperties
<1>2. Over(f, s) = [i \in 1..n |-> f[s[i]]]
    BY <1>1 DEF Over
<1>3. \A i \in 1..n : f[s[i]] \in S
    BY <1>1 DEF Makes
<1> QED BY <1>1, <1>2, <1>3, IsASeq

LEMMA OverMore ==
    ASSUME NEW S, NEW T, NEW f, Makes(f, T, S), NEW s \in Seq(T), NEW x \in T
    PROVE  Over(f, Append(s, x)) = Append(Over(f, s), f[x])
<1>1. PICK n \in Nat : n = Len(s) /\ \A i \in 1..n : s[i] \in T
    BY LenProperties
<1>2. PICK t \in Seq(T) : Longer(t, s, x, n)
    BY <1>1, OneMore
<1>3. t = Append(s, x) /\ Len(t) = n + 1 /\ t[n + 1] = x /\ \A i \in 1..n : t[i] = s[i]
    BY <1>2 DEF Longer
<1>41. Over(f, t) \in Seq(S) /\ Len(Over(f, t)) = Len(t) /\ \A i \in 1..Len(t) : Over(f, t)[i] = f[t[i]]
    BY OverIs
<1>4. PICK v \in Seq(S) : v = Over(f, t) /\ Len(v) = n + 1 /\ \A i \in 1..(n + 1) : v[i] = f[t[i]]
    BY <1>3, <1>41
<1>51. Over(f, s) \in Seq(S) /\ Len(Over(f, s)) = Len(s) /\ \A i \in 1..Len(s) : Over(f, s)[i] = f[s[i]]
    BY OverIs
<1>5. PICK u \in Seq(S) : u = Over(f, s) /\ Len(u) = n /\ \A i \in 1..n : u[i] = f[s[i]]
    BY <1>1, <1>51
<1>6. PICK e \in S : e = f[x]
    BY DEF Makes
<1>7. PICK w \in Seq(S) : Longer(w, u, e, n)
    BY <1>5, OneMore
<1>8. w = Append(u, e) /\ Len(w) = n + 1 /\ w[n + 1] = e /\ \A i \in 1..n : w[i] = u[i]
    BY <1>7 DEF Longer
<1>9. ASSUME NEW i \in 1..(n + 1) PROVE v[i] = w[i]
    <2>1. CASE i = n + 1
        BY <1>3, <1>4, <1>6, <1>8, <2>1
    <2>2. CASE i \in 1..n
        <3>1. v[i] = f[t[i]] /\ t[i] = s[i] /\ u[i] = f[s[i]] /\ w[i] = u[i]
            BY <1>3, <1>4, <1>5, <1>8, <2>2
        <3> QED BY <3>1
    <2>3. i = n + 1 \/ i \in 1..n
        OBVIOUS
    <2> QED BY <2>1, <2>2, <2>3
<1>10. v = w
    BY <1>4, <1>8, <1>9, SeqEqual
<1> QED BY <1>3, <1>4, <1>5, <1>6, <1>8, <1>10

LEMMA SpreadMore ==
    ASSUME NEW S, NEW T, NEW f, Makes(f, T, Seq(S)), NEW s \in Seq(T), NEW x \in T
    PROVE  /\ Spread(f, s) \in Seq(S)
           /\ Spread(f, Append(s, x)) = Spread(f, s) \o f[x]
<1>1. Over(f, s) \in Seq(Seq(S)) /\ f[x] \in Seq(S)
    <2>1. f[x] \in Seq(S)
        BY DEF Makes
    <2> DEFINE W == Seq(S)
    <2> HIDE DEF W
    <2>2. Makes(f, T, W) => Over(f, s) \in Seq(W)
        BY OverIs
    <2> QED BY <2>1, <2>2 DEF W
<1>2. Over(f, Append(s, x)) = Append(Over(f, s), f[x])
    BY OverMore
<1>3. Spread(f, s) = Replies!Joined(Over(f, s))
    BY DEF Spread, Over
<1>4. Spread(f, Append(s, x)) = Replies!Joined(Append(Over(f, s), f[x]))
    BY <1>2 DEF Spread, Over
<1>5. /\ Replies!Joined(Over(f, s)) \in Seq(S)
      /\ Replies!Joined(Append(Over(f, s), f[x])) = Replies!Joined(Over(f, s)) \o f[x]
    BY <1>1, JoinedMore
<1> QED BY <1>3, <1>4, <1>5

(* Nothing else behaves so.                                                *)
SpreadBy(h, f, T) ==
    h[<<>>] = <<>> /\ \A s \in Seq(T), x \in T : h[Append(s, x)] = h[s] \o f[x]

LEMMA OnlySpread ==
    ASSUME NEW S, NEW T, NEW f, Makes(f, T, Seq(S)), NEW h,
           SpreadBy(h, f, T), NEW t \in Seq(T)
    PROVE  h[t] = Spread(f, t)
<1> DEFINE H == {s \in Seq(T) : h[s] = Spread(f, s)}
<1>1. <<>> \in H
    BY SpreadEmpty, EmptySeq DEF SpreadBy
<1>2. ASSUME NEW s \in Seq(T), NEW x \in T, s \in H PROVE Append(s, x) \in H
    <2>1. Append(s, x) \in Seq(T)
        OBVIOUS
    <2>2. Spread(f, Append(s, x)) = Spread(f, s) \o f[x]
        BY SpreadMore
    <2>3. h[Append(s, x)] = h[s] \o f[x]
        BY DEF SpreadBy
    <2> QED BY <1>2, <2>1, <2>2, <2>3
<1> HIDE DEF H
<1>3. t \in H
    BY <1>1, <1>2, InductionOverSequences
<1> QED BY <1>3 DEF H

LEMMA AppendToJoined ==
    ASSUME NEW S, NEW s \in Seq(S), NEW t \in Seq(S), NEW x \in S
    PROVE  s \o Append(t, x) = Append(s \o t, x)
<1>1. <<x>> \in Seq(S) /\ s \o t \in Seq(S)
    BY Joining
<1>2. Append(t, x) = t \o <<x>> /\ Append(s \o t, x) = (s \o t) \o <<x>>
    BY <1>1, AppendIsConcat
<1> QED BY <1>1, <1>2, Joining

LEMMA NoneToJoined ==
    ASSUME NEW S, NEW s \in Seq(S)
    PROVE  s \o <<>> = s /\ <<>> \o s = s
BY ConcatEmptySeq

LEMMA SpreadJoined ==
    ASSUME NEW S, NEW T, NEW f, Makes(f, T, Seq(S)), NEW s \in Seq(T), NEW u \in Seq(T)
    PROVE  Spread(f, s \o u) = Spread(f, s) \o Spread(f, u)
<1> DEFINE H == {t \in Seq(T) : Spread(f, s \o t) = Spread(f, s) \o Spread(f, t)}
<1>0. Spread(f, s) \in Seq(S)
    <2>1. CASE T = {}
        <3>1. s = <<>>
            BY <2>1, EmptySeq, LenProperties
        <3> QED BY <3>1, SpreadEmpty, EmptySeq
    <2>2. CASE T # {}
        BY <2>2, SpreadMore
    <2> QED BY <2>1, <2>2
<1>1. <<>> \in H
    <2>1. s \o <<>> = s /\ Spread(f, s) \o <<>> = Spread(f, s)
        BY <1>0, NoneToJoined
    <2> QED BY <2>1, SpreadEmpty, EmptySeq
<1>2. ASSUME NEW t \in Seq(T), NEW x \in T, t \in H PROVE Append(t, x) \in H
    <2>1. Append(t, x) \in Seq(T) /\ s \o Append(t, x) = Append(s \o t, x) /\ s \o t \in Seq(T)
        BY AppendToJoined, Joining
    <2>21. PICK v \in Seq(T) : v = s \o t
        BY <2>1
    <2>2. Spread(f, Append(v, x)) = Spread(f, v) \o f[x]
        BY SpreadMore
    <2>3. Spread(f, Append(t, x)) = Spread(f, t) \o f[x] /\ Spread(f, t) \in Seq(S)
        BY SpreadMore
    <2>4. f[x] \in Seq(S)
        BY DEF Makes
    <2>41. PICK a \in Seq(S), b \in Seq(S), c \in Seq(S) :
              a = Spread(f, s) /\ b = Spread(f, t) /\ c = f[x]
        BY <1>0, <2>3, <2>4
    <2>5. (a \o b) \o c = a \o (b \o c)
        BY ConcatAssociative, SMTT(30)
    <2> QED BY <1>2, <2>1, <2>21, <2>2, <2>3, <2>41, <2>5
<1> HIDE DEF H
<1>3. u \in H
    BY <1>1, <1>2, InductionOverSequences
<1> QED BY <1>3 DEF H

LEMMA SpreadIsSeq ==
    ASSUME NEW S, NEW T, NEW f, Makes(f, T, Seq(S)), NEW s \in Seq(T)
    PROVE  Spread(f, s) \in Seq(S)
<1>1. CASE T = {}
    <2>1. s = <<>>
        BY <1>1, EmptySeq, LenProperties
    <2> QED BY <2>1, SpreadEmpty, EmptySeq
<1>2. CASE T # {}
    BY <1>2, SpreadMore
<1> QED BY <1>1, <1>2

(* A spread of a spread, of single elements and of nothing.                *)
LEMMA SpreadTwice ==
    ASSUME NEW R, NEW S, NEW T, NEW f, Makes(f, T, Seq(S)), NEW g, Makes(g, S, Seq(R)),
           NEW h, Makes(h, T, Seq(R)), \A x \in T : h[x] = Spread(g, f[x]), NEW s \in Seq(T)
    PROVE  Spread(g, Spread(f, s)) = Spread(h, s)
<1> DEFINE k == [t \in Seq(T) |-> Spread(g, Spread(f, t))]
<1>1. \A t \in Seq(T) : k[t] = Spread(g, Spread(f, t))
    OBVIOUS
<1> HIDE DEF k
<1>2. k[<<>>] = <<>>
    BY <1>1, SpreadEmpty, EmptySeq
<1>3. ASSUME NEW t \in Seq(T), NEW x \in T PROVE k[Append(t, x)] = k[t] \o h[x]
    <2>0. f[x] \in Seq(S)
        BY DEF Makes
    <2>1. Spread(f, Append(t, x)) = Spread(f, t) \o f[x] /\ Spread(f, t) \in Seq(S) /\ f[x] \in Seq(S)
        BY <2>0, SpreadMore
    <2>2. Spread(g, Spread(f, t) \o f[x]) = Spread(g, Spread(f, t)) \o Spread(g, f[x])
        BY <2>1, SpreadJoined
    <2>3. Append(t, x) \in Seq(T)
        OBVIOUS
    <2> QED BY <1>1, <2>1, <2>2, <2>3
<1>4. k[s] = Spread(h, s)
    <2>1. SpreadBy(k, h, T)
        BY <1>2, <1>3 DEF SpreadBy
    <2> QED BY <2>1, OnlySpread
<1> QED BY <1>1, <1>4

LEMMA SpreadOnes ==
    ASSUME NEW S, NEW T, NEW f, Makes(f, T, Seq(S)), NEW g, Makes(g, T, S),
           \A x \in T : f[x] = <<g[x]>>, NEW s \in Seq(T)
    PROVE  Spread(f, s) = Over(g, s)
<1> DEFINE k == [t \in Seq(T) |-> Over(g, t)]
<1>1. \A t \in Seq(T) : k[t] = Over(g, t)
    OBVIOUS
<1> HIDE DEF k
<1>2. k[<<>>] = <<>>
    <2>1. Over(g, <<>>) = <<>>
        BY DEF Over
    <2> QED BY <1>1, <2>1, EmptySeq
<1>3. ASSUME NEW t \in Seq(T), NEW x \in T PROVE k[Append(t, x)] = k[t] \o f[x]
    <2>1. Append(t, x) \in Seq(T)
        OBVIOUS
    <2>2. Over(g, Append(t, x)) = Append(Over(g, t), g[x])
        BY OverMore
    <2>3. Over(g, t) \in Seq(S) /\ g[x] \in S
        <3>1. g[x] \in S
            BY DEF Makes
        <3> QED BY <3>1, OverIs
    <2>4. Append(Over(g, t), g[x]) = Over(g, t) \o <<g[x]>>
        BY <2>3, AppendIsConcat
    <2> QED BY <1>1, <2>1, <2>2, <2>4
<1>4. k[s] = Spread(f, s)
    <2>1. SpreadBy(k, f, T)
        BY <1>2, <1>3 DEF SpreadBy
    <2> QED BY <2>1, OnlySpread
<1> QED BY <1>1, <1>4

LEMMA SpreadNone ==
    ASSUME NEW S, NEW T, NEW f, Makes(f, T, Seq(S)), \A x \in T : f[x] = <<>>, NEW s \in Seq(T)
    PROVE  Spread(f, s) = <<>>
<1> DEFINE k == [t \in Seq(T) |-> <<>>]
<1>1. \A t \in Seq(T) : k[t] = <<>>
    OBVIOUS
<1> HIDE DEF k
<1>2. k[<<>>] = <<>>
    BY <1>1, EmptySeq
<1>3. ASSUME NEW t \in Seq(T), NEW x \in T PROVE k[Append(t, x)] = k[t] \o f[x]
    <2>1. Append(t, x) \in Seq(T) /\ f[x] = <<>> /\ <<>> \in Seq(S)
        OBVIOUS
    <2>2. <<>> \o f[x] = <<>>
        BY <2>1, NoneToJoined
    <2> QED BY <1>1, <2>1, <2>2
<1>4. k[s] = Spread(f, s)
    <2>1. SpreadBy(k, f, T)
        BY <1>2, <1>3 DEF SpreadBy
    <2> QED BY <2>1, OnlySpread
<1> QED BY <1>1, <1>4

LEMMA SpreadOne ==
    ASSUME NEW S, NEW T, NEW f, Makes(f, T, Seq(S)), NEW x \in T
    PROVE  Spread(f, <<x>>) = f[x]
<1>1. PICK s \in Seq(T) : s = <<>>
    BY EmptySeq
<1>2. Append(s, x) = <<x>>
    BY <1>1
<1>3. Spread(f, Append(s, x)) = Spread(f, s) \o f[x]
    BY SpreadMore
<1>4. f[x] \in Seq(S)
    BY DEF Makes
<1>5. <<>> \o f[x] = f[x]
    BY <1>4, NoneToJoined
<1> QED BY <1>1, <1>2, <1>3, <1>5, SpreadEmpty

(* What is made of the elements of a list that was made of another.        *)
LEMMA SpreadOver ==
    ASSUME NEW S, NEW T, NEW f, Makes(f, T, S), NEW g, NEW h,
           \A x \in T : h[x] = g[f[x]], NEW s \in Seq(T)
    PROVE  Spread(g, Over(f, s)) = Spread(h, s)
<1>1. PICK n \in Nat : n = Len(s) /\ \A i \in 1..n : s[i] \in T
    BY LenProperties
<1>2. Over(f, s) \in Seq(S) /\ Len(Over(f, s)) = Len(s) /\ \A i \in 1..Len(s) : Over(f, s)[i] = f[s[i]]
    BY OverIs
<1>3. PICK v : v = Over(f, s) /\ Len(v) = n /\ \A i \in 1..n : v[i] = f[s[i]]
    BY <1>1, <1>2
<1>4. \A i \in 1..n : g[v[i]] = h[s[i]]
    BY <1>1, <1>3
<1>5. [i \in 1..n |-> g[v[i]]] = [i \in 1..n |-> h[s[i]]]
    BY <1>4
<1> QED BY <1>1, <1>3, <1>5 DEF Spread

-----------------------------------------------------------------------------
(* The items of a request.                                                 *)
CallIds == [reply : Nat, call : Nat]
CallType == [id : CallIds, name : ToolNames, args : Seq(Nat)]
Roles == {"user", "assistant", "tool"}
TalkMessages ==
    {m \in [role : Roles, text : BOOLEAN, calls : Seq(CallType), id : CallIds] :
        m.role # "assistant" => m.calls = <<>>}
ItemsOf(O) == [kind : {"text", "call", "result"}, of : O]

Called(items) == Replies!Select("call", items)
Answered(items) == Replies!Select("result", items)

CallItems(O) == [x \in ItemsOf(O) |-> IF x.kind = "call" THEN <<x.of>> ELSE <<>>]
ResultItems(O) == [x \in ItemsOf(O) |-> IF x.kind = "result" THEN <<x.of>> ELSE <<>>]

LEMMA CallItemsMake ==
    ASSUME NEW O
    PROVE  Makes(CallItems(O), ItemsOf(O), Seq(O)) /\ Makes(ResultItems(O), ItemsOf(O), Seq(O))
BY DEF Makes, CallItems, ResultItems, ItemsOf

LEMMA SelectIs ==
    ASSUME NEW kind, NEW T, NEW f, \A x \in T : f[x] = IF x.kind = kind THEN <<x.of>> ELSE <<>>,
           NEW items \in Seq(T)
    PROVE  Replies!Select(kind, items) = Spread(f, items)
<1>1. PICK n \in Nat : n = Len(items) /\ \A i \in 1..n : items[i] \in T
    BY LenProperties
<1>2. \A i \in 1..n : f[items[i]] = IF items[i].kind = kind THEN <<items[i].of>> ELSE <<>>
    BY <1>1
<1>3. [i \in 1..n |-> f[items[i]]] =
      [i \in 1..n |-> IF items[i].kind = kind THEN <<items[i].of>> ELSE <<>>]
    BY <1>2
<1> QED BY <1>1, <1>3 DEF Replies!Select, Spread

LEMMA SelectedAre ==
    ASSUME NEW O, NEW items \in Seq(ItemsOf(O))
    PROVE  Called(items) = Spread(CallItems(O), items) /\ Answered(items) = Spread(ResultItems(O), items)
<1>1. PICK c : c = "call"
    OBVIOUS
<1>2. PICK r : r = "result"
    OBVIOUS
<1>3. Replies!Select(c, items) = Spread(CallItems(O), items)
    <2>1. \A x \in ItemsOf(O) : CallItems(O)[x] = IF x.kind = c THEN <<x.of>> ELSE <<>>
        BY <1>1 DEF CallItems
    <2> QED BY <2>1, SelectIs
<1>4. Replies!Select(r, items) = Spread(ResultItems(O), items)
    <2>1. \A x \in ItemsOf(O) : ResultItems(O)[x] = IF x.kind = r THEN <<x.of>> ELSE <<>>
        BY <1>2 DEF ResultItems
    <2> QED BY <2>1, SelectIs
<1> QED BY <1>1, <1>2, <1>3, <1>4, Zenon DEF Called, Answered

(* The items of a message, given what a call and a result are of.          *)
PartsBy(m, a, b) ==
    IF m.role = "tool" THEN <<Replies!Item("result", b[m.id])>>
    ELSE Replies!Texts(m) \o [k \in 1..Len(m.calls) |-> Replies!Item("call", a[m.calls[k]])]

Parted(parts, a, b) == \A m \in TalkMessages : parts[m] = PartsBy(m, a, b)

CallsOf == [m \in TalkMessages |-> m.calls]
ResultsOf == [m \in TalkMessages |-> IF m.role = "tool" THEN <<m.id>> ELSE <<>>]

LEMMA MessagesHave ==
    ASSUME NEW m \in TalkMessages
    PROVE  /\ m.role \in Roles /\ m.text \in BOOLEAN /\ m.calls \in Seq(CallType) /\ m.id \in CallIds
           /\ m.role # "assistant" => m.calls = <<>>
BY DEF TalkMessages

LEMMA TextsAre ==
    ASSUME NEW O, Roles \subseteq O, NEW m \in TalkMessages
    PROVE  /\ Replies!Texts(m) \in Seq(ItemsOf(O))
           /\ Spread(CallItems(O), Replies!Texts(m)) = <<>>
           /\ Spread(ResultItems(O), Replies!Texts(m)) = <<>>
<1>1. PICK x \in ItemsOf(O) : x = [kind |-> "text", of |-> m.role]
    BY MessagesHave DEF ItemsOf
<1>2. Replies!Texts(m) = <<x>> \/ Replies!Texts(m) = <<>>
    BY <1>1, Zenon DEF Replies!Texts, Replies!Item
<1>3. CallItems(O)[x] = <<>> /\ ResultItems(O)[x] = <<>>
    BY <1>1 DEF CallItems, ResultItems
<1>4. Spread(CallItems(O), <<x>>) = <<>> /\ Spread(ResultItems(O), <<x>>) = <<>>
    BY <1>3, SpreadOne, CallItemsMake
<1>5. Spread(CallItems(O), <<>>) = <<>> /\ Spread(ResultItems(O), <<>>) = <<>>
    BY SpreadEmpty
<1>6. <<x>> \in Seq(ItemsOf(O)) /\ <<>> \in Seq(ItemsOf(O))
    OBVIOUS
<1> QED BY <1>2, <1>4, <1>5, <1>6

CallItem(a) == [c \in CallType |-> Replies!Item("call", a[c])]

LEMMA CallsAre ==
    ASSUME NEW O, NEW a, Makes(a, CallType, O), NEW s \in Seq(CallType)
    PROVE  /\ Over(CallItem(a), s) \in Seq(ItemsOf(O))
           /\ Spread(CallItems(O), Over(CallItem(a), s)) = Over(a, s)
           /\ Spread(ResultItems(O), Over(CallItem(a), s)) = <<>>
<1>1. \A c \in CallType : CallItem(a)[c] = [kind |-> "call", of |-> a[c]]
    BY DEF CallItem, Replies!Item
<1>2. Makes(CallItem(a), CallType, ItemsOf(O))
    <2>1. ASSUME NEW c \in CallType PROVE CallItem(a)[c] \in ItemsOf(O)
        <3>1. PICK y \in O : y = a[c]
            BY DEF Makes
        <3>2. [kind |-> "call", of |-> y] \in ItemsOf(O)
            BY DEF ItemsOf
        <3> QED BY <1>1, <3>1, <3>2
    <2> QED BY <2>1 DEF Makes
<1> DEFINE ones == [c \in CallType |-> <<a[c]>>]
           nones == [c \in CallType |-> <<>>]
<1>3. \A c \in CallType : ones[c] = <<a[c]>> /\ nones[c] = <<>>
    OBVIOUS
<1> HIDE DEF ones, nones
<1>4. ASSUME NEW c \in CallType
      PROVE  ones[c] = CallItems(O)[CallItem(a)[c]] /\ nones[c] = ResultItems(O)[CallItem(a)[c]]
    <2>1. PICK x \in ItemsOf(O) : x = CallItem(a)[c]
        BY <1>2 DEF Makes
    <2>2. x.kind = "call" /\ x.of = a[c]
        <3>1. x = [kind |-> "call", of |-> a[c]]
            BY <1>1, <2>1
        <3> QED BY <3>1
    <2>3. CallItems(O)[x] = <<x.of>> /\ ResultItems(O)[x] = <<>>
        BY <2>2 DEF CallItems, ResultItems
    <2> QED BY <1>3, <2>1, <2>2, <2>3
<1>5. Makes(ones, CallType, Seq(O)) /\ Makes(nones, CallType, Seq(O))
    <2>1. ASSUME NEW c \in CallType PROVE ones[c] \in Seq(O) /\ nones[c] \in Seq(O)
        <3>1. PICK y \in O : y = a[c]
            BY DEF Makes
        <3>2. <<y>> \in Seq(O) /\ <<>> \in Seq(O)
            OBVIOUS
        <3> QED BY <1>3, <3>1, <3>2
    <2> QED BY <2>1 DEF Makes
<1>6. Spread(CallItems(O), Over(CallItem(a), s)) = Spread(ones, s)
    BY <1>2, <1>4, SpreadOver
<1>7. Spread(ResultItems(O), Over(CallItem(a), s)) = Spread(nones, s)
    BY <1>2, <1>4, SpreadOver
<1>8. Spread(ones, s) = Over(a, s)
    BY <1>3, <1>5, SpreadOnes
<1>9. Spread(nones, s) = <<>>
    BY <1>3, <1>5, SpreadNone
<1>10. Over(CallItem(a), s) \in Seq(ItemsOf(O))
    BY <1>2, OverIs
<1> QED BY <1>6, <1>7, <1>8, <1>9, <1>10

LEMMA PartsHave ==
    ASSUME NEW O, Roles \subseteq O, NEW a, Makes(a, CallType, O), NEW b, Makes(b, CallIds, O),
           NEW m \in TalkMessages
    PROVE  /\ PartsBy(m, a, b) \in Seq(ItemsOf(O))
           /\ Spread(CallItems(O), PartsBy(m, a, b)) = Over(a, m.calls)
           /\ Spread(ResultItems(O), PartsBy(m, a, b)) = Over(b, ResultsOf[m])
<1>1. CASE m.role = "tool"
    <2>1. PICK x \in ItemsOf(O) : x = [kind |-> "result", of |-> b[m.id]]
        <3>1. b[m.id] \in O
            BY MessagesHave DEF Makes
        <3> QED BY <3>1 DEF ItemsOf
    <2>2. PartsBy(m, a, b) = <<x>>
        BY <1>1, <2>1, Zenon DEF PartsBy, Replies!Item
    <2>3. CallItems(O)[x] = <<>> /\ ResultItems(O)[x] = <<b[m.id]>>
        BY <2>1 DEF CallItems, ResultItems
    <2>4. Spread(CallItems(O), <<x>>) = <<>> /\ Spread(ResultItems(O), <<x>>) = <<b[m.id]>>
        BY <2>3, SpreadOne, CallItemsMake
    <2>5. Over(a, m.calls) = <<>>
        BY <1>1, MessagesHave DEF Over
    <2>6. ResultsOf[m] = <<m.id>>
        BY <1>1 DEF ResultsOf
    <2>7. Over(b, <<m.id>>) = <<b[m.id]>>
        BY DEF Over
    <2> QED BY <2>2, <2>4, <2>5, <2>6, <2>7
<1>2. CASE m.role # "tool"
    <2>1. PICK s \in Seq(CallType) : s = m.calls
        BY MessagesHave
    <2>2. [k \in 1..Len(s) |-> Replies!Item("call", a[s[k]])] = Over(CallItem(a), s)
        <3>1. PICK n \in Nat : n = Len(s) /\ \A k \in 1..n : s[k] \in CallType
            BY LenProperties
        <3>2. \A k \in 1..n : CallItem(a)[s[k]] = Replies!Item("call", a[s[k]])
            BY <3>1 DEF CallItem
        <3> QED BY <3>1, <3>2 DEF Over
    <2>3. PartsBy(m, a, b) = Replies!Texts(m) \o Over(CallItem(a), s)
        BY <1>2, <2>1, <2>2, Zenon DEF PartsBy
    <2>4. PICK t \in Seq(ItemsOf(O)) : t = Replies!Texts(m)
        BY TextsAre
    <2>5. PICK u \in Seq(ItemsOf(O)) : u = Over(CallItem(a), s)
        BY CallsAre
    <2>6. t \o u \in Seq(ItemsOf(O))
        BY Joining
    <2>7. /\ Spread(CallItems(O), t \o u) = Spread(CallItems(O), t) \o Spread(CallItems(O), u)
          /\ Spread(ResultItems(O), t \o u) = Spread(ResultItems(O), t) \o Spread(ResultItems(O), u)
        BY CallItemsMake, SpreadJoined
    <2>8. Spread(CallItems(O), t) = <<>> /\ Spread(ResultItems(O), t) = <<>>
        BY <2>4, TextsAre
    <2>9. Spread(CallItems(O), u) = Over(a, s) /\ Spread(ResultItems(O), u) = <<>>
        BY <2>5, CallsAre
    <2>10. <<>> \o Over(a, s) = Over(a, s) /\ <<>> \o <<>> = <<>>
        <3>1. Over(a, s) \in Seq(O)
            BY OverIs
        <3> QED BY <3>1, NoneToJoined
    <2>11. Over(b, ResultsOf[m]) = <<>>
        BY <1>2 DEF ResultsOf, Over
    <2> QED BY <2>1, <2>3, <2>4, <2>5, <2>6, <2>7, <2>8, <2>9, <2>10, <2>11
<1> QED BY <1>1, <1>2

(* The calls and the results of a request, in order.                       *)
Naming(O, a, b) == Roles \subseteq O /\ Makes(a, CallType, O) /\ Makes(b, CallIds, O)

LEMMA RequestIs ==
    ASSUME NEW O, NEW a, NEW b, Naming(O, a, b), NEW parts, Parted(parts, a, b),
           NEW h \in Seq(TalkMessages)
    PROVE  /\ Spread(parts, h) \in Seq(ItemsOf(O))
           /\ Called(Spread(parts, h)) = Over(a, Spread(CallsOf, h))
           /\ Answered(Spread(parts, h)) = Over(b, Spread(ResultsOf, h))
<1>0. Roles \subseteq O /\ Makes(a, CallType, O) /\ Makes(b, CallIds, O)
    BY DEF Naming
<1>1. Makes(parts, TalkMessages, Seq(ItemsOf(O)))
    BY <1>0, PartsHave DEF Makes, Parted
<1>2. PICK p \in Seq(ItemsOf(O)) : p = Spread(parts, h)
    BY <1>1, SpreadIsSeq
<1>3. Called(p) = Spread(CallItems(O), p) /\ Answered(p) = Spread(ResultItems(O), p)
    BY SelectedAre
<1> DEFINE f == [m \in TalkMessages |-> Over(a, m.calls)]
           g == [m \in TalkMessages |-> Over(b, ResultsOf[m])]
           one == [c \in CallType |-> <<a[c]>>]
           two == [i \in CallIds |-> <<b[i]>>]
<1>4. \A m \in TalkMessages : f[m] = Over(a, CallsOf[m]) /\ g[m] = Over(b, ResultsOf[m])
    BY DEF CallsOf
<1>41. \A c \in CallType : one[c] = <<a[c]>>
    OBVIOUS
<1>42. \A i \in CallIds : two[i] = <<b[i]>>
    OBVIOUS
<1>5. Makes(CallsOf, TalkMessages, Seq(CallType)) /\ Makes(ResultsOf, TalkMessages, Seq(CallIds))
    BY MessagesHave DEF Makes, CallsOf, ResultsOf
<1>6. Makes(one, CallType, Seq(O)) /\ Makes(two, CallIds, Seq(O))
    BY <1>0 DEF Makes
<1>7. ASSUME NEW m \in TalkMessages
      PROVE  /\ f[m] \in Seq(O) /\ g[m] \in Seq(O)
             /\ f[m] = Spread(CallItems(O), parts[m]) /\ g[m] = Spread(ResultItems(O), parts[m])
             /\ f[m] = Spread(one, CallsOf[m]) /\ g[m] = Spread(two, ResultsOf[m])
    <2>1. PICK s \in Seq(CallType) : s = CallsOf[m]
        BY <1>5 DEF Makes
    <2>2. PICK t \in Seq(CallIds) : t = ResultsOf[m]
        BY <1>5 DEF Makes
    <2>3. f[m] = Over(a, s) /\ g[m] = Over(b, t) /\ s = m.calls
        BY <1>4, <2>1, <2>2 DEF CallsOf
    <2> HIDE DEF f, g, one, two
    <2>4. Over(a, s) \in Seq(O) /\ Over(b, t) \in Seq(O)
        BY <1>0, OverIs
    <2>5. Spread(one, s) = Over(a, s)
        BY <1>0, <1>41, <1>6, SpreadOnes
    <2>6. Spread(two, t) = Over(b, t)
        BY <1>0, <1>42, <1>6, SpreadOnes
    <2>7. /\ Spread(CallItems(O), PartsBy(m, a, b)) = Over(a, m.calls)
          /\ Spread(ResultItems(O), PartsBy(m, a, b)) = Over(b, ResultsOf[m])
        BY <1>0, PartsHave
    <2>8. parts[m] = PartsBy(m, a, b)
        BY DEF Parted
    <2> QED BY <2>1, <2>2, <2>3, <2>4, <2>5, <2>6, <2>7, <2>8
<1> HIDE DEF f, g, one, two
<1>8. Makes(f, TalkMessages, Seq(O)) /\ Makes(g, TalkMessages, Seq(O))
    BY <1>7 DEF Makes
<1>9. Spread(CallItems(O), Spread(parts, h)) = Spread(f, h)
    <2>1. \A m \in TalkMessages : f[m] = Spread(CallItems(O), parts[m])
        BY <1>7
    <2> QED BY <1>1, <1>8, <2>1, CallItemsMake, SpreadTwice
<1>10. Spread(ResultItems(O), Spread(parts, h)) = Spread(g, h)
    <2>1. \A m \in TalkMessages : g[m] = Spread(ResultItems(O), parts[m])
        BY <1>7
    <2> QED BY <1>1, <1>8, <2>1, CallItemsMake, SpreadTwice
<1>11. Spread(one, Spread(CallsOf, h)) = Spread(f, h)
    <2>1. \A m \in TalkMessages : f[m] = Spread(one, CallsOf[m])
        BY <1>7
    <2> QED BY <1>5, <1>6, <1>8, <2>1, SpreadTwice
<1>12. Spread(two, Spread(ResultsOf, h)) = Spread(g, h)
    <2>1. \A m \in TalkMessages : g[m] = Spread(two, ResultsOf[m])
        BY <1>7
    <2> QED BY <1>5, <1>6, <1>8, <2>1, SpreadTwice
<1>13. PICK s \in Seq(CallType) : s = Spread(CallsOf, h)
    BY <1>5, SpreadIsSeq
<1>14. PICK t \in Seq(CallIds) : t = Spread(ResultsOf, h)
    BY <1>5, SpreadIsSeq
<1>15. Spread(one, s) = Over(a, s)
    BY <1>0, <1>41, <1>6, SpreadOnes
<1>16. Spread(two, t) = Over(b, t)
    BY <1>0, <1>42, <1>6, SpreadOnes
<1> QED BY <1>2, <1>3, <1>9, <1>10, <1>11, <1>12, <1>13, <1>14, <1>15, <1>16

(* Every call of a history has its result, in order.                       *)
IdOf == [c \in CallType |-> c.id]
NameOf == [c \in CallType |-> c.name]
Matched(h) == Over(IdOf, Spread(CallsOf, h)) = Spread(ResultsOf, h)

LEMMA PartsMake ==
    /\ Makes(CallsOf, TalkMessages, Seq(CallType)) /\ Makes(ResultsOf, TalkMessages, Seq(CallIds))
    /\ Makes(IdOf, CallType, CallIds) /\ Makes(NameOf, CallType, ToolNames)
<1>1. Makes(CallsOf, TalkMessages, Seq(CallType)) /\ Makes(ResultsOf, TalkMessages, Seq(CallIds))
    BY MessagesHave DEF Makes, CallsOf, ResultsOf
<1>2. Makes(IdOf, CallType, CallIds) /\ Makes(NameOf, CallType, ToolNames)
    BY DEF Makes, IdOf, NameOf, CallType
<1> QED BY <1>1, <1>2

Of == Roles \cup CallIds
ItemParts == [m \in TalkMessages |-> Replies!Items(m)]
Same == [i \in CallIds |-> i]

LEMMA ItemsAre ==
    /\ Roles \subseteq Of /\ Makes(IdOf, CallType, Of) /\ Makes(Same, CallIds, Of)
    /\ \A m \in TalkMessages : ItemParts[m] = PartsBy(m, IdOf, Same) /\ ItemParts[m] = Replies!Items(m)
<1>1. Makes(IdOf, CallType, Of) /\ Makes(Same, CallIds, Of)
    BY PartsMake DEF Makes, Of, Same
<1>2. ASSUME NEW m \in TalkMessages PROVE ItemParts[m] = PartsBy(m, IdOf, Same) /\ ItemParts[m] = Replies!Items(m)
    <2>1. Same[m.id] = m.id
        BY MessagesHave DEF Same
    <2>2. PICK s \in Seq(CallType) : s = m.calls
        BY MessagesHave
    <2>3. \A k \in 1..Len(s) : IdOf[s[k]] = s[k].id
        BY ElementOfSeq DEF IdOf
    <2>4. [k \in 1..Len(s) |-> Replies!Item("call", IdOf[s[k]])] =
          [k \in 1..Len(s) |-> Replies!Item("call", s[k].id)]
        BY <2>3
    <2>5. Replies!Items(m) = PartsBy(m, IdOf, Same)
        BY <2>1, <2>2, <2>4, Zenon DEF PartsBy, Replies!Items
    <2> QED BY <2>5 DEF ItemParts
<1> QED BY <1>1, <1>2 DEF Of

LEMMA ResponsesIs ==
    ASSUME NEW h \in Seq(TalkMessages)
    PROVE  Replies!ResponsesItems(h) = Spread(ItemParts, h)
<1>1. PICK n \in Nat : n = Len(h) /\ \A i \in 1..n : h[i] \in TalkMessages
    BY LenProperties
<1>2. \A i \in 1..n : ItemParts[h[i]] = Replies!Items(h[i])
    BY <1>1 DEF ItemParts
<1>3. [i \in 1..n |-> Replies!Items(h[i])] = [i \in 1..n |-> ItemParts[h[i]]]
    BY <1>2
<1> QED BY <1>1, <1>3 DEF Replies!ResponsesItems, Spread

LEMMA ItemsMatch ==
    ASSUME NEW h \in Seq(TalkMessages), Matched(h)
    PROVE  Called(Spread(ItemParts, h)) = Answered(Spread(ItemParts, h))
<1>1. /\ Called(Spread(ItemParts, h)) = Over(IdOf, Spread(CallsOf, h))
      /\ Answered(Spread(ItemParts, h)) = Over(Same, Spread(ResultsOf, h))
    <2>1. Parted(ItemParts, IdOf, Same)
        BY ItemsAre DEF Parted
    <2>2. Naming(Of, IdOf, Same)
        BY ItemsAre DEF Naming
    <2> QED BY <2>1, <2>2, RequestIs
<1>2. PICK s \in Seq(CallIds) : s = Spread(ResultsOf, h)
    BY PartsMake, SpreadIsSeq
<1>3. Over(Same, s) = s
    <2>1. PICK n \in Nat : n = Len(s) /\ s \in [1..n -> CallIds]
        BY LenProperties
    <2>2. \A i \in 1..n : Same[s[i]] = s[i]
        BY <2>1 DEF Same
    <2>3. s = [i \in 1..n |-> s[i]]
        BY <2>1
    <2> QED BY <2>1, <2>2, <2>3 DEF Over
<1> QED BY <1>1, <1>2, <1>3 DEF Matched

(* The names of the calls of a history.                                    *)
NamedAlike(s) ==
    \A i, j \in 1..Len(s) : s[i].id = s[j].id => s[i].name = s[j].name

LEMMA AllCallsAre ==
    ASSUME NEW h \in Seq(TalkMessages)
    PROVE  Replies!AllCalls(h) = Spread(CallsOf, h)
<1>1. PICK n \in Nat : n = Len(h) /\ \A i \in 1..n : h[i] \in TalkMessages
    BY LenProperties
<1>2. \A i \in 1..n : CallsOf[h[i]] = h[i].calls
    BY <1>1 DEF CallsOf
<1>3. [i \in 1..n |-> h[i].calls] = [i \in 1..n |-> CallsOf[h[i]]]
    BY <1>2
<1> QED BY <1>1, <1>3 DEF Replies!AllCalls, Spread

LastOf(all, id, n) ==
    /\ n \in DOMAIN all /\ all[n].id = id
    /\ \A m \in DOMAIN all : all[m].id = id => m <= n

LEMMA CallNameIs ==
    ASSUME NEW h \in Seq(TalkMessages), NEW s \in Seq(CallType), s = Spread(CallsOf, h), NamedAlike(s),
           NEW i \in 1..Len(s)
    PROVE  Replies!CallName(h, s[i].id) = s[i].name
<1>1. PICK n \in Nat : n = Len(s) /\ DOMAIN s = 1..n
    BY LenProperties
<1>2. PICK id : id = s[i].id
    OBVIOUS
<1> DEFINE N == {m \in 1..n : s[m].id = id}
<1>3. i \in N /\ N \subseteq 0..n
    BY <1>1, <1>2
<1>4. PICK top \in N : \A m \in N : m <= top
    <2> HIDE DEF N
    <2> QED BY <1>3, HasGreatest
<1>5. LastOf(s, id, top)
    BY <1>1, <1>4 DEF LastOf
<1>6. PICK latest : latest = CHOOSE m : LastOf(s, id, m)
    OBVIOUS
<1>7. LastOf(s, id, latest)
    BY <1>5, <1>6, Zenon
<1>8. latest \in 1..Len(s) /\ s[latest].id = s[i].id
    BY <1>1, <1>2, <1>7 DEF LastOf
<1>9. s[latest].name = s[i].name
    BY <1>8 DEF NamedAlike
<1>10. Replies!CallName(h, id) = s[CHOOSE m : LastOf(s, id, m)].name
    <2>1. Replies!AllCalls(h) = s
        BY AllCallsAre
    <2>2. Replies!CallName(h, id) =
          s[CHOOSE m \in DOMAIN s : s[m].id = id /\ \A k \in DOMAIN s : s[k].id = id => k <= m].name
        BY <2>1, Zenon DEF Replies!CallName
    <2> QED BY <2>2, Zenon DEF LastOf
<1> QED BY <1>2, <1>6, <1>9, <1>10

GoogleOf(h) == [i \in CallIds |-> Replies!CallName(h, i)]
GoogleTypes(h) == Roles \cup ToolNames \cup {Replies!CallName(h, i) : i \in CallIds}
GoogleMade(h) == [m \in TalkMessages |-> Replies!GoogleParts(m, h)]

LEMMA GoogleIs ==
    ASSUME NEW h \in Seq(TalkMessages)
    PROVE  Replies!GoogleContents(h) = Spread(GoogleMade(h), h)
<1>1. PICK n \in Nat : n = Len(h) /\ \A i \in 1..n : h[i] \in TalkMessages
    BY LenProperties
<1>2. \A i \in 1..n : GoogleMade(h)[h[i]] = Replies!GoogleParts(h[i], h)
    BY <1>1 DEF GoogleMade
<1>3. [i \in 1..n |-> Replies!GoogleParts(h[i], h)] = [i \in 1..n |-> GoogleMade(h)[h[i]]]
    BY <1>2
<1> QED BY <1>1, <1>3 DEF Replies!GoogleContents, Spread

LEMMA GoogleMatch ==
    ASSUME NEW h \in Seq(TalkMessages), Matched(h), NamedAlike(Spread(CallsOf, h))
    PROVE  Called(Replies!GoogleContents(h)) = Answered(Replies!GoogleContents(h))
<1>1. PICK O : O = GoogleTypes(h)
    OBVIOUS
<1>2. PICK b : b = GoogleOf(h)
    OBVIOUS
<1>3. Roles \subseteq O /\ Makes(NameOf, CallType, O) /\ Makes(b, CallIds, O)
    BY <1>1, <1>2, PartsMake DEF Makes, GoogleTypes, GoogleOf
<1>4. ASSUME NEW m \in TalkMessages PROVE GoogleMade(h)[m] = PartsBy(m, NameOf, b)
    <2>1. b[m.id] = Replies!CallName(h, m.id)
        BY <1>2, MessagesHave DEF GoogleOf
    <2>2. PICK s \in Seq(CallType) : s = m.calls
        BY MessagesHave
    <2>3. \A k \in 1..Len(s) : NameOf[s[k]] = s[k].name
        BY ElementOfSeq DEF NameOf
    <2>4. [k \in 1..Len(s) |-> Replies!Item("call", NameOf[s[k]])] =
          [k \in 1..Len(s) |-> Replies!Item("call", s[k].name)]
        BY <2>3
    <2>5. Replies!GoogleParts(m, h) = PartsBy(m, NameOf, b)
        BY <2>1, <2>2, <2>4, Zenon DEF PartsBy, Replies!GoogleParts
    <2> QED BY <2>5 DEF GoogleMade
<1>5. PICK parts : parts = GoogleMade(h)
    OBVIOUS
<1>6. /\ Called(Spread(parts, h)) = Over(NameOf, Spread(CallsOf, h))
      /\ Answered(Spread(parts, h)) = Over(b, Spread(ResultsOf, h))
    <2>1. Parted(parts, NameOf, b)
        BY <1>4, <1>5 DEF Parted
    <2>2. Naming(O, NameOf, b)
        BY <1>3 DEF Naming
    <2> QED BY <2>1, <2>2, RequestIs
<1>7. PICK s \in Seq(CallType) : s = Spread(CallsOf, h)
    BY PartsMake, SpreadIsSeq
<1>8. PICK n \in Nat : n = Len(s) /\ \A i \in 1..n : s[i] \in CallType
    BY LenProperties
<1>9. PICK r : r = Over(IdOf, s) /\ Len(r) = n /\ \A i \in 1..n : r[i] = IdOf[s[i]]
    <2>1. Len(Over(IdOf, s)) = Len(s) /\ \A i \in 1..Len(s) : Over(IdOf, s)[i] = IdOf[s[i]]
        BY PartsMake, OverIs
    <2> QED BY <1>8, <2>1
<1>10. ASSUME NEW i \in 1..n PROVE NameOf[s[i]] = b[r[i]]
    <2>1. s[i] \in CallType /\ r[i] = s[i].id /\ NameOf[s[i]] = s[i].name
        BY <1>8, <1>9 DEF IdOf, NameOf
    <2>2. s[i].id \in CallIds
        BY <2>1 DEF CallType
    <2>3. b[r[i]] = Replies!CallName(h, s[i].id)
        BY <1>2, <2>1, <2>2 DEF GoogleOf
    <2> QED BY <1>7, <1>8, <2>1, <2>3, CallNameIs
<1>11. Over(NameOf, s) = Over(b, r)
    BY <1>8, <1>9, <1>10 DEF Over
<1>12. r = Spread(ResultsOf, h)
    BY <1>7, <1>9 DEF Matched
<1>13. Replies!GoogleContents(h) = Spread(parts, h)
    BY <1>5, GoogleIs
<1> QED BY <1>6, <1>7, <1>11, <1>12, <1>13

(* The messages of Anthropic's protocol.                                   *)
AnItem == ItemsOf(Of)
Entries == [role : {"user", "assistant"}, content : Seq(AnItem)]
ContentOf == [e \in Entries |-> e.content]

SpeaksAs(m) == IF m.role = "assistant" THEN "assistant" ELSE "user"
Appended(list, m) == Replies!AppendContent(list, SpeaksAs(m), Replies!Items(m))

LEMMA MessageIs ==
    ASSUME NEW m \in TalkMessages
    PROVE  Replies!Items(m) \in Seq(AnItem) /\ SpeaksAs(m) \in {"user", "assistant"}
<1>1. PartsBy(m, IdOf, Same) \in Seq(ItemsOf(Of))
    BY ItemsAre, PartsHave
<1> QED BY <1>1, ItemsAre DEF AnItem, SpeaksAs

(* What joining content to a list makes of it.                             *)
Opens(list, e) == list = <<>> \/ list[Len(list)].role # e.role
JoinsLast(to, before, e, n) ==
    /\ Len(to) = n /\ \A i \in 1..(n - 1) : to[i] = before[i]
    /\ to[n].role = e.role /\ to[n].content = before[n].content \o e.content

LEMMA AppendContentIs ==
    ASSUME NEW list \in Seq(Entries), NEW e \in Entries
    PROVE  /\ e.content = <<>> => Replies!AppendContent(list, e.role, e.content) = list
           /\ (e.content # <<>> /\ Opens(list, e)) =>
                 Replies!AppendContent(list, e.role, e.content) = Append(list, e)
           /\ (e.content # <<>> /\ ~Opens(list, e)) =>
                 \E to \in Seq(Entries) :
                    /\ Replies!AppendContent(list, e.role, e.content) = to
                    /\ JoinsLast(to, list, e, Len(list))
<1>1. PICK role, content : role = e.role /\ content = e.content /\ e = [role |-> role, content |-> content]
                           /\ content \in Seq(AnItem)
    BY DEF Entries
<1>2. PICK n \in Nat : n = Len(list) /\ DOMAIN list = 1..n /\ \A i \in 1..n : list[i] \in Entries
    BY LenProperties
<1>3. ASSUME content # <<>>, Opens(list, e)
      PROVE  Replies!AppendContent(list, role, content) = Append(list, e)
    <2>1. ~(list # <<>> /\ list[Len(list)].role = role)
        BY <1>1, <1>3 DEF Opens
    <2> QED BY <1>1, <1>3, <2>1, Zenon DEF Replies!AppendContent
<1>4. ASSUME content # <<>>, ~Opens(list, e)
      PROVE  \E to \in Seq(Entries) :
                /\ Replies!AppendContent(list, role, content) = to
                /\ JoinsLast(to, list, e, n)
    <2>1. list # <<>> /\ list[n].role = role /\ n > 0
        BY <1>1, <1>2, <1>4, EmptySeq DEF Opens
    <2>2. list[n] \in Entries
        BY <1>2, <2>1
    <2>3. PICK old \in Entries : old = list[n]
        BY <2>2
    <2>4. old.content \o content \in Seq(AnItem)
        BY <1>1, Joining DEF Entries
    <2>5. PICK latest \in Entries : latest = [old EXCEPT !.content = old.content \o content]
        BY <2>4 DEF Entries
    <2>6. latest.role = role /\ latest.content = old.content \o content
        BY <2>1, <2>3, <2>5 DEF Entries
    <2>7. PICK to : to = [list EXCEPT ![n] = latest]
        OBVIOUS
    <2>8. to \in Seq(Entries) /\ Len(to) = n /\ to[n] = latest /\ \A i \in 1..(n - 1) : to[i] = list[i]
        <3>1. n \in 1..n
            BY <2>1
        <3>2. to \in Seq(Entries) /\ Len(to) = n
            BY <1>2, <2>7, <3>1, ExceptSeq
        <3>3. to[n] = latest /\ \A i \in 1..(n - 1) : to[i] = list[i]
            BY <1>2, <2>7, <3>1
        <3> QED BY <3>2, <3>3
    <2>9. Replies!AppendContent(list, role, content) = [list EXCEPT ![n].content = @ \o content]
        BY <1>2, <1>4, <2>1, Zenon DEF Replies!AppendContent
    <2>10. [list EXCEPT ![n].content = @ \o content] = to
        BY <2>3, <2>5, <2>7
    <2>11. JoinsLast(to, list, e, n)
        BY <1>1, <2>3, <2>6, <2>8 DEF JoinsLast
    <2> QED BY <2>8, <2>9, <2>10, <2>11
<1>5. content = <<>> => Replies!AppendContent(list, role, content) = list
    BY Zenon DEF Replies!AppendContent
<1> QED BY <1>1, <1>2, <1>3, <1>4, <1>5

HeldIn(list) == Spread(ContentOf, list)

LEMMA HeldInIs ==
    ASSUME NEW list \in Seq(Entries)
    PROVE  Replies!Contents(list) = HeldIn(list)
<1>1. PICK n \in Nat : n = Len(list) /\ \A i \in 1..n : list[i] \in Entries
    BY LenProperties
<1>2. \A i \in 1..n : ContentOf[list[i]] = list[i].content
    BY <1>1 DEF ContentOf
<1>3. [i \in 1..n |-> list[i].content] = [i \in 1..n |-> ContentOf[list[i]]]
    BY <1>2
<1> QED BY <1>1, <1>3 DEF Replies!Contents, HeldIn, Spread

LEMMA ContentsMake == Makes(ContentOf, Entries, Seq(AnItem))
BY DEF Makes, ContentOf, Entries

LEMMA ContentsGrow ==
    ASSUME NEW list \in Seq(Entries), NEW e \in Entries
    PROVE  /\ Replies!AppendContent(list, e.role, e.content) \in Seq(Entries)
           /\ HeldIn(Replies!AppendContent(list, e.role, e.content)) = HeldIn(list) \o e.content
<1>1. PICK all \in Seq(AnItem) : all = HeldIn(list)
    BY ContentsMake, SpreadIsSeq DEF HeldIn
<1>2. e.content \in Seq(AnItem) /\ ContentOf[e] = e.content
    BY DEF Entries, ContentOf
<1>3. CASE e.content = <<>>
    BY <1>1, <1>3, AppendContentIs, NoneToJoined
<1>4. CASE e.content # <<>> /\ Opens(list, e)
    <2>1. Replies!AppendContent(list, e.role, e.content) = Append(list, e)
        BY <1>4, AppendContentIs
    <2>2. Append(list, e) \in Seq(Entries)
        OBVIOUS
    <2>3. HeldIn(Append(list, e)) = HeldIn(list) \o ContentOf[e]
        BY ContentsMake, SpreadMore DEF HeldIn
    <2> QED BY <1>2, <2>1, <2>2, <2>3
<1>5. CASE e.content # <<>> /\ ~Opens(list, e)
    <2>1. PICK to \in Seq(Entries) :
                /\ Replies!AppendContent(list, e.role, e.content) = to
                /\ JoinsLast(to, list, e, Len(list))
        BY <1>5, AppendContentIs
    <2>2. list # <<>>
        BY <1>5 DEF Opens
    <2>3. PICK front \in Seq(Entries), old \in Entries : list = Append(front, old)
        BY <2>2, SequenceEmptyOrAppend
    <2>4. PICK n \in Nat : n = Len(front)
        BY LenProperties
    <2>5. Longer(list, front, old, n)
        <3>1. PICK more \in Seq(Entries) : Longer(more, front, old, n)
            BY <2>4, OneMore
        <3>2. more = list
            BY <2>3, <3>1 DEF Longer
        <3> QED BY <3>1, <3>2
    <2>6. /\ Len(list) = n + 1 /\ list[n + 1] = old /\ \A i \in 1..n : list[i] = front[i]
        BY <2>5 DEF Longer
    <2>7. Len(to) = n + 1 /\ (\A i \in 1..n : to[i] = front[i])
          /\ to[n + 1].role = e.role /\ to[n + 1].content = old.content \o e.content
        <3>1. (n + 1) - 1 = n
            OBVIOUS
        <3> QED BY <2>1, <2>6, <3>1 DEF JoinsLast
    <2>8. PICK latest \in Entries : latest = to[n + 1]
        <3>1. n + 1 \in 1..Len(to)
            BY <2>7
        <3> QED BY <3>1, ElementOfSeq
    <2>9. to = Append(front, latest)
        <3>1. PICK more \in Seq(Entries) : Longer(more, front, latest, n)
            BY <2>4, OneMore
        <3>2. more = Append(front, latest) /\ Len(more) = n + 1 /\ more[n + 1] = latest
              /\ \A i \in 1..n : more[i] = front[i]
            BY <3>1 DEF Longer
        <3>3. ASSUME NEW i \in 1..(n + 1) PROVE to[i] = more[i]
            <4>1. i = n + 1 \/ i \in 1..n
                OBVIOUS
            <4> QED BY <2>7, <2>8, <3>2, <4>1
        <3> QED BY <2>7, <3>2, <3>3, SeqEqual
    <2>10. HeldIn(Append(front, latest)) = HeldIn(front) \o ContentOf[latest]
        BY ContentsMake, SpreadMore DEF HeldIn
    <2>11. HeldIn(Append(front, old)) = HeldIn(front) \o ContentOf[old]
        BY ContentsMake, SpreadMore DEF HeldIn
    <2>12. PICK a \in Seq(AnItem), b \in Seq(AnItem), c \in Seq(AnItem) :
              a = HeldIn(front) /\ b = old.content /\ c = e.content
        <3>1. HeldIn(front) \in Seq(AnItem)
            BY ContentsMake, SpreadIsSeq DEF HeldIn
        <3>2. old.content \in Seq(AnItem)
            BY DEF Entries
        <3> QED BY <1>2, <3>1, <3>2
    <2>13. (a \o b) \o c = a \o (b \o c)
        BY ConcatAssociative, SMTT(30)
    <2>14. ContentOf[latest] = b \o c /\ ContentOf[old] = b
        BY <2>7, <2>8, <2>12 DEF ContentOf
    <2> QED BY <2>1, <2>3, <2>9, <2>10, <2>11, <2>12, <2>13, <2>14
<1> QED BY <1>3, <1>4, <1>5

LEMMA AppendedIs ==
    ASSUME NEW list \in Seq(Entries), NEW m \in TalkMessages
    PROVE  /\ Appended(list, m) \in Seq(Entries)
           /\ HeldIn(Appended(list, m)) = HeldIn(list) \o Replies!Items(m)
<1>1. PICK e \in Entries : e = [role |-> SpeaksAs(m), content |-> Replies!Items(m)]
    BY MessageIs DEF Entries
<1>2. e.role = SpeaksAs(m) /\ e.content = Replies!Items(m)
    BY <1>1
<1> QED BY <1>2, ContentsGrow DEF Appended

-----------------------------------------------------------------------------
Listed(f, messages, n) == f[0] = <<>> /\ \A i \in 1..n : f[i] = Appended(f[i - 1], messages[i])
ListBy(f, messages) ==
    f = [n \in 0..Len(messages) |->
            IF n = 0 THEN <<>>
            ELSE Replies!AppendContent(f[n - 1],
                    IF messages[n].role = "assistant" THEN "assistant" ELSE "user",
                    Replies!Items(messages[n]))]

LEMMA ListIs ==
    ASSUME NEW messages
    PROVE  Replies!AnthropicMessages(messages) = (CHOOSE f : ListBy(f, messages))[Len(messages)]
BY Zenon DEF Replies!AnthropicMessages, ListBy

LEMMA ListFound ==
    ASSUME NEW h \in Seq(TalkMessages)
    PROVE  \E f \in [0..Len(h) -> Seq(Entries)] :
              Listed(f, h, Len(h)) /\ Replies!AnthropicMessages(h) = f[Len(h)]
<1> DEFINE W == Seq(Entries)
<1>1. PICK n \in Nat : n = Len(h) /\ \A i \in 1..n : h[i] \in TalkMessages
    BY LenProperties
<1>01. \A t \in W, m \in TalkMessages : Appended(t, m) \in W
    BY AppendedIs
<1>02. PICK z \in W : z = <<>>
    BY EmptySeq
<1> HIDE DEF W
<1> DEFINE F == [i \in 1..n |-> [t \in W |-> Appended(t, h[i])]]
<1>2. F \in [1..n -> [W -> W]] /\ \A i \in 1..n : \A t \in W : F[i][t] = Appended(t, h[i])
    BY <1>1, <1>01
<1> HIDE DEF F
<1>3. PICK f \in [0..n -> W] : Iterated(f, z, n, F)
    BY <1>2, IteratesTo
<1>4. f[0] = <<>> /\ \A i \in 1..n : f[i] = Appended(f[i - 1], h[i])
    <2>1. ASSUME NEW i \in 1..n PROVE f[i] = Appended(f[i - 1], h[i])
        <3>1. i - 1 \in 0..n
            OBVIOUS
        <3>2. f[i - 1] \in W
            BY <3>1
        <3> QED BY <1>2, <1>3, <3>2 DEF Iterated
    <2> QED BY <1>02, <1>3, <2>1 DEF Iterated
<1>5. \A g : ListBy(g, h) <=> g = [i \in 0..n |-> IF i = 0 THEN <<>> ELSE Appended(g[i - 1], h[i])]
    BY <1>1, Zenon DEF ListBy, Appended, SpeaksAs
<1>6. f = [i \in 0..n |-> IF i = 0 THEN <<>> ELSE Appended(f[i - 1], h[i])]
    <2>1. f = [i \in 0..n |-> f[i]]
        OBVIOUS
    <2>2. ASSUME NEW i \in 0..n PROVE f[i] = IF i = 0 THEN <<>> ELSE Appended(f[i - 1], h[i])
        <3>1. i # 0 => i \in 1..n
            OBVIOUS
        <3> QED BY <1>4, <3>1
    <2> QED BY <2>1, <2>2
<1>7. ListBy(f, h)
    BY <1>5, <1>6
<1>8. PICK g : g = CHOOSE k : ListBy(k, h)
    OBVIOUS
<1>9. ListBy(g, h)
    BY <1>7, <1>8, Zenon
<1>10. g[0] = <<>> /\ \A i \in 1..n : g[i] = Appended(g[i - 1], h[i])
    <2>1. 0 \in 0..n /\ \A i \in 1..n : i \in 0..n /\ i # 0
        OBVIOUS
    <2>2. g = [i \in 0..n |-> IF i = 0 THEN <<>> ELSE Appended(g[i - 1], h[i])]
        BY <1>5, <1>9
    <2> QED BY <2>1, <2>2
<1> DEFINE M == {m \in Nat : m <= n => g[m] = f[m]}
<1>11. 0 \in M
    BY <1>4, <1>10
<1>12. ASSUME NEW m \in Nat, m \in M PROVE m + 1 \in M
    <2> SUFFICES ASSUME m + 1 <= n PROVE g[m + 1] = f[m + 1]
        OBVIOUS
    <2>1. m + 1 \in 1..n /\ m <= n /\ (m + 1) - 1 = m
        OBVIOUS
    <2> QED BY <1>4, <1>10, <1>12, <2>1
<1>13. g[n] = f[n]
    <2> HIDE DEF M
    <2>1. n \in M
        BY <1>11, <1>12, InductionOverASet
    <2> QED BY <2>1 DEF M
<1>14. Replies!AnthropicMessages(h) = f[n]
    BY <1>1, <1>8, <1>13, ListIs
<1> QED BY <1>1, <1>4, <1>14 DEF Listed, W

LEMMA ListedAgree ==
    ASSUME NEW n \in Nat, NEW f, NEW g, NEW s, NEW t, Listed(f, s, n), Listed(g, t, n),
           \A i \in 1..n : s[i] = t[i]
    PROVE  f[n] = g[n]
<1> DEFINE M == {m \in Nat : m <= n => f[m] = g[m]}
<1>1. 0 \in M
    BY DEF Listed
<1>2. ASSUME NEW m \in Nat, m \in M PROVE m + 1 \in M
    <2> SUFFICES ASSUME m + 1 <= n PROVE f[m + 1] = g[m + 1]
        OBVIOUS
    <2>1. m + 1 \in 1..n /\ m <= n /\ (m + 1) - 1 = m
        OBVIOUS
    <2> QED BY <1>2, <2>1 DEF Listed
<1> HIDE DEF M
<1>3. n \in M
    BY <1>1, <1>2, InductionOverASet
<1> QED BY <1>3 DEF M

LEMMA ListMore ==
    ASSUME NEW h \in Seq(TalkMessages), NEW m \in TalkMessages
    PROVE  /\ Replies!AnthropicMessages(h) \in Seq(Entries)
           /\ Replies!AnthropicMessages(Append(h, m)) = Appended(Replies!AnthropicMessages(h), m)
<1> DEFINE W == Seq(Entries)
<1>1. PICK n \in Nat : n = Len(h)
    BY LenProperties
<1>2. PICK more \in Seq(TalkMessages) : Longer(more, h, m, n)
    BY <1>1, OneMore
<1>3. PICK f \in [0..n -> W] : Listed(f, h, n) /\ Replies!AnthropicMessages(h) = f[n]
    BY <1>1, ListFound
<1>4. Len(more) = n + 1
    BY <1>2 DEF Longer
<1>5. PICK g \in [0..(n + 1) -> W] :
        Listed(g, more, n + 1) /\ Replies!AnthropicMessages(more) = g[n + 1]
    BY <1>4, ListFound
<1>6. Listed(g, more, n)
    <2>1. \A i \in 1..n : i \in 1..(n + 1)
        OBVIOUS
    <2> QED BY <1>5, <2>1 DEF Listed
<1>7. \A i \in 1..n : more[i] = h[i]
    BY <1>2 DEF Longer
<1>8. f[n] = g[n]
    BY <1>3, <1>6, <1>7, ListedAgree
<1>9. g[n + 1] = Appended(g[n], more[n + 1])
    <2>1. n + 1 \in 1..(n + 1) /\ (n + 1) - 1 = n
        OBVIOUS
    <2> QED BY <1>5, <2>1 DEF Listed
<1>10. more = Append(h, m) /\ more[n + 1] = m
    BY <1>2 DEF Longer
<1>11. f[n] \in W
    BY <1>3
<1> QED BY <1>3, <1>5, <1>8, <1>9, <1>10, <1>11

LEMMA ListNone == Replies!AnthropicMessages(<<>>) = <<>>
<1>1. PICK h \in Seq(TalkMessages) : h = <<>> /\ Len(h) = 0
    BY EmptySeq
<1>2. PICK f : Listed(f, h, 0) /\ Replies!AnthropicMessages(h) = f[0]
    BY <1>1, ListFound
<1> QED BY <1>1, <1>2 DEF Listed

(* They hold what a flat list of items does.                               *)
LEMMA ListContents ==
    ASSUME NEW h \in Seq(TalkMessages)
    PROVE  HeldIn(Replies!AnthropicMessages(h)) = Spread(ItemParts, h)
<1> DEFINE k == [t \in Seq(TalkMessages) |-> HeldIn(Replies!AnthropicMessages(t))]
<1>1. \A t \in Seq(TalkMessages) : k[t] = HeldIn(Replies!AnthropicMessages(t))
    OBVIOUS
<1> HIDE DEF k
<1>2. k[<<>>] = <<>>
    BY <1>1, ListNone, SpreadEmpty, EmptySeq DEF HeldIn
<1>3. ASSUME NEW t \in Seq(TalkMessages), NEW m \in TalkMessages PROVE k[Append(t, m)] = k[t] \o ItemParts[m]
    <2>1. PICK list \in Seq(Entries) : list = Replies!AnthropicMessages(t)
        BY ListMore
    <2>2. PICK u \in Seq(TalkMessages) : u = Append(t, m)
        <3>1. Append(t, m) \in Seq(TalkMessages)
            BY AppendProperties
        <3> QED BY <3>1
    <2>3. Replies!AnthropicMessages(u) = Appended(list, m)
        BY <2>1, <2>2, ListMore
    <2>4. HeldIn(Appended(list, m)) = HeldIn(list) \o Replies!Items(m)
        BY AppendedIs
    <2>5. ItemParts[m] = Replies!Items(m)
        BY DEF ItemParts
    <2> QED BY <1>1, <2>1, <2>2, <2>3, <2>4, <2>5
<1>4. Makes(ItemParts, TalkMessages, Seq(AnItem))
    BY MessageIs DEF Makes, ItemParts
<1>5. SpreadBy(k, ItemParts, TalkMessages)
    BY <1>2, <1>3 DEF SpreadBy
<1>6. k[h] = Spread(ItemParts, h)
    BY <1>4, <1>5, OnlySpread
<1> QED BY <1>1, <1>6

(* A talk: the user's messages and the assistant's, by turns.              *)
Proper(x) ==
    /\ x.role = "user" => Called(x.content) = <<>>
    /\ x.role = "assistant" => Answered(x.content) = <<>>
Replied(x, y) == x.role # y.role /\ Called(x.content) = Answered(y.content)

Talk(list) ==
    /\ list # <<>> => list[1].role = "user"
    /\ \A i \in 1..(Len(list) - 1) : Replied(list[i], list[i + 1])
    /\ \A i \in 1..Len(list) : Proper(list[i])

AtRest(list) ==
    /\ Talk(list)
    /\ list # <<>> =>
          list[Len(list)].role = "assistant" /\ Called(list[Len(list)].content) = <<>>
Asking(list) == Talk(list) /\ list # <<>> /\ list[Len(list)].role = "user"

Ends(to, list, x) == \E n \in Nat : Longer(to, list, x, n) /\ n = Len(list)

LEMMA EndsIs ==
    ASSUME NEW list \in Seq(Entries), NEW x \in Entries
    PROVE  \E to \in Seq(Entries) : to = Append(list, x) /\ Ends(to, list, x)
<1>1. PICK n \in Nat : n = Len(list)
    BY LenProperties
<1>2. PICK to \in Seq(Entries) : Longer(to, list, x, n)
    BY <1>1, OneMore
<1> QED BY <1>1, <1>2 DEF Longer, Ends

LEMMA TalkMore ==
    ASSUME NEW list \in Seq(Entries), NEW x \in Entries, NEW to, Ends(to, list, x),
           Talk(list), Proper(x), list = <<>> => x.role = "user",
           list # <<>> => Replied(list[Len(list)], x)
    PROVE  Talk(to) /\ to # <<>> /\ to[Len(to)] = x
<1>1. PICK n \in Nat : Longer(to, list, x, n) /\ n = Len(list)
    BY DEF Ends
<1>2. to # <<>> /\ Len(to) = n + 1 /\ to[n + 1] = x /\ \A i \in 1..n : to[i] = list[i]
    BY <1>1 DEF Longer
<1>3. list = <<>> <=> n = 0
    BY <1>1, EmptySeq
<1>4. to[1].role = "user"
    <2>1. CASE n = 0
        BY <1>2, <1>3, <2>1
    <2>2. CASE n # 0
        <3>1. 1 \in 1..n /\ list # <<>>
            BY <1>3, <2>2
        <3> QED BY <1>2, <3>1 DEF Talk
    <2> QED BY <2>1, <2>2
<1>5. ASSUME NEW i \in 1..n PROVE Replied(to[i], to[i + 1])
    <2>1. CASE i = n
        <3>1. list # <<>> /\ to[i] = list[n] /\ to[i + 1] = x
            BY <1>2, <1>3, <2>1
        <3> QED BY <1>1, <3>1
    <2>2. CASE i # n
        <3>1. i \in 1..(n - 1) /\ i + 1 \in 1..n
            BY <2>2
        <3>2. to[i] = list[i] /\ to[i + 1] = list[i + 1]
            BY <1>2, <3>1
        <3>3. Replied(list[i], list[i + 1])
            BY <1>1, <3>1 DEF Talk
        <3> QED BY <3>2, <3>3
    <2> QED BY <2>1, <2>2
<1>6. ASSUME NEW i \in 1..(n + 1) PROVE Proper(to[i])
    <2>1. CASE i = n + 1
        BY <1>2, <2>1
    <2>2. CASE i # n + 1
        <3>1. i \in 1..n
            BY <2>2
        <3>2. to[i] = list[i] /\ Proper(list[i])
            BY <1>1, <1>2, <3>1 DEF Talk
        <3> QED BY <3>2
    <2> QED BY <2>1, <2>2
<1>7. (n + 1) - 1 = n
    OBVIOUS
<1> QED BY <1>2, <1>4, <1>5, <1>6, <1>7 DEF Talk

LEMMA MessageCalls ==
    ASSUME NEW m \in TalkMessages
    PROVE  /\ Called(Replies!Items(m)) = Over(IdOf, m.calls)
           /\ m.calls = <<>> => Called(Replies!Items(m)) = <<>>
           /\ m.role # "tool" => Answered(Replies!Items(m)) = <<>>
           /\ m.text /\ m.role # "tool" => Replies!Items(m) # <<>>
           /\ m.calls # <<>> => Replies!Items(m) # <<>>
<1>1. PICK p \in Seq(AnItem) : p = Replies!Items(m)
    BY MessageIs
<1>2. Called(p) = Spread(CallItems(Of), p) /\ Answered(p) = Spread(ResultItems(Of), p)
    BY SelectedAre DEF AnItem
<1>3. p = PartsBy(m, IdOf, Same)
    BY <1>1, ItemsAre
<1>4. /\ Spread(CallItems(Of), PartsBy(m, IdOf, Same)) = Over(IdOf, m.calls)
      /\ Spread(ResultItems(Of), PartsBy(m, IdOf, Same)) = Over(Same, ResultsOf[m])
    BY ItemsAre, PartsHave
<1>5. m.calls = <<>> => Over(IdOf, m.calls) = <<>>
    BY DEF Over
<1>6. m.role # "tool" => Over(Same, ResultsOf[m]) = <<>>
    BY DEF Over, ResultsOf
<1>7. (m.text /\ m.role # "tool") \/ m.calls # <<>> => p # <<>>
    <2> SUFFICES ASSUME (m.text /\ m.role # "tool") \/ m.calls # <<>> PROVE p # <<>>
        OBVIOUS
    <2>1. m.role # "tool"
        BY MessagesHave
    <2>2. PICK s \in Seq(CallType) : s = m.calls
        BY MessagesHave
    <2>3. p = Replies!Texts(m) \o [k \in 1..Len(s) |-> Replies!Item("call", IdOf[s[k]])]
        BY <1>3, <2>1, <2>2, Zenon DEF PartsBy
    <2>4. [k \in 1..Len(s) |-> Replies!Item("call", IdOf[s[k]])] = Over(CallItem(IdOf), s)
        <3>1. PICK n \in Nat : n = Len(s) /\ \A k \in 1..n : s[k] \in CallType
            BY LenProperties
        <3>2. \A k \in 1..n : CallItem(IdOf)[s[k]] = Replies!Item("call", IdOf[s[k]])
            BY <3>1 DEF CallItem
        <3> QED BY <3>1, <3>2 DEF Over
    <2>5. PICK u \in Seq(AnItem) : u = Over(CallItem(IdOf), s) /\ Len(u) = Len(s)
        <3>1. Over(CallItem(IdOf), s) \in Seq(AnItem)
            BY ItemsAre, CallsAre DEF AnItem
        <3>2. Len(Over(CallItem(IdOf), s)) = Len(s)
            <4>1. PICK n \in Nat : n = Len(s)
                BY LenProperties
            <4> QED BY <4>1 DEF Over
        <3> QED BY <3>1, <3>2
    <2>6. PICK t \in Seq(AnItem) : t = Replies!Texts(m)
        BY ItemsAre, TextsAre DEF AnItem
    <2>7. Len(t \o u) = Len(t) + Len(u) /\ t \o u \in Seq(AnItem)
        BY ConcatProperties
    <2>8. Len(t) \in Nat /\ Len(u) \in Nat
        BY LenProperties
    <2>9. m.text => Len(t) = 1
        <3>1. m.text => t = <<Replies!Item("text", m.role)>>
            BY <2>6, Zenon DEF Replies!Texts
        <3> QED BY <3>1
    <2>10. m.calls # <<>> => Len(u) # 0
        BY <2>2, <2>5, EmptySeq
    <2>11. Len(t \o u) # 0
        <3>1. PICK k \in Nat, l \in Nat : k = Len(t) /\ l = Len(u)
            BY <2>8
        <3>2. k # 0 \/ l # 0
            <4>1. CASE m.text
                BY <4>1, <2>9, <3>1
            <4>2. CASE m.calls # <<>>
                BY <4>2, <2>10, <3>1
            <4> QED BY <4>1, <4>2
        <3>3. Len(t \o u) = k + l
            BY <2>7, <3>1
        <3> QED BY <3>2, <3>3
    <2> QED BY <2>3, <2>4, <2>5, <2>6, <2>11
<1> QED BY <1>1, <1>2, <1>3, <1>4, <1>5, <1>6, <1>7

EntryOf(m) == [role |-> SpeaksAs(m), content |-> Replies!Items(m)]

LEMMA EntryIs ==
    ASSUME NEW m \in TalkMessages
    PROVE  /\ EntryOf(m) \in Entries /\ EntryOf(m).role = SpeaksAs(m)
           /\ EntryOf(m).content = Replies!Items(m)
           /\ m.role # "tool" => Proper(EntryOf(m)) /\ EntryOf(m).role = m.role
<1>1. EntryOf(m) \in Entries /\ EntryOf(m).role = SpeaksAs(m) /\ EntryOf(m).content = Replies!Items(m)
    BY MessageIs DEF EntryOf, Entries
<1>2. SpeaksAs(m) = "assistant" <=> m.role = "assistant"
    BY MessagesHave DEF SpeaksAs
<1>3. m.role # "assistant" => SpeaksAs(m) = "user"
    BY DEF SpeaksAs
<1>4. m.role # "tool" => Proper(EntryOf(m))
    BY <1>1, <1>2, <1>3, MessageCalls, MessagesHave DEF Proper
<1>5. m.role # "tool" => SpeaksAs(m) = m.role
    BY MessagesHave DEF SpeaksAs, Roles
<1> QED BY <1>1, <1>4, <1>5

(* A message that opens a new entry.                                       *)
LEMMA Speaks ==
    ASSUME NEW list \in Seq(Entries), NEW m \in TalkMessages, Replies!Items(m) # <<>>,
           list # <<>> => list[Len(list)].role # SpeaksAs(m)
    PROVE  /\ Appended(list, m) \in Seq(Entries)
           /\ Ends(Appended(list, m), list, EntryOf(m))
<1>1. PICK x \in Entries : x = EntryOf(m) /\ x.role = SpeaksAs(m) /\ x.content = Replies!Items(m)
    BY EntryIs
<1>2. Opens(list, x) /\ x.content # <<>>
    BY <1>1 DEF Opens
<1>3. Replies!AppendContent(list, x.role, x.content) = Append(list, x)
    BY <1>2, AppendContentIs
<1>4. PICK to \in Seq(Entries) : to = Append(list, x) /\ Ends(to, list, x)
    BY EndsIs
<1> QED BY <1>1, <1>3, <1>4 DEF Appended

LEMMA AskTalks ==
    ASSUME NEW h \in Seq(TalkMessages), AtRest(Replies!AnthropicMessages(h)),
           NEW m \in TalkMessages, m.role = "user", m.text
    PROVE  Asking(Replies!AnthropicMessages(Append(h, m)))
<1>1. PICK list \in Seq(Entries) : list = Replies!AnthropicMessages(h)
    BY ListMore
<1>2. Replies!AnthropicMessages(Append(h, m)) = Appended(list, m)
    BY <1>1, ListMore
<1>3. SpeaksAs(m) = "user" /\ m.calls = <<>>
    BY MessagesHave DEF SpeaksAs
<1>4. PICK x \in Entries : x = EntryOf(m) /\ Proper(x) /\ x.role = "user" /\ x.content = Replies!Items(m)
    BY <1>3, EntryIs
<1>5. Replies!Items(m) # <<>> /\ Answered(x.content) = <<>>
    BY <1>4, MessageCalls
<1>6. Talk(list) /\ (list # <<>> => list[Len(list)].role = "assistant" /\ Called(list[Len(list)].content) = <<>>)
    BY <1>1 DEF AtRest
<1>7. list # <<>> => list[Len(list)].role # SpeaksAs(m)
    BY <1>3, <1>6
<1>8. PICK to \in Seq(Entries) : to = Appended(list, m) /\ Ends(to, list, x)
    BY <1>4, <1>5, <1>7, Speaks
<1>9. list # <<>> => Replied(list[Len(list)], x)
    BY <1>4, <1>5, <1>6 DEF Replied
<1>10. Talk(to) /\ to # <<>> /\ to[Len(to)] = x
    BY <1>4, <1>6, <1>8, <1>9, TalkMore
<1> QED BY <1>2, <1>4, <1>8, <1>10 DEF Asking

(* An answer of the assistant, with calls or without.                      *)
LEMMA AnswerTalks ==
    ASSUME NEW h \in Seq(TalkMessages), Asking(Replies!AnthropicMessages(h)),
           NEW m \in TalkMessages, m.role = "assistant", m.text \/ m.calls # <<>>
    PROVE  \E list \in Seq(Entries) :
              /\ list = Replies!AnthropicMessages(Append(h, m))
              /\ Talk(list) /\ list # <<>> /\ list[Len(list)] = EntryOf(m)
<1>1. PICK list \in Seq(Entries) : list = Replies!AnthropicMessages(h)
    BY ListMore
<1>2. Replies!AnthropicMessages(Append(h, m)) = Appended(list, m)
    BY <1>1, ListMore
<1>3. SpeaksAs(m) = "assistant"
    BY DEF SpeaksAs
<1>4. PICK x \in Entries : x = EntryOf(m) /\ Proper(x) /\ x.role = "assistant" /\ x.content = Replies!Items(m)
    BY <1>3, EntryIs
<1>5. Replies!Items(m) # <<>> /\ Answered(x.content) = <<>>
    BY <1>4, MessageCalls
<1>6. Talk(list) /\ list # <<>> /\ list[Len(list)].role = "user"
    BY <1>1 DEF Asking
<1>7. list[Len(list)].role # SpeaksAs(m)
    BY <1>3, <1>6
<1>8. PICK to \in Seq(Entries) : to = Appended(list, m) /\ Ends(to, list, x)
    BY <1>4, <1>5, <1>7, Speaks
<1>9. Replied(list[Len(list)], x)
    <2>1. Len(list) \in 1..Len(list)
        BY <1>6, EmptySeq
    <2>2. Proper(list[Len(list)])
        BY <1>6, <2>1 DEF Talk
    <2>3. Called(list[Len(list)].content) = <<>>
        BY <1>6, <2>2 DEF Proper
    <2> QED BY <1>4, <1>5, <1>6, <2>3 DEF Replied
<1>10. Talk(to) /\ to # <<>> /\ to[Len(to)] = x
    BY <1>4, <1>6, <1>8, <1>9, TalkMore
<1> QED BY <1>2, <1>4, <1>8, <1>10

LEMMA CompleteTalks ==
    ASSUME NEW h \in Seq(TalkMessages), Asking(Replies!AnthropicMessages(h)),
           NEW m \in TalkMessages, m.role = "assistant", m.text, m.calls = <<>>
    PROVE  AtRest(Replies!AnthropicMessages(Append(h, m)))
<1>1. PICK list \in Seq(Entries) :
              /\ list = Replies!AnthropicMessages(Append(h, m))
              /\ Talk(list) /\ list # <<>> /\ list[Len(list)] = EntryOf(m)
    BY AnswerTalks
<1>2. EntryOf(m).role = "assistant" /\ EntryOf(m).content = Replies!Items(m)
    BY EntryIs
<1>3. Called(Replies!Items(m)) = <<>>
    BY MessageCalls
<1> QED BY <1>1, <1>2, <1>3 DEF AtRest

(* The results of an answer's calls, in one entry that follows it.         *)
ToolOf == [c \in CallType |-> Replies!Tool(c.id)]
ResultItem == [c \in CallType |-> Replies!Item("result", c.id)]
Results(s) == [role |-> "user", content |-> Over(ResultItem, s)]

LEMMA ToolIs ==
    ASSUME NEW c \in CallType
    PROVE  /\ ToolOf[c] \in TalkMessages /\ ToolOf[c].role = "tool" /\ ToolOf[c].id = c.id
           /\ ToolOf[c].calls = <<>>
           /\ Replies!Items(ToolOf[c]) = <<ResultItem[c]>> /\ ResultItem[c] \in AnItem
           /\ ResultItem[c] = [kind |-> "result", of |-> c.id]
<1>1. PICK id \in CallIds : id = c.id
    BY DEF CallType
<1>2. Replies!NoId \in CallIds
    BY DEF Replies!NoId, CallIds
<1>3. ToolOf[c] = Replies!Tool(id)
    BY <1>1 DEF ToolOf
<1>4. Replies!Tool(id) = [role |-> "tool", text |-> TRUE, calls |-> <<>>, id |-> id]
    BY Zenon DEF Replies!Tool, Replies!Message
<1>5. ToolOf[c] \in TalkMessages /\ ToolOf[c].role = "tool" /\ ToolOf[c].id = c.id /\ ToolOf[c].calls = <<>>
    BY <1>1, <1>3, <1>4 DEF TalkMessages, Roles
<1>6. ResultItem[c] = [kind |-> "result", of |-> c.id]
    BY DEF ResultItem, Replies!Item
<1>7. ResultItem[c] \in AnItem
    BY <1>1, <1>6 DEF AnItem, ItemsOf, Of
<1>8. Replies!Items(ToolOf[c]) = <<ResultItem[c]>>
    <2>1. ResultItem[c] = Replies!Item("result", c.id)
        BY DEF ResultItem
    <2> QED BY <1>5, <2>1, Zenon DEF Replies!Items
<1> QED BY <1>5, <1>6, <1>7, <1>8

LEMMA ToolsMake ==
    Makes(ToolOf, CallType, TalkMessages) /\ Makes(ResultItem, CallType, AnItem)
BY ToolIs DEF Makes

LEMMA ResultsAre ==
    ASSUME NEW s \in Seq(CallType)
    PROVE  /\ Over(ResultItem, s) \in Seq(AnItem)
           /\ Called(Over(ResultItem, s)) = <<>>
           /\ Answered(Over(ResultItem, s)) = Over(IdOf, s)
<1> DEFINE ones == [c \in CallType |-> <<IdOf[c]>>]
           nones == [c \in CallType |-> <<>>]
<1>1. \A c \in CallType : nones[c] = <<>>
    OBVIOUS
<1>2. \A c \in CallType : ones[c] = <<IdOf[c]>>
    OBVIOUS
<1> HIDE DEF ones, nones
<1>3. ASSUME NEW c \in CallType
      PROVE  ones[c] = ResultItems(Of)[ResultItem[c]] /\ nones[c] = CallItems(Of)[ResultItem[c]]
    <2>1. PICK x \in ItemsOf(Of) : x = ResultItem[c] /\ x = [kind |-> "result", of |-> c.id]
        BY ToolIs DEF AnItem
    <2>2. x.kind = "result" /\ x.of = IdOf[c]
        BY <2>1 DEF IdOf
    <2>3. ResultItems(Of)[x] = <<x.of>> /\ CallItems(Of)[x] = <<>>
        BY <2>2 DEF CallItems, ResultItems
    <2> QED BY <1>1, <1>2, <2>1, <2>2, <2>3
<1>4. Makes(ones, CallType, Seq(Of)) /\ Makes(nones, CallType, Seq(Of))
    <2>1. ASSUME NEW c \in CallType PROVE ones[c] \in Seq(Of) /\ nones[c] \in Seq(Of)
        <3>1. PICK y \in Of : y = IdOf[c]
            BY ItemsAre DEF Makes
        <3>2. <<y>> \in Seq(Of) /\ <<>> \in Seq(Of)
            OBVIOUS
        <3> QED BY <1>1, <1>2, <3>1, <3>2
    <2> QED BY <2>1 DEF Makes
<1>5. PICK r \in Seq(AnItem) : r = Over(ResultItem, s)
    BY ToolsMake, OverIs
<1>6. Called(r) = Spread(CallItems(Of), r) /\ Answered(r) = Spread(ResultItems(Of), r)
    BY SelectedAre DEF AnItem
<1>7. Spread(ResultItems(Of), Over(ResultItem, s)) = Spread(ones, s)
    BY <1>3, ToolsMake, SpreadOver
<1>8. Spread(CallItems(Of), Over(ResultItem, s)) = Spread(nones, s)
    BY <1>3, ToolsMake, SpreadOver
<1>9. Spread(ones, s) = Over(IdOf, s)
    BY <1>2, <1>4, ItemsAre, SpreadOnes
<1>10. Spread(nones, s) = <<>>
    BY <1>1, <1>4, SpreadNone
<1> QED BY <1>5, <1>6, <1>7, <1>8, <1>9, <1>10

(* The list after the calls' message and the results of some of them.      *)
Added(list, h, s) ==
    IF s = <<>> THEN Replies!AnthropicMessages(h \o Over(ToolOf, s)) = list
    ELSE \E to \in Seq(Entries) :
            /\ to = Replies!AnthropicMessages(h \o Over(ToolOf, s))
            /\ Ends(to, list, Results(s))

LikeBut(b, a, n, y) ==
    /\ Len(a) = n + 1 /\ Len(b) = n + 1 /\ b[n + 1] = y
    /\ \A i \in 1..n : b[i] = a[i]

LEMMA EndsAlike ==
    ASSUME NEW list \in Seq(Entries), NEW a \in Seq(Entries), NEW b \in Seq(Entries),
           NEW x, NEW y, y \in Entries, Ends(a, list, x), NEW n \in Nat, LikeBut(b, a, n, y)
    PROVE  Ends(b, list, y)
<1>1. PICK m \in Nat : Longer(a, list, x, m) /\ m = Len(list)
    BY DEF Ends
<1>2. n = m /\ \A i \in 1..m : a[i] = list[i]
    BY <1>1 DEF Longer, LikeBut
<1>3. b[m + 1] = y /\ Len(b) = m + 1 /\ \A i \in 1..m : b[i] = list[i]
    BY <1>2 DEF LikeBut
<1>4. PICK t \in Seq(Entries) : Longer(t, list, y, m)
    BY <1>1, OneMore
<1>5. t # <<>> /\ t = Append(list, y) /\ Len(t) = m + 1 /\ t[m + 1] = y /\ \A i \in 1..m : t[i] = list[i]
    BY <1>4 DEF Longer
<1>6. ASSUME NEW i \in 1..(m + 1) PROVE b[i] = t[i]
    <2>1. i = m + 1 \/ i \in 1..m
        OBVIOUS
    <2> QED BY <1>3, <1>5, <2>1
<1>7. b = t
    BY <1>3, <1>5, <1>6, SeqEqual
<1> QED BY <1>1, <1>4, <1>7 DEF Ends

LEMMA OneResult ==
    ASSUME NEW s \in Seq(CallType), NEW c \in CallType
    PROVE  /\ Over(ResultItem, Append(s, c)) = Over(ResultItem, s) \o <<ResultItem[c]>>
           /\ s = <<>> => Over(ResultItem, Append(s, c)) = <<ResultItem[c]>>
<1>1. Over(ResultItem, Append(s, c)) = Append(Over(ResultItem, s), ResultItem[c])
    BY ToolsMake, OverMore
<1>2. Over(ResultItem, s) \in Seq(AnItem) /\ ResultItem[c] \in AnItem
    BY ResultsAre, ToolIs
<1>3. Append(Over(ResultItem, s), ResultItem[c]) = Over(ResultItem, s) \o <<ResultItem[c]>>
    BY <1>2, AppendIsConcat
<1>4. s = <<>> => Over(ResultItem, s) = <<>>
    BY DEF Over
<1>5. <<>> \o <<ResultItem[c]>> = <<ResultItem[c]>>
    <2>1. <<ResultItem[c]>> \in Seq(AnItem)
        BY <1>2
    <2> QED BY <2>1, NoneToJoined
<1> QED BY <1>1, <1>3, <1>4, <1>5

LEMMA ToolsAdded ==
    ASSUME NEW h \in Seq(TalkMessages), NEW list \in Seq(Entries), list = Replies!AnthropicMessages(h),
           list # <<>>, list[Len(list)].role = "assistant", NEW these \in Seq(CallType)
    PROVE  Added(list, h, these)
<1> DEFINE H == {s \in Seq(CallType) : Added(list, h, s)}
<1>1. <<>> \in H
    <2>1. Over(ToolOf, <<>>) = <<>>
        BY DEF Over
    <2>2. h \o <<>> = h
        BY NoneToJoined
    <2>3. Added(list, h, <<>>)
        BY <2>1, <2>2 DEF Added
    <2> QED BY <2>3, EmptySeq
<1>2. ASSUME NEW s \in Seq(CallType), NEW c \in CallType, s \in H PROVE Append(s, c) \in H
    <2>0. Added(list, h, s)
        BY <1>2
    <2> HIDE DEF H
    <2>1. PICK m \in TalkMessages : m = ToolOf[c]
        BY ToolIs
    <2>2. PICK g \in Seq(TalkMessages) : g = h \o Over(ToolOf, s)
        <3>1. Over(ToolOf, s) \in Seq(TalkMessages)
            BY ToolsMake, OverIs
        <3> QED BY <3>1, Joining
    <2>3. h \o Over(ToolOf, Append(s, c)) = Append(g, m)
        <3>1. Over(ToolOf, Append(s, c)) = Append(Over(ToolOf, s), ToolOf[c])
            BY ToolsMake, OverMore
        <3>2. PICK t \in Seq(TalkMessages) : t = Over(ToolOf, s)
            BY ToolsMake, OverIs
        <3>3. h \o Append(t, m) = Append(h \o t, m)
            BY AppendToJoined
        <3> QED BY <2>1, <2>2, <3>1, <3>2, <3>3
    <2>4. PICK before \in Seq(Entries) : before = Replies!AnthropicMessages(g)
        BY ListMore
    <2>5. Replies!AnthropicMessages(Append(g, m)) = Appended(before, m)
        BY <2>4, ListMore
    <2>6. SpeaksAs(m) = "user" /\ Replies!Items(m) = <<ResultItem[c]>> /\ <<ResultItem[c]>> \in Seq(AnItem)
        <3>1. m.role = "tool" /\ Replies!Items(m) = <<ResultItem[c]>> /\ ResultItem[c] \in AnItem
            BY <2>1, ToolIs
        <3> QED BY <3>1 DEF SpeaksAs
    <2>7. EntryOf(m).role = "user" /\ EntryOf(m).content = <<ResultItem[c]>> /\ EntryOf(m) \in Entries
        BY <2>6, EntryIs
    <2>8. Append(s, c) # <<>> /\ Append(s, c) \in Seq(CallType)
        BY AppendProperties
    <2>9. Results(Append(s, c)) \in Entries
        <3>1. PICK r \in Seq(AnItem) : r = Over(ResultItem, Append(s, c))
            BY <2>8, ResultsAre
        <3> QED BY <3>1 DEF Results, Entries
    <2>10. \E to \in Seq(Entries) : to = Appended(before, m) /\ Ends(to, list, Results(Append(s, c)))
        <3>1. CASE s = <<>>
            <4>1. before = list
                BY <2>0, <2>2, <2>4, <3>1 DEF Added
            <4>2. PICK to \in Seq(Entries) : to = Appended(list, m) /\ Ends(to, list, EntryOf(m))
                <5>1. Replies!Items(m) # <<>> /\ list[Len(list)].role # SpeaksAs(m)
                    BY <2>6
                <5> QED BY <5>1, Speaks
            <4>3. EntryOf(m) = Results(Append(s, c))
                BY <2>6, <3>1, OneResult DEF EntryOf, Results
            <4> QED BY <4>1, <4>2, <4>3
        <3>2. CASE s # <<>>
            <4>1. Ends(before, list, Results(s))
                BY <2>0, <2>2, <2>4, <3>2 DEF Added
            <4>2. PICK n \in Nat : n = Len(list) /\ Longer(before, list, Results(s), n)
                BY <4>1 DEF Ends
            <4>3. /\ before # <<>> /\ Len(before) = n + 1 /\ before[n + 1] = Results(s)
                  /\ \A i \in 1..n : before[i] = list[i]
                BY <4>2 DEF Longer
            <4>4. PICK e \in Entries : e = EntryOf(m) /\ e.role = "user" /\ e.content = <<ResultItem[c]>>
                BY <2>7
            <4>5. before[n + 1].role = "user" /\ before[n + 1].content = Over(ResultItem, s)
                BY <4>3 DEF Results
            <4>6. e.content # <<>> /\ ~Opens(before, e)
                BY <4>3, <4>4, <4>5 DEF Opens
            <4>7. PICK to \in Seq(Entries) :
                    /\ Replies!AppendContent(before, e.role, e.content) = to
                    /\ JoinsLast(to, before, e, Len(before))
                BY <4>6, AppendContentIs
            <4>8. to = Appended(before, m)
                BY <4>4, <4>7, EntryIs DEF Appended
            <4>9. /\ Len(to) = n + 1 /\ (\A i \in 1..n : to[i] = before[i]) /\ to[n + 1].role = "user"
                  /\ to[n + 1].content = Over(ResultItem, s) \o <<ResultItem[c]>>
                <5>1. (n + 1) - 1 = n
                    OBVIOUS
                <5> QED BY <4>3, <4>4, <4>5, <4>7, <5>1 DEF JoinsLast
            <4>10. PICK latest \in Entries : latest = to[n + 1]
                <5>1. n + 1 \in 1..Len(to)
                    BY <4>9
                <5> QED BY <5>1, ElementOfSeq
            <4>11. latest = Results(Append(s, c))
                <5>1. latest = [role |-> latest.role, content |-> latest.content]
                    BY DEF Entries
                <5> QED BY <4>9, <4>10, <5>1, OneResult DEF Results
            <4>12. Ends(to, list, latest)
                <5>1. Len(before) = n + 1 /\ Len(to) = n + 1 /\ to[n + 1] = latest
                    BY <4>3, <4>9, <4>10
                <5>2. \A i \in 1..n : to[i] = before[i]
                    BY <4>9
                <5>3. LikeBut(to, before, n, latest)
                    BY <5>1, <5>2 DEF LikeBut
                <5> QED BY <4>1, <5>3, EndsAlike
            <4> QED BY <4>8, <4>11, <4>12
        <3> QED BY <3>1, <3>2
    <2>11. Added(list, h, Append(s, c))
        <3>1. PICK u : u = Append(s, c) /\ u # <<>>
            BY <2>8
        <3>2. Replies!AnthropicMessages(h \o Over(ToolOf, u)) = Appended(before, m)
            BY <2>3, <2>5, <3>1
        <3>3. \E to \in Seq(Entries) :
                /\ to = Replies!AnthropicMessages(h \o Over(ToolOf, u))
                /\ Ends(to, list, Results(u))
            BY <2>10, <3>1, <3>2
        <3>4. Added(list, h, u)
            BY <3>1, <3>3 DEF Added
        <3> QED BY <3>1, <3>4
    <2> QED BY <2>8, <2>11 DEF H
<1> HIDE DEF H
<1>3. these \in H
    BY <1>1, <1>2, InductionOverSequences
<1> QED BY <1>3 DEF H

LEMMA RecordTalks ==
    ASSUME NEW h \in Seq(TalkMessages), Asking(Replies!AnthropicMessages(h)),
           NEW m \in TalkMessages, m.role = "assistant", m.calls # <<>>
    PROVE  Asking(Replies!AnthropicMessages(Append(h, m) \o Over(ToolOf, m.calls)))
<1>1. PICK list \in Seq(Entries) :
              /\ list = Replies!AnthropicMessages(Append(h, m))
              /\ Talk(list) /\ list # <<>> /\ list[Len(list)] = EntryOf(m)
    BY AnswerTalks
<1>2. EntryOf(m).role = "assistant" /\ EntryOf(m).content = Replies!Items(m)
    BY EntryIs
<1>3. PICK s \in Seq(CallType) : s = m.calls /\ s # <<>>
    BY MessagesHave
<1>4. PICK g \in Seq(TalkMessages) : g = Append(h, m)
    <2>1. Append(h, m) \in Seq(TalkMessages)
        BY AppendProperties
    <2> QED BY <2>1
<1>5. Added(list, g, s)
    BY <1>1, <1>2, <1>4, ToolsAdded
<1>6. PICK to \in Seq(Entries) :
            /\ to = Replies!AnthropicMessages(g \o Over(ToolOf, s))
            /\ Ends(to, list, Results(s))
    BY <1>3, <1>5 DEF Added
<1>7. PICK r \in Seq(AnItem) : r = Over(ResultItem, s) /\ Called(r) = <<>> /\ Answered(r) = Over(IdOf, s)
    BY ResultsAre
<1>8. PICK x \in Entries : x = Results(s) /\ x.role = "user" /\ x.content = r
    <2>1. Results(s) = [role |-> "user", content |-> r]
        BY <1>7 DEF Results
    <2>2. PICK e : e = [role |-> "user", content |-> r]
        OBVIOUS
    <2>3. e \in Entries /\ e.role = "user" /\ e.content = r
        BY <2>2 DEF Entries
    <2> QED BY <2>1, <2>2, <2>3
<1>9. Proper(x)
    BY <1>7, <1>8 DEF Proper
<1>10. Replied(list[Len(list)], x)
    <2>1. Called(Replies!Items(m)) = Over(IdOf, s)
        BY <1>3, MessageCalls
    <2> QED BY <1>1, <1>2, <1>7, <1>8, <2>1 DEF Replied
<1>11. Talk(to) /\ to # <<>> /\ to[Len(to)] = x
    BY <1>1, <1>6, <1>8, <1>9, <1>10, TalkMore
<1> QED BY <1>3, <1>4, <1>6, <1>8, <1>11 DEF Asking

LEMMA OverJoined ==
    ASSUME NEW S, NEW T, NEW f, Makes(f, T, S), NEW s \in Seq(T), NEW t \in Seq(T)
    PROVE  Over(f, s \o t) = Over(f, s) \o Over(f, t)
<1> DEFINE g == [x \in T |-> <<f[x]>>]
<1>1. \A x \in T : g[x] = <<f[x]>>
    OBVIOUS
<1> HIDE DEF g
<1>2. Makes(g, T, Seq(S))
    <2>1. ASSUME NEW x \in T PROVE g[x] \in Seq(S)
        <3>1. PICK y \in S : y = f[x]
            BY DEF Makes
        <3>2. <<y>> \in Seq(S)
            OBVIOUS
        <3> QED BY <1>1, <3>1, <3>2
    <2> QED BY <2>1 DEF Makes
<1>3. \A u \in Seq(T) : Spread(g, u) = Over(f, u)
    BY <1>1, <1>2, SpreadOnes
<1>4. s \o t \in Seq(T)
    BY Joining
<1>5. Spread(g, s \o t) = Spread(g, s) \o Spread(g, t)
    BY <1>2, SpreadJoined
<1> QED BY <1>3, <1>4, <1>5

Calls(h) == Spread(CallsOf, h)

LEMMA CallsJoined ==
    ASSUME NEW h \in Seq(TalkMessages), NEW g \in Seq(TalkMessages)
    PROVE  /\ Calls(h) \in Seq(CallType) /\ Spread(ResultsOf, h) \in Seq(CallIds)
           /\ Calls(h \o g) = Calls(h) \o Calls(g)
           /\ Spread(ResultsOf, h \o g) = Spread(ResultsOf, h) \o Spread(ResultsOf, g)
BY PartsMake, SpreadIsSeq, SpreadJoined DEF Calls

LEMMA IdsJoined ==
    ASSUME NEW a \in Seq(CallType), NEW b \in Seq(CallType)
    PROVE  Over(IdOf, a \o b) = Over(IdOf, a) \o Over(IdOf, b)
BY PartsMake, OverJoined

LEMMA MatchedJoined ==
    ASSUME NEW h \in Seq(TalkMessages), NEW g \in Seq(TalkMessages), Matched(h), Matched(g)
    PROVE  Matched(h \o g)
<1>1. /\ Calls(h) \in Seq(CallType) /\ Calls(g) \in Seq(CallType)
      /\ Calls(h \o g) = Calls(h) \o Calls(g)
      /\ Spread(ResultsOf, h \o g) = Spread(ResultsOf, h) \o Spread(ResultsOf, g)
    BY CallsJoined
<1>2. Over(IdOf, Calls(h) \o Calls(g)) = Over(IdOf, Calls(h)) \o Over(IdOf, Calls(g))
    BY <1>1, IdsJoined
<1> QED BY <1>1, <1>2 DEF Matched, Calls

(* A message that is not a result and has no calls changes neither.        *)
LEMMA PlainMessage ==
    ASSUME NEW h \in Seq(TalkMessages), NEW m \in TalkMessages, m.role # "tool"
    PROVE  /\ Append(h, m) \in Seq(TalkMessages)
           /\ Calls(Append(h, m)) = Calls(h) \o m.calls
           /\ Spread(ResultsOf, Append(h, m)) = Spread(ResultsOf, h)
           /\ m.calls = <<>> => Calls(Append(h, m)) = Calls(h)
           /\ m.calls = <<>> /\ Matched(h) => Matched(Append(h, m))
<1>1. CallsOf[m] = m.calls /\ ResultsOf[m] = <<>>
    BY DEF CallsOf, ResultsOf
<1>2. Calls(h) \in Seq(CallType) /\ Spread(ResultsOf, h) \in Seq(CallIds)
    BY CallsJoined
<1>3. Calls(Append(h, m)) = Calls(h) \o CallsOf[m]
    BY PartsMake, SpreadMore DEF Calls
<1>4. Spread(ResultsOf, Append(h, m)) = Spread(ResultsOf, h) \o ResultsOf[m]
    BY PartsMake, SpreadMore
<1>5. Spread(ResultsOf, h) \o <<>> = Spread(ResultsOf, h) /\ Calls(h) \o <<>> = Calls(h)
    BY <1>2, NoneToJoined
<1>6. Append(h, m) \in Seq(TalkMessages)
    BY AppendProperties
<1> QED BY <1>1, <1>3, <1>4, <1>5, <1>6 DEF Matched, Calls

LEMMA ToolsHave ==
    ASSUME NEW s \in Seq(CallType)
    PROVE  /\ Over(ToolOf, s) \in Seq(TalkMessages) /\ Calls(Over(ToolOf, s)) = <<>>
           /\ Spread(ResultsOf, Over(ToolOf, s)) = Over(IdOf, s)
<1> DEFINE ones == [c \in CallType |-> <<IdOf[c]>>]
           nones == [c \in CallType |-> <<>>]
<1>1. \A c \in CallType : nones[c] = <<>>
    OBVIOUS
<1>2. \A c \in CallType : ones[c] = <<IdOf[c]>>
    OBVIOUS
<1> HIDE DEF ones, nones
<1>3. ASSUME NEW c \in CallType
      PROVE  ones[c] = ResultsOf[ToolOf[c]] /\ nones[c] = CallsOf[ToolOf[c]]
    <2>1. PICK m \in TalkMessages : m = ToolOf[c] /\ m.role = "tool" /\ m.id = c.id /\ m.calls = <<>>
        BY ToolIs
    <2>2. ResultsOf[m] = <<m.id>> /\ CallsOf[m] = <<>>
        BY <2>1 DEF ResultsOf, CallsOf
    <2>3. IdOf[c] = c.id
        BY DEF IdOf
    <2> QED BY <1>1, <1>2, <2>1, <2>2, <2>3
<1>4. Makes(ones, CallType, Seq(CallIds)) /\ Makes(nones, CallType, Seq(CallType))
    <2>1. ASSUME NEW c \in CallType PROVE ones[c] \in Seq(CallIds) /\ nones[c] \in Seq(CallType)
        <3>1. PICK y \in CallIds : y = IdOf[c]
            BY PartsMake DEF Makes
        <3>2. <<y>> \in Seq(CallIds) /\ <<>> \in Seq(CallType)
            OBVIOUS
        <3> QED BY <1>1, <1>2, <3>1, <3>2
    <2> QED BY <2>1 DEF Makes
<1>5. Over(ToolOf, s) \in Seq(TalkMessages)
    BY ToolsMake, OverIs
<1>6. Spread(ResultsOf, Over(ToolOf, s)) = Spread(ones, s)
    BY <1>3, ToolsMake, SpreadOver
<1>7. Spread(CallsOf, Over(ToolOf, s)) = Spread(nones, s)
    BY <1>3, ToolsMake, SpreadOver
<1>8. Spread(ones, s) = Over(IdOf, s)
    BY <1>2, <1>4, PartsMake, SpreadOnes
<1>9. Spread(nones, s) = <<>>
    BY <1>1, <1>4, SpreadNone
<1> QED BY <1>5, <1>6, <1>7, <1>8, <1>9 DEF Calls

(* An answer with calls, and their results.                                *)
LEMMA AnswerMatches ==
    ASSUME NEW h \in Seq(TalkMessages), Matched(h), NEW m \in TalkMessages, m.role = "assistant"
    PROVE  /\ Append(h, m) \o Over(ToolOf, m.calls) \in Seq(TalkMessages)
           /\ Calls(Append(h, m) \o Over(ToolOf, m.calls)) = Calls(h) \o m.calls
           /\ Matched(Append(h, m) \o Over(ToolOf, m.calls))
<1>1. PICK s \in Seq(CallType) : s = m.calls
    BY MessagesHave
<1>2. PICK g \in Seq(TalkMessages) : /\ g = Append(h, m) /\ Calls(g) = Calls(h) \o s
                                 /\ Spread(ResultsOf, g) = Spread(ResultsOf, h)
    BY <1>1, PlainMessage
<1>3. PICK t \in Seq(TalkMessages) : /\ t = Over(ToolOf, s) /\ Calls(t) = <<>>
                                 /\ Spread(ResultsOf, t) = Over(IdOf, s)
    BY ToolsHave
<1>4. /\ Calls(g \o t) = Calls(g) \o Calls(t)
      /\ Spread(ResultsOf, g \o t) = Spread(ResultsOf, g) \o Spread(ResultsOf, t)
      /\ Calls(h) \in Seq(CallType) /\ Calls(g) \in Seq(CallType)
    BY CallsJoined
<1>5. Calls(g) \o <<>> = Calls(g)
    BY <1>4, NoneToJoined
<1>6. Over(IdOf, Calls(h) \o s) = Over(IdOf, Calls(h)) \o Over(IdOf, s)
    BY <1>4, IdsJoined
<1>7. Over(IdOf, Calls(h)) = Spread(ResultsOf, h)
    BY DEF Matched, Calls
<1>8. g \o t \in Seq(TalkMessages)
    BY Joining
<1>9. Matched(g \o t)
    BY <1>2, <1>3, <1>4, <1>5, <1>6, <1>7 DEF Matched, Calls
<1> QED BY <1>1, <1>2, <1>3, <1>4, <1>5, <1>8, <1>9

-----------------------------------------------------------------------------
(* The members of a list; calls of one id that have one name.              *)
Members(s) == {s[i] : i \in 1..Len(s)}
Alike(set) == \A c, d \in set : c.id = d.id => c.name = d.name

LEMMA MembersJoined ==
    ASSUME NEW S, NEW s \in Seq(S), NEW t \in Seq(S)
    PROVE  Members(s \o t) = Members(s) \cup Members(t) /\ Members(s) \subseteq S
<1>1. PICK n \in Nat, m \in Nat : n = Len(s) /\ m = Len(t)
    BY LenProperties
<1>2. Len(s \o t) = n + m /\ \A i \in 1..(n + m) : (s \o t)[i] = IF i <= n THEN s[i] ELSE t[i - n]
    BY <1>1, ConcatProperties
<1>3. PICK u : u = s \o t /\ Len(u) = n + m /\ \A i \in 1..(n + m) : u[i] = IF i <= n THEN s[i] ELSE t[i - n]
    BY <1>2
<1>4. ASSUME NEW x \in Members(u) PROVE x \in Members(s) \cup Members(t)
    <2>1. PICK i \in 1..(n + m) : x = u[i]
        BY <1>3 DEF Members
    <2>2. CASE i <= n
        <3>1. i \in 1..n /\ x = s[i]
            BY <1>3, <2>1, <2>2
        <3> QED BY <1>1, <3>1 DEF Members
    <2>3. CASE ~(i <= n)
        <3>1. i - n \in 1..m /\ x = t[i - n]
            BY <1>3, <2>1, <2>3
        <3> QED BY <1>1, <3>1 DEF Members
    <2> QED BY <2>2, <2>3
<1>5. ASSUME NEW x \in Members(s) PROVE x \in Members(u) /\ x \in S
    <2>1. PICK i \in 1..n : x = s[i]
        BY <1>1 DEF Members
    <2>2. i \in 1..(n + m) /\ u[i] = s[i]
        BY <1>3
    <2>3. s[i] \in S
        BY <1>1, ElementOfSeq
    <2> QED BY <1>3, <2>1, <2>2, <2>3 DEF Members
<1>6. ASSUME NEW x \in Members(t) PROVE x \in Members(u)
    <2>1. PICK i \in 1..m : x = t[i]
        BY <1>1 DEF Members
    <2>2. n + i \in 1..(n + m) /\ ~(n + i <= n) /\ (n + i) - n = i
        OBVIOUS
    <2>3. u[n + i] = t[i]
        BY <1>3, <2>2
    <2> QED BY <1>3, <2>1, <2>2, <2>3 DEF Members
<1> QED BY <1>3, <1>4, <1>5, <1>6

LEMMA AlikeIs ==
    ASSUME NEW s, Alike(Members(s))
    PROVE  NamedAlike(s)
BY DEF Alike, Members, NamedAlike

-----------------------------------------------------------------------------
(* What is picked of a table, in order.                                    *)
Picked(s, p, D, n) ==
    \E place \in [1..Len(s) -> 1..n] :
       /\ \A i, j \in 1..Len(s) : i < j => place[i] < place[j]
       /\ \A i \in 1..Len(s) : place[i] \in D /\ s[i] = p[place[i]]
       /\ 1..n \subseteq D => Len(s) = n

PickOf(p, D) == [k \in Nat |-> IF k \in D THEN <<p[k]>> ELSE <<>>]
UpTo(n) == [i \in 1..n |-> i]

LEMMA UpToIs ==
    ASSUME NEW n \in Nat
    PROVE  /\ UpTo(n) \in Seq(Nat) /\ UpTo(0) = <<>>
           /\ UpTo(n + 1) = Append(UpTo(n), n + 1)
<1>1. \A m \in Nat : UpTo(m) \in Seq(Nat) /\ Len(UpTo(m)) = m /\ \A i \in 1..m : UpTo(m)[i] = i
    BY DEF UpTo
<1>2. PICK s \in Seq(Nat) : s = UpTo(n) /\ Len(s) = n /\ \A i \in 1..n : s[i] = i
    BY <1>1
<1>3. PICK t \in Seq(Nat) : t = UpTo(n + 1) /\ Len(t) = n + 1 /\ \A i \in 1..(n + 1) : t[i] = i
    BY <1>1
<1>4. PICK e \in Nat : e = n + 1
    OBVIOUS
<1>5. PICK u \in Seq(Nat) : Longer(u, s, e, n)
    BY <1>2, OneMore
<1>6. u = Append(s, e) /\ Len(u) = n + 1 /\ u[n + 1] = e /\ \A i \in 1..n : u[i] = s[i]
    BY <1>5 DEF Longer
<1>7. ASSUME NEW i \in 1..(n + 1) PROVE t[i] = u[i]
    <2>1. i = n + 1 \/ i \in 1..n
        OBVIOUS
    <2> QED BY <1>2, <1>3, <1>4, <1>6, <2>1
<1>8. t = u
    BY <1>3, <1>6, <1>7, SeqEqual
<1>9. UpTo(0) = <<>>
    BY DEF UpTo
<1> QED BY <1>2, <1>3, <1>4, <1>6, <1>8, <1>9

LEMMA PickedMore ==
    ASSUME NEW S, NEW p, NEW D, NEW s \in Seq(S), NEW n \in Nat, Picked(s, p, D, n),
           NEW t \in Seq(S), IF n + 1 \in D THEN Longer(t, s, p[n + 1], Len(s)) ELSE t = s
    PROVE  Picked(t, p, D, n + 1)
<1>1. PICK l \in Nat : l = Len(s)
    BY LenProperties
<1>2. PICK place \in [1..l -> 1..n] :
       /\ \A i, j \in 1..l : i < j => place[i] < place[j]
       /\ \A i \in 1..l : place[i] \in D /\ s[i] = p[place[i]]
       /\ 1..n \subseteq D => l = n
    BY <1>1 DEF Picked
<1>3. 1..n \subseteq 1..(n + 1) /\ n + 1 \in 1..(n + 1)
    OBVIOUS
<1>4. CASE n + 1 \in D
    <2>1. Len(t) = l + 1 /\ t[l + 1] = p[n + 1] /\ \A i \in 1..l : t[i] = s[i]
        BY <1>1, <1>4 DEF Longer
    <2> DEFINE on == [i \in 1..(l + 1) |-> IF i \in 1..l THEN place[i] ELSE n + 1]
    <2>2. \A i \in 1..l : on[i] = place[i] /\ place[i] \in 1..n
        BY <1>2
    <2>3. on[l + 1] = n + 1
        OBVIOUS
    <2>4. on \in [1..(l + 1) -> 1..(n + 1)]
        BY <1>2, <1>3
    <2> HIDE DEF on
    <2>5. ASSUME NEW i \in 1..(l + 1), NEW j \in 1..(l + 1), i < j PROVE on[i] < on[j]
        <3>1. i \in 1..l
            BY <2>5
        <3>2. j \in 1..l \/ j = l + 1
            OBVIOUS
        <3>3. CASE j \in 1..l
            BY <1>2, <2>2, <2>5, <3>1, <3>3
        <3>4. CASE j = l + 1
            <4>1. on[i] \in 1..n /\ on[j] = n + 1
                BY <2>2, <2>3, <3>1, <3>4
            <4> QED BY <4>1
        <3> QED BY <3>2, <3>3, <3>4
    <2>6. ASSUME NEW i \in 1..(l + 1) PROVE on[i] \in D /\ t[i] = p[on[i]]
        <3>1. i \in 1..l \/ i = l + 1
            OBVIOUS
        <3> QED BY <1>2, <1>4, <2>1, <2>2, <2>3, <3>1
    <2>7. 1..(n + 1) \subseteq D => l + 1 = n + 1
        BY <1>2, <1>3
    <2> QED BY <2>1, <2>4, <2>5, <2>6, <2>7 DEF Picked
<1>5. CASE n + 1 \notin D
    <2>1. t = s /\ Len(t) = l
        BY <1>1, <1>5
    <2>2. place \in [1..l -> 1..(n + 1)]
        BY <1>2, <1>3
    <2>3. 1..(n + 1) \subseteq D => l = n + 1
        BY <1>3, <1>5
    <2> QED BY <1>2, <2>1, <2>2, <2>3 DEF Picked
<1> QED BY <1>4, <1>5

LEMMA PickedIs ==
    ASSUME NEW S, NEW D, NEW p, Makes(p, D, S), NEW n \in Nat
    PROVE  Spread(PickOf(p, D), UpTo(n)) \in Seq(S) /\ Picked(Spread(PickOf(p, D), UpTo(n)), p, D, n)
<1>1. PICK f : f = PickOf(p, D)
    OBVIOUS
<1>2. \A k \in Nat : f[k] = IF k \in D THEN <<p[k]>> ELSE <<>>
    BY <1>1 DEF PickOf
<1>3. Makes(f, Nat, Seq(S))
    <2>1. ASSUME NEW k \in Nat PROVE f[k] \in Seq(S)
        <3>1. CASE k \in D
            <4>1. PICK y \in S : y = p[k]
                BY <3>1 DEF Makes
            <4>2. <<y>> \in Seq(S)
                OBVIOUS
            <4> QED BY <1>2, <3>1, <4>1, <4>2
        <3>2. CASE k \notin D
            BY <1>2, <3>2, EmptySeq
        <3> QED BY <3>1, <3>2
    <2> QED BY <2>1 DEF Makes
<1>4. \A m \in Nat : Spread(f, UpTo(m)) \in Seq(S)
    BY <1>3, UpToIs, SpreadIsSeq
<1> DEFINE M == {m \in Nat : Picked(Spread(f, UpTo(m)), p, D, m)}
<1>5. 0 \in M
    <2>1. Spread(f, UpTo(0)) = <<>>
        BY SpreadEmpty, UpToIs
    <2>2. Picked(<<>>, p, D, 0)
        <3> DEFINE place == [i \in 1..0 |-> i]
        <3>1. place \in [1..0 -> 1..0] /\ Len(<<>>) = 0
            OBVIOUS
        <3> HIDE DEF place
        <3>2. \A i \in 1..0 : FALSE
            OBVIOUS
        <3> QED BY <3>1, <3>2 DEF Picked
    <2> QED BY <2>1, <2>2
<1>6. ASSUME NEW m \in Nat, m \in M PROVE m + 1 \in M
    <2>0. Picked(Spread(f, UpTo(m)), p, D, m)
        BY <1>6
    <2> HIDE DEF M
    <2>1. PICK s \in Seq(S) : s = Spread(f, UpTo(m))
        BY <1>4
    <2>2. PICK t \in Seq(S) : t = Spread(f, UpTo(m + 1))
        BY <1>4
    <2>3. t = s \o f[m + 1]
        <3>1. PICK u \in Seq(Nat) : u = UpTo(m) /\ UpTo(m + 1) = Append(u, m + 1)
            BY UpToIs
        <3>2. PICK e \in Nat : e = m + 1
            OBVIOUS
        <3>3. Spread(f, Append(u, e)) = Spread(f, u) \o f[e]
            BY <1>3, SpreadMore
        <3> QED BY <2>1, <2>2, <3>1, <3>2, <3>3
    <2>4. CASE m + 1 \in D
        <3>1. PICK y \in S : y = p[m + 1]
            BY <2>4 DEF Makes
        <3>2. t = s \o <<y>>
            <4>0. PICK e \in Nat : e = m + 1
                OBVIOUS
            <4>1. f[e] = <<p[e]>>
                BY <1>2, <2>4, <4>0
            <4> QED BY <2>3, <3>1, <4>0, <4>1
        <3>3. PICK u \in Seq(S) : Longer(u, s, y, Len(s))
            BY OneMore
        <3>4. u = Append(s, y)
            BY <3>3 DEF Longer
        <3>5. Append(s, y) = s \o <<y>>
            BY AppendIsConcat
        <3>6. Longer(t, s, p[m + 1], Len(s))
            BY <3>1, <3>2, <3>3, <3>4, <3>5
        <3> QED BY <2>0, <2>1, <2>2, <2>4, <3>6, PickedMore DEF M
    <2>5. CASE m + 1 \notin D
        <3>1. t = s
            <4>0. PICK e \in Nat : e = m + 1
                OBVIOUS
            <4>1. f[e] = <<>>
                BY <1>2, <2>5, <4>0
            <4>2. s \o <<>> = s
                BY NoneToJoined
            <4> QED BY <2>3, <4>0, <4>1, <4>2
        <3> QED BY <2>0, <2>1, <2>2, <2>5, <3>1, PickedMore DEF M
    <2> QED BY <2>4, <2>5
<1> HIDE DEF M
<1>7. n \in M
    BY <1>5, <1>6, InductionOverASet
<1> QED BY <1>1, <1>4, <1>7 DEF M

(* The state of a session with a model.                                    *)
ReplyTypes ==
    /\ transport \in {"chat", "responses", "anthropic", "google"}
    /\ turns \in Seq(TalkMessages) /\ pending \in Seq(TalkMessages)
    /\ pc \in {"idle", "request", "stream", "answered", "failed"} /\ served \in Nat
    /\ reply \in [text : BOOLEAN, names : Seq(ToolNames), cut : BOOLEAN]
    /\ made \in Seq(CallType)
    /\ pc = "idle" => pending = <<>>
    /\ pc \in {"stream", "answered"} => served # 0

(* At rest the talk waits for the user, and in a turn for the assistant.   *)
Talks ==
    /\ AtRest(Replies!AnthropicMessages(turns))
    /\ pc # "idle" => Asking(Replies!AnthropicMessages(turns \o pending))

Matches == Matched(turns) /\ Matched(pending)

(* The ids of earlier replies, each of one name.                           *)
CallsMade == Members(Calls(turns)) \cup Members(Calls(pending))
Earlier(c) == c.id.reply <= served /\ (pc \in {"stream", "answered"} => c.id.reply < served)
NamesAgree == Alike(CallsMade) /\ \A c \in CallsMade : Earlier(c)

(* What the events so far have brought of a call.                          *)
Fragments(k, n) == IF n = 1 THEN <<>> ELSE IF n = 2 THEN <<2 * k>> ELSE <<2 * k, 2 * k + 1>>
TheCall(k, args) == [id |-> [reply |-> served, call |-> k], name |-> reply.names[k], args |-> args]

Partly(c, k, n) ==
    \E id \in {Replies!NoId, [reply |-> served, call |-> k]}, name \in {"", reply.names[k]} :
        c = [id |-> id, name |-> name, args |-> Fragments(k, n)]

Collects ==
    pc = "stream" =>
        /\ progress \in [1..Len(reply.names) -> 0..4]
        /\ DOMAIN pieces = {k \in 1..Len(reply.names) : progress[k] # 0}
        /\ \A k \in DOMAIN pieces : Partly(pieces[k], k, progress[k])

(* What was completed is what the server meant.                            *)
Faithful(meant, k) ==
    /\ meant = TheCall(k, meant.args)
    /\ \/ \E l \in 0..2 : meant.args = SubSeq(<<2 * k, 2 * k + 1>>, 1, l)
       \/ transport = "anthropic" /\ meant.args = <<0>>
    /\ ~reply.cut => meant.args = <<2 * k, 2 * k + 1>>
FromServer(s) ==
    \E place \in [1..Len(s) -> 1..Len(reply.names)] :
       /\ \A i, j \in 1..Len(s) : i < j => place[i] < place[j]
       /\ \A i \in 1..Len(s) : Faithful(s[i], place[i])
       /\ ~reply.cut => Len(s) = Len(reply.names)
Serves == pc = "answered" => FromServer(made)

RepliesInv == ReplyTypes /\ Talks /\ Matches /\ NamesAgree /\ Collects /\ Serves

LEMMA MeantIs ==
    ASSUME NEW k
    PROVE  Replies!Meant(k) = TheCall(k, <<2 * k, 2 * k + 1>>)
BY DEF Replies!Meant, Replies!ArgumentsOf, TheCall

LEMMA MeantHas ==
    ASSUME ReplyTypes, NEW k \in 1..Len(reply.names), NEW args \in Seq(Nat)
    PROVE  TheCall(k, args) \in CallType
<1>1. reply.names \in Seq(ToolNames)
    BY DEF ReplyTypes
<1>2. PICK n \in Nat : n = Len(reply.names)
    BY <1>1, LenProperties
<1>3. reply.names[k] \in ToolNames /\ k \in Nat /\ served \in Nat
    BY <1>1, <1>2, ElementOfSeq DEF ReplyTypes
<1> QED BY <1>3 DEF TheCall, CallType, CallIds

LEMMA NumberedIs ==
    ASSUME ReplyTypes, pc \in {"stream", "answered"}, NEW k
    PROVE  Replies!Numbered(Replies!Meant(k), k) = Replies!Meant(k)
<1>1. Replies!Meant(k).id = [reply |-> served, call |-> k]
    BY MeantIs DEF TheCall
<1>2. PICK id : id = Replies!Meant(k).id /\ id.reply = served
    BY <1>1
<1>3. served # 0 /\ Replies!NoId.reply = 0
    BY DEF ReplyTypes, Replies!NoId
<1>4. id # Replies!NoId
    BY <1>2, <1>3
<1> QED BY <1>2, <1>4, Zenon DEF Replies!Numbered

(* Two numbers.                                                            *)
LEMMA PairIs ==
    ASSUME NEW a \in Nat, NEW b \in Nat, NEW s \in Seq(Nat), Len(s) = 2, s[1] = a, s[2] = b
    PROVE  s = <<a, b>>
<1>1. <<a, b>> \in Seq(Nat) /\ Len(<<a, b>>) = 2 /\ <<a, b>>[1] = a /\ <<a, b>>[2] = b
    OBVIOUS
<1>2. PICK t \in Seq(Nat) : t = <<a, b>> /\ Len(t) = 2 /\ t[1] = a /\ t[2] = b
    BY <1>1
<1>3. \A i \in 1..2 : s[i] = t[i]
    BY <1>2
<1> QED BY <1>2, <1>3, SeqEqual

LEMMA PairParts ==
    ASSUME NEW a \in Nat, NEW b \in Nat
    PROVE  /\ Append(<<>>, a) = <<a>> /\ Append(<<a>>, b) = <<a, b>>
           /\ SubSeq(<<a, b>>, 1, 0) = <<>> /\ SubSeq(<<a, b>>, 1, 1) = <<a>>
           /\ SubSeq(<<a, b>>, 1, 2) = <<a, b>>
<1>1. PICK s \in Seq(Nat) : s = <<a>> /\ Len(s) = 1 /\ s[1] = a
    <2>1. <<a>> \in Seq(Nat) /\ Len(<<a>>) = 1 /\ <<a>>[1] = a
        OBVIOUS
    <2> QED BY <2>1
<1>2. PICK u \in Seq(Nat) : Longer(u, s, b, 1)
    BY <1>1, OneMore
<1>3. u = Append(s, b) /\ Len(u) = 2 /\ u[2] = b /\ u[1] = a
    <2>1. u = Append(s, b) /\ Len(u) = 1 + 1 /\ u[1 + 1] = b /\ \A i \in 1..1 : u[i] = s[i]
        BY <1>2 DEF Longer
    <2>2. 1 + 1 = 2 /\ 1 \in 1..1
        OBVIOUS
    <2> QED BY <1>1, <2>1, <2>2
<1>4. u = <<a, b>>
    BY <1>3, PairIs
<1>5. PICK t \in Seq(Nat) : t = <<a, b>> /\ Len(t) = 2 /\ t[1] = a /\ t[2] = b
    <2>1. <<a, b>> \in Seq(Nat) /\ Len(<<a, b>>) = 2 /\ <<a, b>>[1] = a /\ <<a, b>>[2] = b
        OBVIOUS
    <2> QED BY <2>1
<1>6. SubSeq(t, 1, 0) = <<>>
    BY SubSeqEmpty
<1>7. SubSeq(t, 1, 2) = t
    BY <1>5, SubSeqFull
<1>8. PICK v \in Seq(Nat) : v = SubSeq(t, 1, 1) /\ Len(v) = 1 /\ v[1] = a
    <2>1. \A i \in 1..1 : t[i] \in Nat
        BY <1>5
    <2>2. /\ SubSeq(t, 1, 1) \in Seq(Nat) /\ Len(SubSeq(t, 1, 1)) = IF 1 <= 1 THEN 1 - 1 + 1 ELSE 0
          /\ \A i \in 1 .. (1 - 1 + 1) : SubSeq(t, 1, 1)[i] = t[1 + i - 1]
        BY <2>1, SubSeqProperties
    <2>3. Len(SubSeq(t, 1, 1)) = 1 /\ SubSeq(t, 1, 1)[1] = t[1]
        BY <2>2
    <2> QED BY <1>5, <2>2, <2>3
<1>9. v = s
    <2>1. \A i \in 1..1 : v[i] = s[i]
        BY <1>1, <1>8
    <2> QED BY <1>1, <1>8, <2>1, SeqEqual
<1>10. Append(<<>>, a) = <<a>>
    OBVIOUS
<1> QED BY <1>1, <1>3, <1>4, <1>5, <1>6, <1>7, <1>8, <1>9, <1>10
LEMMA PieceHas ==
    ASSUME NEW k \in Nat, NEW n \in 1..4
    PROVE  /\ Fragments(k, n) \in Seq(Nat) /\ Fragments(k, 1) = <<>>
           /\ n >= 3 => Fragments(k, n) = <<2 * k, 2 * k + 1>>
           /\ n < 3 => Append(Fragments(k, n), Replies!ArgumentsOf(k)[n]) = Fragments(k, n + 1)
           /\ \E l \in 0..2 : Fragments(k, n) = SubSeq(<<2 * k, 2 * k + 1>>, 1, l)
<1>1. PICK a \in Nat, b \in Nat : a = 2 * k /\ b = 2 * k + 1
    OBVIOUS
<1>2. Fragments(k, n) = IF n = 1 THEN <<>> ELSE IF n = 2 THEN <<a>> ELSE <<a, b>>
    BY <1>1 DEF Fragments
<1>3. Fragments(k, n + 1) = IF n = 1 THEN <<a>> ELSE <<a, b>>
    BY <1>1 DEF Fragments
<1>4. Replies!ArgumentsOf(k) = <<a, b>>
    BY <1>1, Zenon DEF Replies!ArgumentsOf
<1>5. n < 3 => Append(Fragments(k, n), <<a, b>>[n]) = Fragments(k, n + 1)
    <2>1. Append(<<>>, a) = <<a>> /\ Append(<<a>>, b) = <<a, b>>
        BY PairParts
    <2>2. <<a, b>>[1] = a /\ <<a, b>>[2] = b
        OBVIOUS
    <2>3. n < 3 => n = 1 \/ n = 2
        OBVIOUS
    <2> QED BY <1>2, <1>3, <2>1, <2>2, <2>3
<1>6. \E l \in 0..2 : Fragments(k, n) = SubSeq(<<a, b>>, 1, l)
    <2>1. SubSeq(<<a, b>>, 1, 0) = <<>> /\ SubSeq(<<a, b>>, 1, 1) = <<a>> /\ SubSeq(<<a, b>>, 1, 2) = <<a, b>>
        BY PairParts
    <2>2. 0 \in 0..2 /\ 1 \in 0..2 /\ 2 \in 0..2
        OBVIOUS
    <2> QED BY <1>2, <2>1, <2>2
<1>7. Fragments(k, n) \in Seq(Nat)
    <2>1. <<>> \in Seq(Nat) /\ <<a>> \in Seq(Nat) /\ <<a, b>> \in Seq(Nat)
        OBVIOUS
    <2> QED BY <1>2, <2>1
<1>8. Fragments(k, 1) = <<>> /\ (n >= 3 => Fragments(k, n) = <<a, b>>)
    BY <1>2 DEF Fragments
<1> QED BY <1>1, <1>4, <1>5, <1>6, <1>7, <1>8

-----------------------------------------------------------------------------
(* The events of a reply.                                                  *)
LEMMA WholeIsPartly ==
    ASSUME NEW k, NEW n
    PROVE  Partly(TheCall(k, Fragments(k, n)), k, n)
<1>1. PICK id : id = [reply |-> served, call |-> k]
    OBVIOUS
<1>2. PICK name : name = reply.names[k]
    OBVIOUS
<1>3. TheCall(k, Fragments(k, n)) = [id |-> id, name |-> name, args |-> Fragments(k, n)]
    BY <1>1, <1>2 DEF TheCall
<1> QED BY <1>1, <1>2, <1>3 DEF Partly

LEMMA CallIs ==
    ASSUME NEW c, NEW id, NEW name, NEW old, c = [id |-> id, name |-> name, args |-> old], NEW args
    PROVE  /\ c.id = id /\ c.name = name /\ c.args = old
           /\ [c EXCEPT !.args = args] = [id |-> id, name |-> name, args |-> args]
OBVIOUS

LEMMA PartlyIs ==
    ASSUME NEW c, NEW k, NEW n, Partly(c, k, n)
    PROVE  /\ c = [id |-> c.id, name |-> c.name, args |-> c.args]
           /\ c.id = Replies!NoId \/ c.id = [reply |-> served, call |-> k]
           /\ c.name = "" \/ c.name = reply.names[k]
<1>1. PICK id \in {Replies!NoId, [reply |-> served, call |-> k]}, name \in {"", reply.names[k]} :
           c = [id |-> id, name |-> name, args |-> Fragments(k, n)]
    BY DEF Partly
<1>2. PICK args : args = Fragments(k, n)
    OBVIOUS
<1>3. c.id = id /\ c.name = name /\ c.args = args
    BY <1>1, <1>2, CallIs
<1> QED BY <1>1, <1>2, <1>3

LEMMA PartlyArgs ==
    ASSUME NEW k \in Nat, NEW n \in 1..4, NEW c, Partly(c, k, n)
    PROVE  c.args = Fragments(k, n)
<1>1. PICK id \in {Replies!NoId, [reply |-> served, call |-> k]}, name \in {"", reply.names[k]} :
           c = [id |-> id, name |-> name, args |-> Fragments(k, n)]
    BY DEF Partly
<1> QED BY <1>1

LEMMA PartlyFrom ==
    ASSUME NEW c, NEW k, NEW n, NEW id, NEW name, NEW args, args = Fragments(k, n),
           c = [id |-> id, name |-> name, args |-> args],
           id = Replies!NoId \/ id = [reply |-> served, call |-> k],
           name = "" \/ name = reply.names[k]
    PROVE  Partly(c, k, n)
BY DEF Partly

LEMMA BufferIs ==
    ASSUME Collects, pc = "stream", NEW k \in 1..Len(reply.names)
    PROVE  /\ Replies!Begun(k) \in 1..4 /\ Partly(Replies!Buffer(k), k, Replies!Begun(k))
           /\ progress[k] # 0 => Replies!Begun(k) = progress[k]
<1>1. /\ progress[k] \in 0..4 /\ (k \in DOMAIN pieces <=> progress[k] # 0)
      /\ k \in DOMAIN pieces => Partly(pieces[k], k, progress[k])
    BY DEF Collects
<1>2. CASE progress[k] = 0
    <2>1. PICK one \in 1..4 : one = 1 /\ one = Replies!Begun(k)
        BY <1>2 DEF Replies!Begun
    <2>2. Fragments(k, one) = <<>>
        BY <2>1 DEF Fragments
    <2>3. PICK id : id = Replies!NoId
        OBVIOUS
    <2>4. PICK name : name = ""
        OBVIOUS
    <2>5. Replies!Buffer(k) = [id |-> id, name |-> name, args |-> Fragments(k, one)]
        BY <1>1, <1>2, <2>2, <2>3, <2>4, Zenon DEF Replies!Buffer, Replies!Unnamed
    <2>6. Partly(Replies!Buffer(k), k, one)
        BY <2>3, <2>4, <2>5, Zenon DEF Partly
    <2> QED BY <1>2, <2>1, <2>6
<1>3. CASE progress[k] # 0
    <2>1. Replies!Begun(k) = progress[k] /\ Replies!Buffer(k) = pieces[k]
        BY <1>1, <1>3 DEF Replies!Begun, Replies!Buffer
    <2>2. PICK n \in 1..4 : n = progress[k]
        BY <1>1, <1>3
    <2> QED BY <1>1, <1>3, <2>1, <2>2
<1> QED BY <1>2, <1>3

(* A call and what is known of it: one more piece, or more of its name.    *)
ComesIn(k, c, n) ==
    /\ progress' = [progress EXCEPT ![k] = n] /\ pieces' = Replies!Put(k, c)
    /\ Partly(c, k, n)

LEMMA LongerIs ==
    ASSUME Collects, pc = "stream", NEW k \in 1..Len(reply.names), k \in Nat, Replies!Begun(k) < 3
    PROVE  Replies!Longer(k) = Fragments(k, Replies!Begun(k) + 1) /\ Replies!Begun(k) + 1 \in 1..4
<1>1. PICK n \in 1..4 : n = Replies!Begun(k) /\ Partly(Replies!Buffer(k), k, n)
    BY BufferIs
<1>2. n < 3
    BY <1>1
<1>3. PICK args : args = Fragments(k, n)
    OBVIOUS
<1>4. Replies!Buffer(k).args = args
    <2>1. PICK b : b = Replies!Buffer(k)
        OBVIOUS
    <2>2. Partly(b, k, n)
        BY <1>1, <2>1
    <2>3. b.args = Fragments(k, n)
        BY <2>2, PartlyArgs
    <2> QED BY <1>3, <2>1, <2>3, Zenon
<1>5. Append(args, Replies!ArgumentsOf(k)[n]) = Fragments(k, n + 1)
    BY <1>2, <1>3, PieceHas
<1>6. Replies!Longer(k) = Append(args, Replies!ArgumentsOf(k)[n])
    BY <1>1, <1>4, Zenon DEF Replies!Longer
<1> QED BY <1>1, <1>2, <1>5, <1>6

LEMMA GrownIs ==
    ASSUME Collects, pc = "stream", NEW k \in 1..Len(reply.names), k \in Nat, progress[k] \in 1..2
    PROVE  Partly(Replies!Grown(k), k, progress[k] + 1)
<1>1. PICK n \in 1..4 : n = progress[k] /\ n < 3 /\ n = Replies!Begun(k)
    BY BufferIs
<1>2. Partly(Replies!Buffer(k), k, n) /\ Replies!Longer(k) = Fragments(k, n + 1)
    BY <1>1, BufferIs, LongerIs
<1>3. PICK c : c = Replies!Buffer(k)
    OBVIOUS
<1>4. /\ c = [id |-> c.id, name |-> c.name, args |-> c.args]
      /\ c.id = Replies!NoId \/ c.id = [reply |-> served, call |-> k]
      /\ c.name = "" \/ c.name = reply.names[k]
    <2>1. Partly(c, k, n)
        BY <1>2, <1>3
    <2> QED BY <2>1, PartlyIs
<1>5. PICK id, name, old : id = c.id /\ name = c.name /\ old = c.args
    OBVIOUS
<1>6. PICK args : args = Replies!Longer(k)
    OBVIOUS
<1>7. [c EXCEPT !.args = args] = [id |-> id, name |-> name, args |-> args]
    <2>1. c = [id |-> id, name |-> name, args |-> old]
        BY <1>4, <1>5
    <2> QED BY <2>1, CallIs
<1>8. PICK d : d = Replies!Grown(k)
    OBVIOUS
<1>9. d = [id |-> id, name |-> name, args |-> args]
    BY <1>3, <1>6, <1>7, <1>8, Zenon DEF Replies!Grown
<1>10. args = Fragments(k, n + 1)
    BY <1>2, <1>6
<1>11. Partly(d, k, n + 1)
    BY <1>4, <1>5, <1>9, <1>10, PartlyFrom
<1> QED BY <1>1, <1>8, <1>11

LEMMA ChatComes ==
    ASSUME Collects, pc = "stream", NEW k \in 1..Len(reply.names), k \in Nat,
           Replies!ChatFragment(k)
    PROVE  \E n \in 1..4 : \E c : ComesIn(k, c, n)
<1>1. PICK brings \in SUBSET {"id", "name"}, more \in {0, 1} :
         /\ Replies!Begun(k) + more <= 3
         /\ progress' = [progress EXCEPT ![k] = Replies!Begun(k) + more]
         /\ pieces' = Replies!Put(k,
              [id   |-> IF "id" \in brings THEN Replies!Meant(k).id ELSE Replies!Buffer(k).id,
               name |-> IF "name" \in brings THEN Replies!Meant(k).name ELSE Replies!Buffer(k).name,
               args |-> IF more = 0 THEN Replies!Buffer(k).args ELSE Replies!Longer(k)])
    BY Zenon DEF Replies!ChatFragment
<1>2. PICK n \in 1..4 : n = Replies!Begun(k) /\ Partly(Replies!Buffer(k), k, n)
    BY BufferIs
<1>3. PICK b : b = Replies!Buffer(k)
    OBVIOUS
<1>4. /\ b.args = Fragments(k, n)
      /\ b.id = Replies!NoId \/ b.id = [reply |-> served, call |-> k]
      /\ b.name = "" \/ b.name = reply.names[k]
    <2>1. Partly(b, k, n)
        BY <1>2, <1>3
    <2>2. b.args = Fragments(k, n)
        BY <2>1, PartlyArgs
    <2> QED BY <2>1, <2>2, PartlyIs
<1>5. PICK id : id = IF "id" \in brings THEN Replies!Meant(k).id ELSE b.id
    OBVIOUS
<1>6. PICK name : name = IF "name" \in brings THEN Replies!Meant(k).name ELSE b.name
    OBVIOUS
<1>7. PICK args : args = IF more = 0 THEN b.args ELSE Replies!Longer(k)
    OBVIOUS
<1>8. Replies!Meant(k).id = [reply |-> served, call |-> k] /\ Replies!Meant(k).name = reply.names[k]
    BY MeantIs DEF TheCall
<1>9. id = Replies!NoId \/ id = [reply |-> served, call |-> k]
    BY <1>4, <1>5, <1>8
<1>10. name = "" \/ name = reply.names[k]
    BY <1>4, <1>6, <1>8
<1>11. PICK m : m = more /\ (m = 0 \/ m = 1) /\ n + m <= 3
    BY <1>1, <1>2
<1>12. PICK to \in 1..4 : to = n + m
    BY <1>11
<1>13. args = Fragments(k, to)
    <2>1. CASE m = 0
        <3>1. to = n
            BY <1>12, <2>1
        <3> QED BY <1>4, <1>7, <1>11, <2>1, <3>1
    <2>2. CASE m = 1
        <3>1. n < 3 /\ to = n + 1
            BY <1>11, <1>12, <2>2
        <3>2. Replies!Longer(k) = Fragments(k, to)
            BY <1>2, <3>1, LongerIs
        <3>3. more # 0
            BY <1>11, <2>2
        <3> QED BY <1>7, <3>2, <3>3
    <2> QED BY <1>11, <2>1, <2>2
<1>14. PICK c : c = [id |-> id, name |-> name, args |-> args]
    OBVIOUS
<1>15. pieces' = Replies!Put(k, c)
    BY <1>1, <1>3, <1>5, <1>6, <1>7, <1>14, Zenon
<1>16. Partly(c, k, to)
    BY <1>9, <1>10, <1>13, <1>14, PartlyFrom
<1>17. progress' = [progress EXCEPT ![k] = to]
    BY <1>1, <1>2, <1>11, <1>12
<1> QED BY <1>15, <1>16, <1>17 DEF ComesIn

LEMMA EventComes ==
    ASSUME RepliesInv, pc = "stream", NEW k \in 1..Len(reply.names), k \in Nat,
           Replies!ChatFragment(k) \/ Replies!ResponsesEvent(k) \/ Replies!AnthropicEvent(k)
           \/ Replies!GooglePart(k)
    PROVE  \E n \in 1..4 : \E c : ComesIn(k, c, n)
<1>1. Collects /\ progress[k] \in 0..4
    BY DEF RepliesInv, Collects
<1>2. PICK m \in 0..4 : m = progress[k]
    BY <1>1
<1>3. ASSUME m = 0, pieces' = Replies!Put(k, Replies!Named(k)), Replies!Advance(k)
      PROVE  \E n \in 1..4 : \E c : ComesIn(k, c, n)
    <2>1. PICK one \in 1..4 : one = 1 /\ Fragments(k, one) = <<>>
        BY DEF Fragments
    <2>2. PICK c : c = TheCall(k, Fragments(k, one))
        OBVIOUS
    <2>3. Replies!Named(k) = c
        BY <2>1, <2>2, MeantIs DEF TheCall, Replies!Named
    <2>4. progress' = [progress EXCEPT ![k] = one]
        <3>1. progress' = [progress EXCEPT ![k] = progress[k] + 1]
            BY <1>3, Zenon DEF Replies!Advance
        <3>2. progress[k] + 1 = one
            BY <1>2, <1>3, <2>1
        <3> QED BY <3>1, <3>2, Zenon
    <2> QED BY <1>3, <2>2, <2>3, <2>4, WholeIsPartly DEF ComesIn
<1>4. ASSUME m \in 1..2, pieces' = Replies!Put(k, Replies!Grown(k)), Replies!Advance(k)
      PROVE  \E n \in 1..4 : \E c : ComesIn(k, c, n)
    <2>1. PICK to \in 1..4 : to = m + 1
        BY <1>4
    <2>2. progress' = [progress EXCEPT ![k] = to]
        BY <1>2, <1>4, <2>1 DEF Replies!Advance
    <2>3. Partly(Replies!Grown(k), k, to)
        BY <1>1, <1>2, <1>4, <2>1, GrownIs
    <2> QED BY <1>4, <2>2, <2>3 DEF ComesIn
<1>5. ASSUME NEW to \in 3..4, pieces' = Replies!Put(k, Replies!Meant(k)), progress' = [progress EXCEPT ![k] = to]
      PROVE  \E n \in 1..4 : \E c : ComesIn(k, c, n)
    <2>1. PICK n \in 1..4 : n = to /\ n >= 3
        OBVIOUS
    <2>2. Fragments(k, n) = <<2 * k, 2 * k + 1>>
        BY <2>1, PieceHas
    <2>3. Partly(Replies!Meant(k), k, n)
        BY <2>2, MeantIs, WholeIsPartly
    <2> QED BY <1>5, <2>1, <2>3 DEF ComesIn
<1>6. CASE Replies!ChatFragment(k)
    BY <1>1, <1>6, ChatComes
<1>7. CASE Replies!AnthropicEvent(k)
    <2>1. progress[k] < 3 /\ Replies!Advance(k)
          /\ pieces' = Replies!Put(k, IF progress[k] = 0 THEN Replies!Named(k) ELSE Replies!Grown(k))
        BY <1>7, Zenon DEF Replies!AnthropicEvent
    <2>2. m = 0 \/ m \in 1..2
        BY <1>2, <2>1
    <2>3. CASE m = 0
        BY <1>2, <1>3, <2>1, <2>3
    <2>4. CASE m \in 1..2
        <3>1. progress[k] # 0
            BY <1>2, <2>4
        <3> QED BY <1>4, <2>1, <2>4, <3>1
    <2> QED BY <2>2, <2>3, <2>4
<1>8. CASE Replies!ResponsesEvent(k)
    <2>1. progress[k] < 4 /\ Replies!Advance(k)
          /\ pieces' = CASE progress[k] = 0 -> Replies!Put(k, Replies!Named(k))
                         [] progress[k] = 3 -> Replies!ItemDone(k)
                         [] OTHER -> Replies!Put(k, Replies!Grown(k))
        BY <1>8, Zenon DEF Replies!ResponsesEvent
    <2>2. m = 0 \/ m \in 1..2 \/ m = 3
        BY <1>2, <2>1
    <2>3. CASE m = 0
        <3>1. pieces' = Replies!Put(k, Replies!Named(k))
            BY <1>2, <2>1, <2>3
        <3> QED BY <1>3, <2>1, <2>3, <3>1
    <2>4. CASE m \in 1..2
        <3>1. progress[k] # 0 /\ progress[k] # 3
            BY <1>2, <2>4
        <3>2. pieces' = Replies!Put(k, Replies!Grown(k))
            BY <2>1, <3>1
        <3> QED BY <1>4, <2>1, <2>4, <3>2
    <2>5. CASE m = 3
        <3>1. pieces' = Replies!Put(k, Replies!Meant(k))
            BY <1>2, <2>1, <2>5 DEF Replies!ItemDone
        <3>2. progress' = [progress EXCEPT ![k] = 4] /\ 4 \in 3..4
            BY <1>2, <2>1, <2>5 DEF Replies!Advance
        <3> QED BY <1>5, <3>1, <3>2
    <2> QED BY <2>2, <2>3, <2>4, <2>5
<1>9. CASE Replies!GooglePart(k)
    <2>1. pieces' = Replies!Put(k, Replies!Numbered(Replies!Meant(k), k)) /\ progress' = [progress EXCEPT ![k] = 3]
        BY <1>9, Zenon DEF Replies!GooglePart
    <2>2. Replies!Numbered(Replies!Meant(k), k) = Replies!Meant(k)
        BY NumberedIs DEF RepliesInv
    <2>3. 3 \in 3..4
        OBVIOUS
    <2> QED BY <1>5, <2>1, <2>2, <2>3
<1> QED BY <1>6, <1>7, <1>8, <1>9

LEMMA ArrivesStep ==
    ASSUME RepliesInv, Replies!Arrives
    PROVE  Collects'
<1>1. /\ pc = "stream" /\ UNCHANGED <<transport, turns, pending, seen, reply, made, pc, served>>
      /\ \E k \in DOMAIN progress :
            Replies!ChatFragment(k) \/ Replies!ResponsesEvent(k) \/ Replies!AnthropicEvent(k)
            \/ Replies!GooglePart(k)
    BY Zenon DEF Replies!Arrives, Replies!talk
<1>2. PICK k \in DOMAIN progress :
            Replies!ChatFragment(k) \/ Replies!ResponsesEvent(k) \/ Replies!AnthropicEvent(k)
            \/ Replies!GooglePart(k)
    BY <1>1
<1>3. PICK n \in Nat : n = Len(reply.names)
    BY LenProperties DEF RepliesInv, ReplyTypes
<1>4. /\ progress \in [1..n -> 0..4] /\ DOMAIN pieces = {j \in 1..n : progress[j] # 0}
      /\ \A j \in DOMAIN pieces : Partly(pieces[j], j, progress[j])
    BY <1>1, <1>3 DEF RepliesInv, Collects
<1>5. k \in 1..n /\ k \in Nat
    BY <1>2, <1>4
<1>6. PICK to \in 1..4 : \E c : ComesIn(k, c, to)
    BY <1>1, <1>2, <1>3, <1>5, EventComes
<1>6a. PICK c : ComesIn(k, c, to)
    BY <1>6
<1>7. /\ progress' \in [1..n -> 0..4] /\ progress'[k] = to
      /\ \A j \in 1..n : j # k => progress'[j] = progress[j]
    BY <1>4, <1>5, <1>6a DEF ComesIn
<1>8. pieces' = [i \in DOMAIN pieces \cup {k} |-> IF i = k THEN c ELSE pieces[i]] /\ Partly(c, k, to)
    BY <1>6a DEF ComesIn, Replies!Put
<1>9. DOMAIN pieces' = DOMAIN pieces \cup {k}
    BY <1>8
<1>10. DOMAIN pieces \cup {k} = {j \in 1..n : progress'[j] # 0}
    BY <1>4, <1>5, <1>7
<1>11. ASSUME NEW j \in DOMAIN pieces' PROVE Partly(pieces'[j], j, progress'[j])
    <2>1. CASE j = k
        BY <1>7, <1>8, <1>9, <2>1
    <2>2. CASE j # k
        <3>1. j \in DOMAIN pieces /\ pieces'[j] = pieces[j] /\ progress'[j] = progress[j]
            BY <1>4, <1>7, <1>8, <1>9, <2>2
        <3> QED BY <1>4, <3>1
    <2> QED BY <2>1, <2>2
<1>12. reply' = reply /\ served' = served
    BY <1>1
<1>13. ASSUME NEW j \in DOMAIN pieces' PROVE Partly(pieces[j], j, progress[j])'
    BY <1>11, <1>12 DEF Partly, Fragments
<1>14. DOMAIN pieces' = {j \in 1..n : progress'[j] # 0} /\ n = Len(reply'.names)
    BY <1>3, <1>9, <1>10, <1>12
<1> QED BY <1>7, <1>13, <1>14 DEF Collects

LEMMA WholeIsFaithful ==
    ASSUME NEW k \in Nat
    PROVE  Faithful(TheCall(k, <<2 * k, 2 * k + 1>>), k)
<1>1. PICK args : args = <<2 * k, 2 * k + 1>> /\ \E l \in 0..2 : args = SubSeq(args, 1, l)
    <2>1. 4 \in 1..4 /\ 4 >= 3
        OBVIOUS
    <2>2. Fragments(k, 4) = <<2 * k, 2 * k + 1>>
        BY <2>1, PieceHas
    <2>3. \E l \in 0..2 : Fragments(k, 4) = SubSeq(<<2 * k, 2 * k + 1>>, 1, l)
        BY <2>1, PieceHas
    <2> QED BY <2>2, <2>3
<1>2. TheCall(k, args).args = args
    BY DEF TheCall
<1> QED BY <1>1, <1>2 DEF Faithful

(* All the calls at once.                                                  *)
LEMMA AllServed ==
    ASSUME ReplyTypes, NEW s, s = [k \in 1..Len(reply.names) |-> Replies!Meant(k)]
    PROVE  s \in Seq(CallType) /\ FromServer(s)
<1>1. PICK n \in Nat : n = Len(reply.names)
    BY LenProperties DEF ReplyTypes
<1>2. ASSUME NEW k \in 1..n PROVE Replies!Meant(k) \in CallType /\ Faithful(Replies!Meant(k), k)
    <2>1. k \in Nat /\ <<2 * k, 2 * k + 1>> \in Seq(Nat)
        OBVIOUS
    <2>2. TheCall(k, <<2 * k, 2 * k + 1>>) \in CallType
        BY <1>1, <2>1, MeantHas
    <2> QED BY <2>1, <2>2, MeantIs, WholeIsFaithful
<1>3. s = [k \in 1..n |-> Replies!Meant(k)]
    BY <1>1
<1>4. s \in Seq(CallType) /\ Len(s) = n /\ \A k \in 1..n : s[k] = Replies!Meant(k)
    BY <1>2, <1>3
<1> DEFINE place == [k \in 1..n |-> k]
<1>5. place \in [1..n -> 1..n] /\ \A k \in 1..n : place[k] = k
    OBVIOUS
<1> HIDE DEF place
<1>6. \A i, j \in 1..n : i < j => place[i] < place[j]
    BY <1>5
<1>7. \A k \in 1..n : Faithful(s[k], place[k])
    BY <1>2, <1>4, <1>5
<1>8. FromServer(s)
    BY <1>1, <1>4, <1>5, <1>6, <1>7 DEF FromServer
<1> QED BY <1>4, <1>8

LEMMA BracesAre == \E braces \in Seq(Nat) : braces = <<0>>
<1>1. <<0>> \in Seq(Nat)
    OBVIOUS
<1> QED BY <1>1

LEMMA OtherArgs ==
    ASSUME NEW k, NEW args, NEW c, c = TheCall(k, args), NEW others
    PROVE  [c EXCEPT !.args = others] = TheCall(k, others)
<1>1. PICK id : id = [reply |-> served, call |-> k]
    OBVIOUS
<1>2. PICK name : name = reply.names[k]
    OBVIOUS
<1>3. c = [id |-> id, name |-> name, args |-> args]
    BY <1>1, <1>2 DEF TheCall
<1>4. [c EXCEPT !.args = others] = [id |-> id, name |-> name, args |-> others]
    BY <1>3, CallIs
<1> QED BY <1>1, <1>2, <1>4 DEF TheCall

(* A call that is named is one of the server's.                            *)
LEMMA CompletedCall ==
    ASSUME ReplyTypes, NEW k \in Nat, k \in 1..Len(reply.names), NEW n \in 1..4, NEW c, Partly(c, k, n),
           c.id # Replies!NoId, c.name # "", ~reply.cut => n >= 3
    PROVE  Replies!Completed(c) \in CallType /\ Faithful(Replies!Completed(c), k)
<1>1. PICK args \in Seq(Nat) : args = Fragments(k, n)
    BY PieceHas
<1>2. /\ n >= 3 => args = <<2 * k, 2 * k + 1>>
      /\ \E l \in 0..2 : args = SubSeq(<<2 * k, 2 * k + 1>>, 1, l)
    BY <1>1, PieceHas
<1>3. c = TheCall(k, args) /\ c.args = args
    <2>1. c.args = args
        BY <1>1, PartlyArgs
    <2>2. /\ c = [id |-> c.id, name |-> c.name, args |-> c.args]
          /\ c.id = [reply |-> served, call |-> k] /\ c.name = reply.names[k]
        BY PartlyIs
    <2>3. PICK id, name : id = c.id /\ name = c.name
        OBVIOUS
    <2>4. c = [id |-> id, name |-> name, args |-> args]
        BY <2>1, <2>2, <2>3
    <2> QED BY <2>1, <2>2, <2>3, <2>4 DEF TheCall
<1>4. CASE transport = "anthropic" /\ args = <<>>
    <2>1. PICK braces \in Seq(Nat) : braces = <<0>>
        BY BracesAre
    <2>2. Replies!Completed(c) = [c EXCEPT !.args = braces]
        BY <1>3, <1>4, <2>1 DEF Replies!Completed, Replies!Braces
    <2>3. [c EXCEPT !.args = braces] = TheCall(k, braces)
        BY <1>3, OtherArgs
    <2>4. TheCall(k, braces) \in CallType
        BY MeantHas
    <2>5. TheCall(k, braces).args = braces
        BY DEF TheCall
    <2>6. reply.cut
        <3>1. args # <<2 * k, 2 * k + 1>>
            BY <1>4
        <3> QED BY <1>2, <3>1
    <2>7. PICK d : d = TheCall(k, braces) /\ d.args = braces
        BY <2>5
    <2>8. Faithful(d, k)
        BY <1>4, <2>1, <2>6, <2>7 DEF Faithful
    <2> QED BY <2>2, <2>3, <2>4, <2>7, <2>8
<1>5. CASE ~(transport = "anthropic" /\ args = <<>>)
    <2>1. Replies!Completed(c) = c
        BY <1>3, <1>5 DEF Replies!Completed
    <2>2. c \in CallType
        BY <1>3, MeantHas
    <2>3. Faithful(c, k)
        BY <1>2, <1>3 DEF Faithful
    <2> QED BY <2>1, <2>2, <2>3
<1> QED BY <1>4, <1>5

FinishedCalls == [k \in DOMAIN pieces |-> Replies!Completed(pieces[k])]

LEMMA CompletedIs ==
    ASSUME NEW n \in Nat, n = Len(reply.names)
    PROVE  Replies!CompletedCalls = Spread(PickOf(FinishedCalls, DOMAIN pieces), UpTo(n))
<1>1. \A k \in 1..n : UpTo(n)[k] = k
    BY DEF UpTo
<1>2. Len(UpTo(n)) = n
    BY DEF UpTo
<1>3. PICK D : D = DOMAIN pieces
    OBVIOUS
<1>4. PICK F : F = FinishedCalls /\ \A k \in D : F[k] = Replies!Completed(pieces[k])
    <2>1. PICK F : F = FinishedCalls
        OBVIOUS
    <2>2. F = [k \in D |-> Replies!Completed(pieces[k])]
        BY <1>3, <2>1, Zenon DEF FinishedCalls
    <2>3. \A k \in D : F[k] = Replies!Completed(pieces[k])
        BY <2>2, Zenon
    <2> QED BY <2>1, <2>3
<1>5. \A k \in 1..n : PickOf(F, D)[k] = IF k \in D THEN <<F[k]>> ELSE <<>>
    BY DEF PickOf
<1>6. ASSUME NEW k \in 1..n
      PROVE  (IF k \in D THEN <<Replies!Completed(pieces[k])>> ELSE <<>>) = PickOf(F, D)[UpTo(n)[k]]
    <2>1. PickOf(F, D)[UpTo(n)[k]] = IF k \in D THEN <<F[k]>> ELSE <<>>
        BY <1>1, <1>5
    <2>2. k \in D => F[k] = Replies!Completed(pieces[k])
        BY <1>4
    <2> QED BY <2>1, <2>2, Zenon
<1>7. [k \in 1..n |-> IF k \in D THEN <<Replies!Completed(pieces[k])>> ELSE <<>>] =
      [k \in 1..n |-> PickOf(F, D)[UpTo(n)[k]]]
    BY <1>6, Zenon
<1>8. Replies!CompletedCalls =
      Replies!Joined([k \in 1..n |-> IF k \in D THEN <<Replies!Completed(pieces[k])>> ELSE <<>>])
    BY <1>3, Zenon DEF Replies!CompletedCalls
<1>9. Spread(PickOf(F, D), UpTo(n)) = Replies!Joined([k \in 1..n |-> PickOf(F, D)[UpTo(n)[k]]])
    BY <1>2, Zenon DEF Spread
<1> QED BY <1>3, <1>4, <1>7, <1>8, <1>9

LEMMA PiecesServed ==
    ASSUME ReplyTypes, Collects, pc = "stream", Replies!Ended, ~Replies!Nameless
    PROVE  Replies!CompletedCalls \in Seq(CallType) /\ FromServer(Replies!CompletedCalls)
<1>0. /\ reply.cut \/ \A k \in DOMAIN progress : progress[k] >= 3
      /\ \A k \in DOMAIN pieces : pieces[k].id # Replies!NoId /\ pieces[k].name # ""
    BY Zenon DEF Replies!Ended, Replies!Nameless
<1>1. PICK n \in Nat : n = Len(reply.names)
    BY LenProperties DEF ReplyTypes
<1>2. PICK D : D = DOMAIN pieces
    OBVIOUS
<1>3. /\ progress \in [1..n -> 0..4] /\ D = {k \in 1..n : progress[k] # 0}
      /\ \A k \in D : Partly(pieces[k], k, progress[k])
    BY <1>1, <1>2 DEF Collects
<1>4. PICK F : F = FinishedCalls /\ \A k \in D : F[k] = Replies!Completed(pieces[k])
    <2>1. PICK F : F = FinishedCalls
        OBVIOUS
    <2>2. F = [k \in D |-> Replies!Completed(pieces[k])]
        BY <1>2, <2>1, Zenon DEF FinishedCalls
    <2>3. \A k \in D : F[k] = Replies!Completed(pieces[k])
        BY <2>2, Zenon
    <2> QED BY <2>1, <2>3
<1>5. ASSUME NEW k \in D PROVE F[k] \in CallType /\ Faithful(F[k], k)
    <2>1. k \in Nat /\ k \in 1..n /\ progress[k] \in 1..4
        BY <1>3
    <2>2. PICK m \in 1..4 : m = progress[k]
        BY <2>1
    <2>3. PICK c : c = pieces[k]
        OBVIOUS
    <2>4. Partly(c, k, m) /\ c.id # Replies!NoId /\ c.name # ""
        BY <1>0, <1>2, <1>3, <2>2, <2>3
    <2>5. ~reply.cut => m >= 3
        BY <1>0, <1>3, <2>1, <2>2
    <2>6. Replies!Completed(c) \in CallType /\ Faithful(Replies!Completed(c), k)
        BY <1>1, <2>1, <2>4, <2>5, CompletedCall
    <2> QED BY <1>4, <2>3, <2>6
<1>6. Makes(F, D, CallType)
    BY <1>5 DEF Makes
<1>7. PICK s \in Seq(CallType) : s = Replies!CompletedCalls /\ Picked(s, F, D, n)
    BY <1>1, <1>2, <1>4, <1>6, CompletedIs, PickedIs
<1>8. PICK place \in [1..Len(s) -> 1..n] :
       /\ \A i, j \in 1..Len(s) : i < j => place[i] < place[j]
       /\ \A i \in 1..Len(s) : place[i] \in D /\ s[i] = F[place[i]]
       /\ 1..n \subseteq D => Len(s) = n
    BY <1>7 DEF Picked
<1>9. \A i \in 1..Len(s) : Faithful(s[i], place[i])
    BY <1>5, <1>8
<1>10. ~reply.cut => Len(s) = n
    <2> SUFFICES ASSUME ~reply.cut PROVE Len(s) = n
        OBVIOUS
    <2>1. ASSUME NEW k \in 1..n PROVE k \in D
        <3>1. progress[k] >= 3 /\ progress[k] \in 0..4
            BY <1>0, <1>3
        <3> QED BY <1>3, <3>1
    <2> QED BY <1>8, <2>1
<1>11. FromServer(s)
    BY <1>1, <1>8, <1>9, <1>10 DEF FromServer
<1> QED BY <1>7, <1>11

LEMMA SameServer ==
    ASSUME UNCHANGED <<transport, reply, served>>, NEW s, FromServer(s)
    PROVE  FromServer(s)'
BY DEF FromServer, Faithful, TheCall

-----------------------------------------------------------------------------
(* What stays when the talk and the count of the replies do.               *)
LEMMA SameTalk ==
    ASSUME Talks, Matches, NamesAgree, UNCHANGED <<turns, pending, served>>,
           pc # "idle", pc' # "idle",
           pc' \in {"stream", "answered"} => pc \in {"stream", "answered"}
    PROVE  Talks' /\ Matches' /\ NamesAgree'
BY DEF Talks, Matches, NamesAgree, CallsMade, Earlier

LEMMA FewerNames ==
    ASSUME NamesAgree, CallsMade' \subseteq CallsMade, served' = served, pc' \in {"idle", "request"}
    PROVE  NamesAgree'
BY DEF NamesAgree, Alike, Earlier

LEMMA CallsAreTyped ==
    ASSUME ReplyTypes
    PROVE  CallsMade \subseteq CallType
<1>1. Calls(turns) \in Seq(CallType) /\ Calls(pending) \in Seq(CallType)
    BY CallsJoined DEF ReplyTypes
<1> QED BY <1>1, MembersJoined DEF CallsMade

LEMMA NoCalls ==
    /\ <<>> \in Seq(TalkMessages) /\ Calls(<<>>) = <<>> /\ Matched(<<>>) /\ Members(<<>>) = {}
<1>1. Calls(<<>>) = <<>> /\ Spread(ResultsOf, <<>>) = <<>>
    BY SpreadEmpty DEF Calls
<1>2. Over(IdOf, <<>>) = <<>>
    BY DEF Over
<1>3. Matched(<<>>)
    BY <1>1, <1>2 DEF Matched, Calls
<1>4. Members(<<>>) = {}
    BY DEF Members
<1> QED BY <1>1, <1>3, <1>4, EmptySeq

LEMMA UserIs ==
    /\ Replies!User \in TalkMessages /\ Replies!User.role = "user" /\ Replies!User.text
    /\ Replies!User.calls = <<>>
<1>1. PICK spoke, none : spoke = TRUE /\ none = Replies!NoId
    OBVIOUS
<1>2. Replies!User = [role |-> "user", text |-> spoke, calls |-> <<>>, id |-> none]
    BY <1>1, Zenon DEF Replies!User, Replies!Message
<1>3. none \in CallIds /\ spoke \in BOOLEAN
    BY <1>1 DEF Replies!NoId, CallIds
<1>4. PICK m : m = [role |-> "user", text |-> spoke, calls |-> <<>>, id |-> none]
    OBVIOUS
<1>5. m \in TalkMessages /\ m.role = "user" /\ m.text = spoke /\ m.calls = <<>>
    BY <1>3, <1>4 DEF TalkMessages, Roles
<1> QED BY <1>1, <1>2, <1>4, <1>5

LEMMA AssistantIs ==
    ASSUME NEW spoke \in BOOLEAN, NEW s \in Seq(CallType)
    PROVE  /\ Replies!Assistant(spoke, s) \in TalkMessages /\ Replies!Assistant(spoke, s).role = "assistant"
           /\ Replies!Assistant(spoke, s).text = spoke /\ Replies!Assistant(spoke, s).calls = s
<1>1. PICK none : none = Replies!NoId
    OBVIOUS
<1>2. Replies!Assistant(spoke, s) = [role |-> "assistant", text |-> spoke, calls |-> s, id |-> none]
    BY <1>1, Zenon DEF Replies!Assistant, Replies!Message
<1>3. none \in CallIds
    BY <1>1 DEF Replies!NoId, CallIds
<1>4. PICK m : m = [role |-> "assistant", text |-> spoke, calls |-> s, id |-> none]
    OBVIOUS
<1>5. m \in TalkMessages /\ m.role = "assistant" /\ m.text = spoke /\ m.calls = s
    BY <1>3, <1>4 DEF TalkMessages, Roles
<1> QED BY <1>2, <1>4, <1>5

LEMMA NoReplyIs == Replies!NoReply \in [text : BOOLEAN, names : Seq(ToolNames), cut : BOOLEAN]
BY DEF Replies!NoReply

LEMMA AskStep ==
    ASSUME RepliesInv, Replies!Ask
    PROVE  RepliesInv'
<1>1. /\ pc = "idle" /\ pending' = <<Replies!User>> /\ pc' = "request"
      /\ UNCHANGED <<transport, turns, reply, progress, pieces, made, served>>
    BY Zenon DEF Replies!Ask, Replies!wire
<1>2. PICK m \in TalkMessages : m = Replies!User /\ m.role = "user" /\ m.text /\ m.calls = <<>>
    BY UserIs
<1>3. turns \in Seq(TalkMessages)
    BY DEF RepliesInv, ReplyTypes
<1>4. Append(turns, m) = turns \o <<m>>
    BY <1>3, AppendIsConcat
<1>5. PICK none \in Seq(TalkMessages) : none = <<>>
    BY EmptySeq
<1>6. Append(none, m) = <<m>>
    BY <1>5
<1>7. ReplyTypes'
    <2>1. <<m>> \in Seq(TalkMessages)
        OBVIOUS
    <2> QED BY <1>1, <1>2, <2>1 DEF RepliesInv, ReplyTypes
<1>8. Talks'
    <2>1. Asking(Replies!AnthropicMessages(Append(turns, m)))
        BY <1>2, <1>3, AskTalks DEF RepliesInv, Talks
    <2> QED BY <1>1, <1>2, <1>4, <2>1 DEF RepliesInv, Talks
<1>9. m.role # "tool"
    BY <1>2
<1>10. Matched(<<m>>) /\ Calls(<<m>>) = <<>>
    <2>1. Matched(none) /\ Calls(none) = <<>>
        BY <1>5, NoCalls
    <2>2. Matched(Append(none, m)) /\ Calls(Append(none, m)) = Calls(none)
        BY <1>2, <1>9, <2>1, PlainMessage
    <2> QED BY <1>6, <2>1, <2>2
<1>11. Matches'
    BY <1>1, <1>2, <1>10 DEF RepliesInv, Matches
<1>12. NamesAgree'
    <2>1. CallsMade' = Members(Calls(turns)) \cup Members(<<>>)
        BY <1>1, <1>2, <1>10 DEF CallsMade
    <2>2. CallsMade' \subseteq CallsMade
        BY <2>1, NoCalls DEF CallsMade
    <2> QED BY <1>1, <2>2, FewerNames DEF RepliesInv
<1>13. Collects' /\ Serves'
    BY <1>1 DEF Collects, Serves
<1> QED BY <1>7, <1>8, <1>11, <1>12, <1>13 DEF RepliesInv

LEMMA AbortStep ==
    ASSUME RepliesInv, Replies!Abort
    PROVE  RepliesInv'
<1>1. /\ pending' = <<>> /\ pc' = "idle" /\ reply' = Replies!NoReply /\ made' = <<>>
      /\ UNCHANGED <<transport, turns, served>>
    BY Zenon DEF Replies!Abort, Replies!Settled
<1>2. ReplyTypes'
    BY <1>1, NoReplyIs DEF RepliesInv, ReplyTypes
<1>3. Talks'
    BY <1>1 DEF RepliesInv, Talks
<1>4. Matches'
    BY <1>1, NoCalls DEF RepliesInv, Matches
<1>5. NamesAgree'
    <2>1. CallsMade' = Members(Calls(turns)) \cup Members(<<>>)
        BY <1>1, NoCalls DEF CallsMade
    <2>2. CallsMade' \subseteq CallsMade
        BY <2>1, NoCalls DEF CallsMade
    <2> QED BY <1>1, <2>2, FewerNames DEF RepliesInv
<1>6. Collects' /\ Serves'
    BY <1>1 DEF Collects, Serves
<1> QED BY <1>2, <1>3, <1>4, <1>5, <1>6 DEF RepliesInv

LEMMA ServeStep ==
    ASSUME RepliesInv, Replies!Serve
    PROVE  RepliesInv'
<1>1. /\ pc = "request" /\ served' = served + 1 /\ pieces' = <<>> /\ made' = <<>> /\ pc' = "stream"
      /\ UNCHANGED <<transport, turns, pending, seen>>
      /\ \E spoke \in BOOLEAN, names \in UNION {[1..n -> ToolNames] : n \in 0..ReplyCalls}, cut \in BOOLEAN :
            /\ reply' = [text |-> spoke, names |-> names, cut |-> cut]
            /\ progress' = [k \in 1..Len(names) |-> 0]
    BY Zenon DEF Replies!Serve, Replies!talk
<1>2. PICK spoke \in BOOLEAN, names \in UNION {[1..n -> ToolNames] : n \in 0..ReplyCalls}, cut \in BOOLEAN :
            /\ reply' = [text |-> spoke, names |-> names, cut |-> cut]
            /\ progress' = [k \in 1..Len(names) |-> 0]
    BY <1>1
<1>3. names \in Seq(ToolNames)
    <2>1. PICK n \in 0..ReplyCalls : names \in [1..n -> ToolNames]
        OBVIOUS
    <2>2. n \in Nat
        BY ServicesAssumption
    <2> QED BY <2>1, <2>2
<1>4. PICK n \in Nat : n = Len(names)
    BY <1>3, LenProperties
<1>5. PICK r : r = reply' /\ r.names = names
               /\ r \in [text : BOOLEAN, names : Seq(ToolNames), cut : BOOLEAN]
    BY <1>2, <1>3
<1>6. ReplyTypes'
    <2>1. served + 1 \in Nat /\ served + 1 # 0
        BY DEF RepliesInv, ReplyTypes
    <2> QED BY <1>1, <1>5, <2>1 DEF RepliesInv, ReplyTypes
<1>7. Talks' /\ Matches'
    BY <1>1 DEF RepliesInv, Talks, Matches
<1>8. NamesAgree'
    <2>1. CallsMade' = CallsMade
        BY <1>1 DEF CallsMade
    <2>2. ASSUME NEW c \in CallsMade PROVE Earlier(c)'
        <3>1. c \in CallType
            BY CallsAreTyped DEF RepliesInv
        <3>2. c.id.reply \in Nat /\ served \in Nat /\ c.id.reply <= served
            BY <3>1 DEF CallType, CallIds, RepliesInv, ReplyTypes, NamesAgree, Earlier
        <3>3. c.id.reply <= served + 1 /\ c.id.reply < served + 1
            BY <3>2
        <3> QED BY <1>1, <3>3 DEF Earlier
    <2> QED BY <2>1, <2>2 DEF RepliesInv, NamesAgree
<1>9. Collects'
    <2>1. progress' \in [1..n -> 0..4] /\ \A k \in 1..n : progress'[k] = 0
        BY <1>2, <1>4
    <2>2. DOMAIN pieces' = {} /\ {k \in 1..n : progress'[k] # 0} = {}
        BY <1>1, <2>1
    <2>3. \A k \in DOMAIN pieces' : FALSE
        BY <2>2
    <2> QED BY <1>4, <1>5, <2>1, <2>2, <2>3 DEF Collects
<1>10. Serves'
    BY <1>1 DEF Serves
<1> QED BY <1>6, <1>7, <1>8, <1>9, <1>10 DEF RepliesInv

LEMMA ArrivesKeeps ==
    ASSUME RepliesInv, Replies!Arrives
    PROVE  RepliesInv'
<1>1. pc = "stream" /\ UNCHANGED <<transport, turns, pending, seen, reply, made, pc, served>>
    BY Zenon DEF Replies!Arrives, Replies!talk
<1>2. ReplyTypes'
    BY <1>1 DEF RepliesInv, ReplyTypes
<1>3. Talks' /\ Matches' /\ NamesAgree'
    BY <1>1, SameTalk DEF RepliesInv
<1>4. Collects'
    BY ArrivesStep
<1>5. Serves'
    BY <1>1 DEF Serves
<1> QED BY <1>2, <1>3, <1>4, <1>5 DEF RepliesInv

(* The reply is complete.                                                  *)
LEMMA AnsweredStep ==
    ASSUME RepliesInv, pc = "stream", pc' = "answered", NEW s \in Seq(CallType), FromServer(s),
           made' = s, UNCHANGED <<transport, turns, pending, reply, served>>
    PROVE  RepliesInv'
<1>1. ReplyTypes'
    BY DEF RepliesInv, ReplyTypes
<1>2. Talks' /\ Matches' /\ NamesAgree'
    BY SameTalk DEF RepliesInv
<1>3. Collects'
    BY DEF Collects
<1>4. Serves'
    BY DEF Serves, FromServer, Faithful, TheCall
<1> QED BY <1>1, <1>2, <1>3, <1>4 DEF RepliesInv

LEMMA FinishesStep ==
    ASSUME RepliesInv, Replies!Finishes
    PROVE  RepliesInv'
<1>1. /\ pc = "stream" /\ pc' = "answered"
      /\ Replies!Ended /\ ~Replies!Nameless
      /\ made' = IF transport = "responses" /\ ~reply.cut THEN Replies!Absorbed ELSE Replies!CompletedCalls
      /\ UNCHANGED <<transport, turns, pending, reply, served>>
    BY Zenon DEF Replies!Finishes, Replies!talk
<1>2. CASE transport = "responses" /\ ~reply.cut
    <2>1. PICK s : s = Replies!Absorbed
        OBVIOUS
    <2>2. s \in Seq(CallType) /\ FromServer(s)
        BY <2>1, AllServed DEF RepliesInv, Replies!Absorbed
    <2>3. made' = s
        BY <1>1, <1>2, <2>1
    <2> QED BY <1>1, <2>2, <2>3, AnsweredStep
<1>3. CASE ~(transport = "responses" /\ ~reply.cut)
    <2>1. Replies!CompletedCalls \in Seq(CallType) /\ FromServer(Replies!CompletedCalls)
        BY <1>1, PiecesServed DEF RepliesInv
    <2>2. PICK s \in Seq(CallType) : s = Replies!CompletedCalls /\ FromServer(s)
        BY <2>1
    <2>3. made' = s
        BY <1>1, <1>3, <2>2
    <2> QED BY <1>1, <2>2, <2>3, AnsweredStep
<1> QED BY <1>2, <1>3

LEMMA AnswersAtOnceStep ==
    ASSUME RepliesInv, Replies!AnswersAtOnce
    PROVE  RepliesInv'
<1>1. /\ pc = "stream" /\ pc' = "answered"
      /\ made' = [k \in 1..Len(reply.names) |->
                    IF transport = "google" THEN Replies!Numbered(Replies!Meant(k), k) ELSE Replies!Meant(k)]
      /\ UNCHANGED <<transport, turns, pending, reply, served>>
    BY Zenon DEF Replies!AnswersAtOnce, Replies!talk
<1>2. PICK s : s = made'
    OBVIOUS
<1>3. \A k : Replies!Numbered(Replies!Meant(k), k) = Replies!Meant(k)
    BY <1>1, NumberedIs DEF RepliesInv
<1>4. s = [k \in 1..Len(reply.names) |-> Replies!Meant(k)]
    BY <1>1, <1>2, <1>3
<1>5. s \in Seq(CallType) /\ FromServer(s)
    BY <1>4, AllServed DEF RepliesInv
<1> QED BY <1>1, <1>2, <1>5, AnsweredStep

(* A call that is not named fails the reply.                               *)
LEMMA FailsStep ==
    ASSUME RepliesInv, Replies!Fails
    PROVE  RepliesInv'
<1>1. pc = "stream" /\ pc' = "failed" /\ UNCHANGED <<transport, turns, pending, seen, reply, made, served>>
    BY Zenon DEF Replies!Fails, Replies!talk, Replies!wire
<1>2. ReplyTypes'
    BY <1>1 DEF RepliesInv, ReplyTypes
<1>3. Talks' /\ Matches' /\ NamesAgree'
    BY <1>1, SameTalk DEF RepliesInv
<1>4. Collects' /\ Serves'
    BY <1>1 DEF Collects, Serves
<1> QED BY <1>2, <1>3, <1>4 DEF RepliesInv

(* The reply without calls ends the turn.                                  *)
LEMMA CompletesStep ==
    ASSUME RepliesInv, Replies!Completes
    PROVE  RepliesInv'
<1>1. /\ pc = "answered" /\ turns' = turns \o Append(pending, Replies!Assistant(TRUE, <<>>))
      /\ pending' = <<>> /\ pc' = "idle" /\ reply' = Replies!NoReply /\ made' = <<>>
      /\ UNCHANGED <<transport, served>>
    BY Zenon DEF Replies!Completes, Replies!Settled
<1>2. PICK spoke \in BOOLEAN, none \in Seq(CallType) : spoke = TRUE /\ none = <<>>
    BY EmptySeq
<1>3. PICK m \in TalkMessages : /\ m = Replies!Assistant(TRUE, <<>>) /\ m.role = "assistant"
                            /\ m.text /\ m.calls = <<>>
    <2>1. Replies!Assistant(spoke, none) = Replies!Assistant(TRUE, <<>>)
        BY <1>2, Zenon
    <2> QED BY <1>2, <2>1, AssistantIs
<1>4. turns \in Seq(TalkMessages) /\ pending \in Seq(TalkMessages)
    BY DEF RepliesInv, ReplyTypes
<1>5. PICK h \in Seq(TalkMessages) : h = turns \o pending
    BY <1>4, ConcatProperties
<1>6. turns' = Append(h, m)
    <2>1. turns' = turns \o Append(pending, m)
        BY <1>1, <1>3, Zenon
    <2>2. turns \o Append(pending, m) = Append(turns \o pending, m)
        BY <1>4, AppendToJoined
    <2> QED BY <1>5, <2>1, <2>2
<1>7. Append(h, m) \in Seq(TalkMessages)
    OBVIOUS
<1>8. m.role # "tool"
    BY <1>3
<1>9. ReplyTypes'
    <2>1. turns' \in Seq(TalkMessages)
        BY <1>6, <1>7
    <2>2. reply' \in [text : BOOLEAN, names : Seq(ToolNames), cut : BOOLEAN]
        BY <1>1, NoReplyIs
    <2>3. transport' = transport /\ served' = served /\ made' = <<>> /\ pending' = <<>> /\ pc' = "idle"
        BY <1>1
    <2> QED BY <2>1, <2>2, <2>3 DEF RepliesInv, ReplyTypes
<1>10. Talks'
    <2>1. Asking(Replies!AnthropicMessages(h))
        BY <1>1, <1>5 DEF RepliesInv, Talks
    <2>2. AtRest(Replies!AnthropicMessages(Append(h, m)))
        BY <1>3, <2>1, CompleteTalks
    <2> QED BY <1>1, <1>6, <2>2 DEF Talks
<1>11. Matches'
    <2>1. Matched(h)
        BY <1>4, <1>5, MatchedJoined DEF RepliesInv, Matches
    <2>2. Matched(Append(h, m))
        BY <1>3, <1>8, <2>1, PlainMessage
    <2> QED BY <1>1, <1>6, <2>2, NoCalls DEF Matches
<1>12. NamesAgree'
    <2>1. Calls(turns') = Calls(turns) \o Calls(pending)
        <3>1. Calls(Append(h, m)) = Calls(h)
            BY <1>3, <1>8, PlainMessage
        <3>2. Calls(h) = Calls(turns) \o Calls(pending)
            BY <1>4, <1>5, CallsJoined
        <3> QED BY <1>6, <3>1, <3>2
    <2>2. Calls(turns) \in Seq(CallType) /\ Calls(pending) \in Seq(CallType)
        BY <1>4, CallsJoined
    <2>3. Members(Calls(turns')) = CallsMade
        BY <2>1, <2>2, MembersJoined DEF CallsMade
    <2>4. CallsMade' = Members(Calls(turns')) \cup Members(Calls(<<>>))
        BY <1>1 DEF CallsMade
    <2>5. CallsMade' \subseteq CallsMade
        BY <2>3, <2>4, NoCalls
    <2> QED BY <1>1, <2>5, FewerNames DEF RepliesInv
<1>13. Collects' /\ Serves'
    BY <1>1 DEF Collects, Serves
<1> QED BY <1>9, <1>10, <1>11, <1>12, <1>13 DEF RepliesInv

(* A call of the reply in progress has its number, and the name the server *)
(* gave it.                                                                *)
LEMMA MadeNamed ==
    ASSUME RepliesInv, pc = "answered", NEW c \in Members(made)
    PROVE  c.id.reply = served /\ c.name = reply.names[c.id.call]
<1>1. FromServer(made)
    BY DEF RepliesInv, Serves
<1>2. PICK place \in [1..Len(made) -> 1..Len(reply.names)] : \A i \in 1..Len(made) : Faithful(made[i], place[i])
    BY <1>1 DEF FromServer
<1>3. PICK i \in 1..Len(made) : c = made[i]
    BY DEF Members
<1>4. PICK k : k = place[i] /\ c = TheCall(k, c.args)
    BY <1>2, <1>3 DEF Faithful
<1>5. c = [id |-> [reply |-> served, call |-> k], name |-> reply.names[k], args |-> c.args]
    BY <1>4 DEF TheCall
<1>6. PICK args : args = c.args
    OBVIOUS
<1>7. c = [id |-> [reply |-> served, call |-> k], name |-> reply.names[k], args |-> args]
    BY <1>5, <1>6
<1> QED BY <1>7

LEMMA NamesGrow ==
    ASSUME RepliesInv, pc = "answered", CallsMade' = CallsMade \cup Members(made),
           UNCHANGED served, pc' = "request"
    PROVE  NamesAgree'
<1>1. made \in Seq(CallType) /\ served \in Nat
    BY DEF RepliesInv, ReplyTypes
<1>2. Members(made) \subseteq CallType /\ CallsMade \subseteq CallType
    BY <1>1, MembersJoined, CallsAreTyped DEF RepliesInv
<1>3. ASSUME NEW c \in CallsMade PROVE c.id.reply < served
    BY <1>3 DEF RepliesInv, NamesAgree, Earlier
<1>4. ASSUME NEW c \in Members(made) PROVE c.id.reply = served /\ c.name = reply.names[c.id.call]
    BY MadeNamed
<1>5. ASSUME NEW c \in CallsMade', NEW d \in CallsMade', c.id = d.id PROVE c.name = d.name
    <2>1. CASE c \in CallsMade /\ d \in CallsMade
        BY <1>5, <2>1 DEF RepliesInv, NamesAgree, Alike
    <2>2. CASE c \in Members(made) /\ d \in Members(made)
        BY <1>4, <1>5, <2>2
    <2>3. ASSUME NEW a \in CallsMade, NEW b \in Members(made) PROVE a.id # b.id
        <3>1. a.id.reply < served /\ b.id.reply = served
            BY <1>3, <1>4
        <3> QED BY <1>1, <3>1
    <2> QED BY <1>5, <2>1, <2>2, <2>3
<1>6. ASSUME NEW c \in CallsMade' PROVE Earlier(c)'
    <2>1. c.id.reply <= served
        <3>1. CASE c \in CallsMade
            <4>1. c.id.reply \in Nat /\ c.id.reply < served
                BY <1>2, <1>3, <3>1 DEF CallType, CallIds
            <4> QED BY <1>1, <4>1
        <3>2. CASE c \in Members(made)
            BY <1>1, <1>4, <3>2
        <3> QED BY <3>1, <3>2
    <2> QED BY <2>1 DEF Earlier
<1> QED BY <1>5, <1>6 DEF NamesAgree, Alike

(* The calls and their results.                                            *)
LEMMA RecordsStep ==
    ASSUME RepliesInv, Replies!Records
    PROVE  RepliesInv'
<1>1. /\ pc = "answered" /\ made # <<>>
      /\ pending' = Append(pending, Replies!Assistant(reply.text, made))
                      \o [i \in 1..Len(made) |-> Replies!Tool(made[i].id)]
      /\ pc' = "request" /\ reply' = Replies!NoReply /\ made' = <<>>
      /\ UNCHANGED <<transport, turns, served>>
    BY Zenon DEF Replies!Records, Replies!Settled
<1>2. turns \in Seq(TalkMessages) /\ pending \in Seq(TalkMessages) /\ made \in Seq(CallType) /\ reply.text \in BOOLEAN
    BY DEF RepliesInv, ReplyTypes
<1>3. PICK s \in Seq(CallType) : s = made
    BY <1>2
<1>4. PICK m \in TalkMessages : m = Replies!Assistant(reply.text, made) /\ m.role = "assistant" /\ m.calls = s
    BY <1>2, <1>3, AssistantIs
<1>5. PICK results \in Seq(TalkMessages) : results = Over(ToolOf, s)
    BY ToolsHave
<1>6. [i \in 1..Len(made) |-> Replies!Tool(made[i].id)] = results
    <2>1. \A i \in 1..Len(s) : s[i] \in CallType
        BY ElementOfSeq
    <2>2. \A i \in 1..Len(s) : ToolOf[s[i]] = Replies!Tool(s[i].id)
        BY <2>1, Zenon DEF ToolOf
    <2> QED BY <1>3, <1>5, <2>2, Zenon DEF Over
<1>7. PICK g \in Seq(TalkMessages) : g = Append(pending, m)
    <2>1. PICK p \in Seq(TalkMessages) : p = pending
        BY <1>2
    <2>2. Append(p, m) \in Seq(TalkMessages)
        OBVIOUS
    <2> QED BY <2>1, <2>2
<1>8. pending' = g \o results
    BY <1>1, <1>4, <1>6, <1>7, Zenon
<1>9. PICK h \in Seq(TalkMessages) : h = turns \o pending
    BY <1>2, ConcatProperties
<1>10. turns \o pending' = Append(h, m) \o results
    <2>1. turns \o g = Append(h, m)
        BY <1>2, <1>7, <1>9, AppendToJoined
    <2>2. (turns \o g) \o results = turns \o (g \o results)
        <3>1. turns \in Seq(TalkMessages)
            BY <1>2
        <3> QED BY <3>1, Joining
    <2> QED BY <1>8, <2>1, <2>2
<1>11. /\ g \o results \in Seq(TalkMessages) /\ Calls(g \o results) = Calls(pending) \o s /\ Matched(g \o results)
    BY <1>2, <1>4, <1>5, <1>7, AnswerMatches DEF RepliesInv, Matches
<1>12. ReplyTypes'
    <2>1. reply' \in [text : BOOLEAN, names : Seq(ToolNames), cut : BOOLEAN]
        BY <1>1, NoReplyIs
    <2>2. pending' \in Seq(TalkMessages)
        BY <1>8, <1>11
    <2>3. transport' = transport /\ served' = served /\ made' = <<>> /\ turns' = turns /\ pc' = "request"
        BY <1>1
    <2> QED BY <2>1, <2>2, <2>3 DEF RepliesInv, ReplyTypes
<1>13. Talks'
    <2>1. Asking(Replies!AnthropicMessages(h))
        BY <1>1, <1>9 DEF RepliesInv, Talks
    <2>2. m.calls # <<>>
        BY <1>1, <1>3, <1>4
    <2>3. Asking(Replies!AnthropicMessages(Append(h, m) \o results))
        BY <1>4, <1>5, <2>1, <2>2, RecordTalks
    <2>4. Asking(Replies!AnthropicMessages(turns \o pending'))
        BY <1>10, <2>3
    <2> QED BY <1>1, <2>4 DEF RepliesInv, Talks
<1>14. Matches'
    BY <1>1, <1>8, <1>11 DEF RepliesInv, Matches
<1>15. NamesAgree'
    <2>1. Calls(pending) \in Seq(CallType)
        BY <1>2, CallsJoined
    <2>2. Members(Calls(pending) \o s) = Members(Calls(pending)) \cup Members(s)
        BY <2>1, MembersJoined
    <2>3. CallsMade' = Members(Calls(turns)) \cup Members(Calls(g \o results))
        BY <1>1, <1>8 DEF CallsMade
    <2>4. CallsMade' = CallsMade \cup Members(made)
        BY <1>3, <1>11, <2>2, <2>3 DEF CallsMade
    <2> QED BY <1>1, <2>4, NamesGrow
<1>16. Collects' /\ Serves'
    BY <1>1 DEF Collects, Serves
<1> QED BY <1>12, <1>13, <1>14, <1>15, <1>16 DEF RepliesInv

LEMMA RepliesStart ==
    ASSUME Replies!Init
    PROVE  RepliesInv
<1>1. /\ transport \in {"chat", "responses", "anthropic", "google"} /\ turns = <<>> /\ pending = <<>>
      /\ reply = Replies!NoReply /\ made = <<>> /\ pc = "idle" /\ served = 0
    BY Zenon DEF Replies!Init
<1>2. ReplyTypes
    BY <1>1, NoReplyIs, EmptySeq DEF ReplyTypes
<1>3. Talks
    <2>1. PICK list \in Seq(Entries) : list = <<>>
        BY EmptySeq
    <2>2. Len(list) = 0 /\ Replies!AnthropicMessages(turns) = list
        BY <1>1, <2>1, ListNone
    <2> QED BY <1>1, <2>1, <2>2 DEF Talks, AtRest, Talk
<1>4. Matches
    BY <1>1, NoCalls DEF Matches
<1>5. NamesAgree
    <2>1. CallsMade = {}
        BY <1>1, NoCalls DEF CallsMade
    <2> QED BY <2>1 DEF NamesAgree, Alike
<1>6. Collects /\ Serves
    BY <1>1 DEF Collects, Serves
<1> QED BY <1>2, <1>3, <1>4, <1>5, <1>6 DEF RepliesInv

LEMMA RepliesStep == RepliesInv /\ [Replies!Next]_(Replies!vars) => RepliesInv'
<1> SUFFICES ASSUME RepliesInv, [Replies!Next]_(Replies!vars) PROVE RepliesInv'
    OBVIOUS
<1>1. CASE UNCHANGED Replies!vars
    <2>1. UNCHANGED <<transport, turns, pending, seen, reply, progress, pieces, made, pc, served>>
        BY <1>1 DEF Replies!vars, Replies!talk, Replies!wire
    <2>2. ReplyTypes'
        BY <2>1 DEF RepliesInv, ReplyTypes
    <2>4. Collects'
        BY <2>1 DEF RepliesInv, Collects, Partly, Fragments
    <2>5. Serves'
        <3>1. CASE pc = "answered"
            <4>1. FromServer(made)'
                BY <2>1, <3>1 DEF RepliesInv, Serves, FromServer, Faithful, TheCall
            <4> QED BY <4>1 DEF Serves
        <3>2. CASE pc # "answered"
            BY <2>1, <3>2 DEF Serves
        <3> QED BY <3>1, <3>2
    <2>3. Talks' /\ Matches' /\ NamesAgree'
        BY <2>1 DEF RepliesInv, Talks, Matches, NamesAgree, CallsMade, Earlier
    <2> QED BY <2>2, <2>3, <2>4, <2>5 DEF RepliesInv
<1>2. CASE Replies!Ask
    BY <1>2, AskStep
<1>3. CASE Replies!Serve
    BY <1>3, ServeStep
<1>4. CASE Replies!Arrives
    BY <1>4, ArrivesKeeps
<1>5. CASE Replies!Finishes
    BY <1>5, FinishesStep
<1>6. CASE Replies!AnswersAtOnce
    BY <1>6, AnswersAtOnceStep
<1>7. CASE Replies!Records
    BY <1>7, RecordsStep
<1>8. CASE Replies!Completes
    BY <1>8, CompletesStep
<1>9. CASE Replies!Abort
    BY <1>9, AbortStep
<1>10. CASE Replies!Fails
    BY <1>10, FailsStep
<1> QED BY <1>1, <1>2, <1>3, <1>4, <1>5, <1>6, <1>7, <1>8, <1>9, <1>10, Zenon DEF Replies!Next

(* What the invariant says of the calls, the roles and the results.        *)
LEMMA CallsServed == RepliesInv => Replies!CallsAreTheServers
<1> SUFFICES ASSUME RepliesInv, pc = "answered"
             PROVE  \E place \in [1..Len(made) -> 1..Len(reply.names)] :
                /\ \A i, j \in 1..Len(made) : i < j => place[i] < place[j]
                /\ \A i \in 1..Len(made) :
                     LET meant == Replies!Meant(place[i])
                     IN  /\ made[i].name = meant.name
                         /\ made[i].id = Replies!Numbered(meant, place[i]).id
                         /\ \/ \E n \in 0..Len(meant.args) : made[i].args = SubSeq(meant.args, 1, n)
                            \/ transport = "anthropic" /\ made[i].args = Replies!Braces
                         /\ ~reply.cut => made[i].args = meant.args
                /\ ~reply.cut => Len(made) = Len(reply.names)
    BY Zenon DEF Replies!CallsAreTheServers
<1>1. FromServer(made)
    BY DEF RepliesInv, Serves
<1>2. PICK place \in [1..Len(made) -> 1..Len(reply.names)] :
       /\ \A i, j \in 1..Len(made) : i < j => place[i] < place[j]
       /\ \A i \in 1..Len(made) : Faithful(made[i], place[i])
       /\ ~reply.cut => Len(made) = Len(reply.names)
    BY <1>1 DEF FromServer
<1>3. ASSUME NEW i \in 1..Len(made), NEW meant, meant = Replies!Meant(place[i])
      PROVE  /\ made[i].name = meant.name
             /\ made[i].id = Replies!Numbered(meant, place[i]).id
             /\ \/ \E n \in 0..Len(meant.args) : made[i].args = SubSeq(meant.args, 1, n)
                \/ transport = "anthropic" /\ made[i].args = Replies!Braces
             /\ ~reply.cut => made[i].args = meant.args
    <2>1. place[i] \in 1..Len(reply.names) /\ Faithful(made[i], place[i])
        BY <1>2
    <2>2. PICK k : k = place[i]
        OBVIOUS
    <2>3. PICK full : full = <<2 * k, 2 * k + 1>>
        OBVIOUS
    <2>4. Len(full) = 2
        BY <2>3
    <2>5. Replies!Numbered(meant, k) = meant
        BY <1>3, <2>2, NumberedIs DEF RepliesInv
    <2>6. meant = TheCall(k, full)
        BY <1>3, <2>2, <2>3, MeantIs
    <2>7. PICK one : one = made[i]
        OBVIOUS
    <2>8. PICK args : args = one.args
        OBVIOUS
    <2>9. one = TheCall(k, args) /\ (~reply.cut => args = full)
          /\ ((\E l \in 0..2 : args = SubSeq(full, 1, l)) \/ (transport = "anthropic" /\ args = Replies!Braces))
        BY <2>1, <2>2, <2>3, <2>7, <2>8 DEF Faithful, Replies!Braces
    <2>10. one.name = meant.name /\ one.id = meant.id /\ meant.args = full
        BY <2>6, <2>9 DEF TheCall
    <2> QED BY <2>2, <2>4, <2>5, <2>7, <2>8, <2>9, <2>10
<1> QED BY <1>2, <1>3, Zenon

LEMMA RolesDo == RepliesInv => Replies!RolesAlternate
<1> SUFFICES ASSUME RepliesInv, pc = "request", NEW list, list = Replies!AnthropicMessages(turns \o pending)
             PROVE  /\ list # <<>> /\ list[1].role = "user" /\ list[Len(list)].role = "user"
                    /\ \A i \in 1..(Len(list) - 1) :
                         /\ list[i].role # list[i + 1].role
                         /\ Replies!Select("call", list[i].content) = Replies!Select("result", list[i + 1].content)
    BY Zenon DEF Replies!RolesAlternate, Replies!History
<1>1. Asking(list)
    BY DEF RepliesInv, Talks
<1>2. list # <<>> /\ list[1].role = "user" /\ list[Len(list)].role = "user"
      /\ \A i \in 1..(Len(list) - 1) : Replied(list[i], list[i + 1])
    BY <1>1 DEF Asking, Talk
<1> QED BY <1>2, Zenon DEF Replied, Called, Answered

LEMMA ResultsMatch == RepliesInv => Replies!ResultsMatchCalls
<1> SUFFICES ASSUME RepliesInv PROVE Called(Replies!Content) = Answered(Replies!Content)
    BY Zenon DEF Replies!ResultsMatchCalls, Called, Answered
<1>1. turns \in Seq(TalkMessages) /\ pending \in Seq(TalkMessages)
      /\ transport \in {"chat", "responses", "anthropic", "google"}
    BY DEF RepliesInv, ReplyTypes
<1>2. PICK h \in Seq(TalkMessages) : h = turns \o pending
    BY <1>1, ConcatProperties
<1>3. Matched(h) /\ Calls(h) = Calls(turns) \o Calls(pending)
    BY <1>1, <1>2, MatchedJoined, CallsJoined DEF RepliesInv, Matches
<1>4. /\ transport = "anthropic" => Replies!Content = Replies!Contents(Replies!AnthropicMessages(h))
      /\ transport = "google" => Replies!Content = Replies!GoogleContents(h)
      /\ transport # "anthropic" /\ transport # "google" => Replies!Content = Replies!ResponsesItems(h)
    <2>1. Replies!Content = CASE transport = "anthropic" -> Replies!Contents(Replies!AnthropicMessages(h))
                              [] transport = "google" -> Replies!GoogleContents(h)
                              [] OTHER -> Replies!ResponsesItems(h)
        BY <1>2, Zenon DEF Replies!Content, Replies!History
    <2> QED BY <1>1, <2>1
<1>5. CASE transport = "anthropic"
    <2>1. Replies!AnthropicMessages(h) \in Seq(Entries)
        <3>1. PICK m : m = Replies!User /\ m \in TalkMessages
            BY UserIs
        <3> QED BY <3>1, ListMore
    <2>2. Replies!Contents(Replies!AnthropicMessages(h)) = Spread(ItemParts, h)
        BY <2>1, HeldInIs, ListContents
    <2> QED BY <1>3, <1>4, <1>5, <2>2, ItemsMatch
<1>6. CASE transport = "google"
    <2>1. Calls(turns) \in Seq(CallType) /\ Calls(pending) \in Seq(CallType)
        BY <1>1, CallsJoined
    <2>2. Members(Calls(h)) = CallsMade
        BY <1>3, <2>1, MembersJoined DEF CallsMade
    <2>3. NamedAlike(Calls(h))
        BY <2>2, AlikeIs DEF RepliesInv, NamesAgree
    <2> QED BY <1>3, <1>4, <1>6, <2>3, GoogleMatch DEF Calls
<1>7. CASE transport # "anthropic" /\ transport # "google"
    BY <1>3, <1>4, <1>7, ResponsesIs, ItemsMatch
<1> QED BY <1>5, <1>6, <1>7

LEMMA RepliesHold == RepliesInv => Replies!RepliesAreWhole
BY CallsServed, RolesDo, ResultsMatch DEF Replies!RepliesAreWhole

LEMMA RepliesAlwaysWhole == Replies!Spec => []Replies!RepliesAreWhole
<1>1. Replies!Init => RepliesInv
    BY RepliesStart
<1>2. RepliesInv /\ [Replies!Next]_(Replies!vars) => RepliesInv'
    BY RepliesStep
<1>3. RepliesInv => Replies!RepliesAreWhole
    BY RepliesHold
<1> QED BY <1>1, <1>2, <1>3, PTL DEF Replies!Spec

-----------------------------------------------------------------------------
(* A world moves its component and leaves the others alone: to each of     *)
(* them, a behaviour of all is one of its own.                             *)
LEMMA WorldsStart ==
    MCInit => Language!Init /\ Tools!Init /\ Requests!Init /\ Web!Init /\ Catalog!Init
              /\ Frames!Init /\ Lines!Init /\ Collected!Init /\ Prompt!Init /\ Replies!Init
BY DEF MCInit

LEMMA WorldsMove ==
    ASSUME [MCNext]_allVars
    PROVE  /\ [Language!Next]_(Language!vars) /\ [Tools!Next]_(Tools!vars)
           /\ [Requests!Next]_(Requests!vars) /\ [Web!Next]_(Web!vars)
           /\ [Catalog!Next]_(Catalog!vars) /\ [Frames!Next]_(Frames!vars)
           /\ [Lines!Next]_(Lines!vars) /\ [Collected!Next]_(Collected!vars)
           /\ [Prompt!Next]_(Prompt!vars) /\ [Replies!Next]_(Replies!vars)
<1>1. /\ UNCHANGED languageVars => UNCHANGED Language!vars
      /\ UNCHANGED toolVars => UNCHANGED Tools!vars
      /\ UNCHANGED requestVars => UNCHANGED Requests!vars
      /\ UNCHANGED webVars => UNCHANGED Web!vars
      /\ UNCHANGED catalogVars => UNCHANGED Catalog!vars
      /\ UNCHANGED frameVars => UNCHANGED Frames!vars
      /\ UNCHANGED lineVars => UNCHANGED Lines!vars
      /\ UNCHANGED outputVars => UNCHANGED Collected!vars
      /\ UNCHANGED promptVars => UNCHANGED Prompt!vars
      /\ UNCHANGED replyVars => UNCHANGED Replies!vars
    BY DEF languageVars, toolVars, requestVars, webVars, catalogVars, Language!vars,
       Language!manager, Language!documents, Tools!vars, Requests!vars,
       Requests!settings, Requests!accounts, Web!vars, Catalog!vars, Catalog!files,
       Catalog!discovery, frameVars, lineVars, Frames!vars, Lines!vars,
       outputVars, Collected!vars, promptVars, Prompt!vars, replyVars,
       Replies!vars, Replies!talk, Replies!wire
<1>2. CASE UNCHANGED allVars
    BY <1>1, <1>2 DEF allVars
<1>3. CASE MCNext
    BY <1>1, <1>3, Zenon DEF MCNext
<1> QED BY <1>2, <1>3

LEMMA WorldsAreTheirs ==
    MCSpec => /\ Language!Spec /\ Tools!Spec /\ Requests!Spec /\ Web!Spec /\ Catalog!Spec
              /\ Frames!Spec /\ Lines!Spec /\ Collected!Spec /\ Prompt!Spec /\ Replies!Spec
<1>1. [MCNext]_allVars =>
        /\ [Language!Next]_(Language!vars) /\ [Tools!Next]_(Tools!vars)
        /\ [Requests!Next]_(Requests!vars) /\ [Web!Next]_(Web!vars)
        /\ [Catalog!Next]_(Catalog!vars) /\ [Frames!Next]_(Frames!vars)
        /\ [Lines!Next]_(Lines!vars) /\ [Collected!Next]_(Collected!vars)
        /\ [Prompt!Next]_(Prompt!vars) /\ [Replies!Next]_(Replies!vars)
    BY WorldsMove
<1> QED
    BY <1>1, WorldsStart, PTL
    DEF MCSpec, Language!Spec, Tools!Spec, Requests!Spec, Web!Spec, Catalog!Spec,
        Frames!Spec, Lines!Spec, Collected!Spec, Prompt!Spec, Replies!Spec

(* CallsReachTheirs of MCServices: an answer is that of the call it is     *)
(* given to, a tool is called by the name its server gives it, and no      *)
(* server process is left running.                                         *)
THEOREM CallsAlwaysReachTheirs == MCSpec => []CallsReachTheirs
BY AnswersAlwaysOwn, ToolsAlwaysDistinct, WorldsAreTheirs, PTL DEF CallsReachTheirs

(* RequestsGoHome of MCServices: a credential is sent to the provider that *)
(* issued it unless a refresh put it under another, one attempt at a       *)
(* request is passed on, and a fetch leaves only for public addresses and  *)
(* keeps its bounds.                                                       *)
THEOREM RequestsAlwaysGoHome == MCSpec => []RequestsGoHome
BY CredentialsAlwaysGoHome, FetchAlwaysContained, WorldsAreTheirs, PTL DEF RequestsGoHome

(* CatalogIsWhole of MCServices: a provider that fails takes no other's    *)
(* models away, what is known of a model is kept, and the stored directory *)
(* stays and is used when no other can be had.                             *)
THEOREM CatalogStaysWhole ==
    ASSUME ModelsListedOnce
    PROVE  MCSpec => CatalogIsWhole
BY CatalogAlwaysWhole, WorldsAreTheirs, PTL DEF CatalogIsWhole

(* BytesArriveWhole of MCServices: messages and arguments arrive as they   *)
(* were meant, however the bytes are cut and whatever is in them; of a     *)
(* command's output no value to redact is ever shown, and where none of    *)
(* them occurs in another but at its end, the cut makes no difference.     *)
THEOREM BytesAlwaysArriveWhole == MCSpec => []BytesArriveWhole
BY OutputArrives, FramesAlwaysWhole, CommandsAlwaysArrive, WorldsAreTheirs, PTL DEF BytesArriveWhole

(* RepliesAreWhole of MCServices: for any tools and any number of replies  *)
(* and of calls in them, the calls that run are those the server made,     *)
(* however its events come, and the next request of every protocol pairs   *)
(* each call with its result and alternates the roles.                     *)
THEOREM RepliesStayWhole == MCSpec => []RepliesAreWhole
BY RepliesAlwaysWhole, WorldsAreTheirs, PTL DEF RepliesAreWhole

(* InstructionsAreOrdered of MCServices: for any directories, files and    *)
(* limit, the prompt gets the instructions from the project root to the    *)
(* launch directory, in that order and none left out, up to what fits.     *)
THEOREM InstructionsAlwaysOrdered == MCSpec => []InstructionsAreOrdered
BY PromptAlwaysOrdered, WorldsAreTheirs, PTL DEF InstructionsAreOrdered
=============================================================================
