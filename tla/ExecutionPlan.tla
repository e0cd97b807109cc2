--------------------------- MODULE ExecutionPlan ----------------------------
(***************************************************************************)
(* What is decided about a command before it starts: the request that the  *)
(* shell tool or a hook builds, the base policy, the operator's trusted    *)
(* rules, the backend that discovery found able to keep the policy's       *)
(* contract, the prepared limits and the user's approval                   *)
(* (ExecutionService.execute and what it calls).                           *)
(* A command is the class the policy puts it in.  Levels are ranks: 0 none *)
(* or unsupported, 1 best effort, 2 enforced.  A limit of 0 is "no limit". *)
(***************************************************************************)
EXTENDS Naturals, Sequences

CONSTANTS
    Arguments,   \* what the model, or the author of a hook, may ask for
    Configs,     \* execution.json: minimum_isolation, limit_enforcement, ...
    Rules,       \* trusted-commands.json: a rule, or NoRule, for each class
    Hosts,       \* what discovery may find
    NoRule

Risks == 0..3     \* low, medium, high, critical
Levels == 0..2
Fields == {"filesystem", "network", "memory", "cpu", "processes", "timeout", "cancellation"}
Optional == {"memory", "cpu", "processes"}
Bounded == Optional \cup {"time", "output"}
Backends == {"posix", "windows", "container"}
Shells == {"posix", "powershell"}

\* The classes of the policy rules, each with the risk and the need of approval
\* it stands for; "unknown" takes the configured risk.
Denied == {"privileged", "piped"}
Classes == Denied \cup {"read", "test", "build", "install", "git", "delete",
                        "destroy", "permission", "network", "unknown"}

RequestType == [by: {"shell", "hook"}, mode: {"exec", "shell"}, class: Classes,
                files: {"host", "workspace-read", "workspace-write"}, online: BOOLEAN,
                prefers: {"auto", "local", "container"}, shell: Shells \cup {"auto"},
                limits: [Bounded -> Nat]]
ConfigType == [isolation: {1, 2}, enforcement: {1, 2}, unknown: Risks,
               ceiling: [Bounded -> Nat], offline: BOOLEAN]
RuleType == [ceiling: Risks, ask: BOOLEAN]
HostType == [family: {"posix", "windows", "unknown"}, system: {"linux", "macos", "windows", "unknown"},
             shells: SUBSET Shells, controllers: SUBSET Optional, docker: BOOLEAN, image: BOOLEAN]

ASSUME ArgumentsAssumption == Arguments \subseteq RequestType
ASSUME ConfigsAssumption == Configs \subseteq ConfigType
ASSUME RulesAssumption == Rules \subseteq [Classes -> RuleType \cup {NoRule}] /\ NoRule \notin RuleType
ASSUME HostsAssumption == Hosts \subseteq HostType

VARIABLES
    request,   \* the ExecutionRequest
    config,    \* PolicyConfig
    rules,     \* TrustedRuleSet
    host,      \* the facts the DiscoverySnapshot is derived from
    stage,
    decision,  \* PolicyDecision
    chosen,    \* SelectedBackend
    limits,    \* PreparedExecution.request.limits
    asked      \* the user was asked

vars == <<request, config, rules, host, stage, decision, chosen, limits, asked>>

-----------------------------------------------------------------------------
(* Limits.  A tool call carries no environment of its own, so the policy's   *)
(* findings about environment names never arise.                             *)

Least(a, b) == IF a <= b THEN a ELSE b
Most(a, b) == IF a >= b THEN a ELSE b

\* _stricter_optional; a bound that is always there is never 0
Stricter(a, b) == IF a = 0 THEN b ELSE IF b = 0 THEN a ELSE Least(a, b)

\* tighten_limits
Tightened(wanted, ceiling) == [k \in Bounded |-> Stricter(wanted[k], ceiling[k])]

\* build_shell_request and build_hook_request: the tool starts from the
\* ceiling, a hook from its own time and output and nothing else
Built(a, c) ==
    IF a.by = "shell" THEN [a EXCEPT !.limits = Tightened(a.limits, c.ceiling)]
    ELSE [a EXCEPT !.mode = "exec", !.files = "host", !.online = TRUE, !.prefers = "local",
                   !.shell = "auto",
                   !.limits = [k \in Bounded |-> IF k \in Optional THEN 0 ELSE a.limits[k]]]

-----------------------------------------------------------------------------
(* The base policy. *)

\* evaluate_policy: the greatest risk of the findings.  A script is never less
\* than high, and only what is denied is more.
Risk(r, c) ==
    IF r.class \in Denied THEN 3
    ELSE IF r.mode = "shell" THEN 2
    ELSE IF r.class = "unknown" THEN c.unknown
    ELSE CASE r.class \in {"read", "test", "build"} -> 0
           [] r.class \in {"install", "git", "delete"} -> 1
           [] r.class \in {"destroy", "permission", "network"} -> 2

Forbidden(r) == r.class \in Denied

\* evaluate_policy: some finding asks, or the risk is not low
Asks(r, c) ==
    ~Forbidden(r) /\ (\/ Risk(r, c) > 0
                      \/ r.class = "unknown"
                      \/ r.files \in {"host", "workspace-write"}
                      \/ r.online)

\* _base_requirements
Base(r, c) ==
    [f \in Fields |->
        CASE f = "filesystem"   -> IF r.files = "host" THEN 0 ELSE c.isolation
          [] f = "network"      -> IF r.online THEN 0 ELSE c.isolation
          [] f \in Optional     -> IF r.limits[f] = 0 THEN 0 ELSE c.enforcement
          [] OTHER              -> c.enforcement]

(* Mutant: a critical command is isolated like any other.                *)
MutantNeeds(r, c) == Base(r, c)

\* merge_requirements, with the isolation that a critical command must have
Needs(r, c) ==
    [f \in Fields |->
        IF ~Forbidden(r) /\ Risk(r, c) = 3 /\ f \in {"filesystem", "network"}
        THEN Most(Base(r, c)[f], c.isolation) ELSE Base(r, c)[f]]

Evaluated(r, c) ==
    [allowed |-> ~Forbidden(r), risk |-> Risk(r, c), asks |-> Asks(r, c),
     limits |-> Tightened(r.limits, c.ceiling), needs |-> Needs(r, c)]

(* Mutant: a trusted rule decides alone whether to ask.                  *)
MutantRuled(rs, r, d) ==
    IF r.mode # "exec" \/ rs[r.class] = NoRule THEN d
    ELSE [d EXCEPT !.asks = d.allowed /\ rs[r.class].ask]

\* apply_trusted_rules
Ruled(rs, r, d) ==
    LET rule == rs[r.class]
    IN  IF r.mode # "exec" \/ rule = NoRule THEN d
        ELSE IF d.risk > rule.ceiling THEN [d EXCEPT !.allowed = FALSE, !.asks = FALSE]
        ELSE [d EXCEPT !.asks = d.allowed /\ (d.asks \/ rule.ask)]

-----------------------------------------------------------------------------
(* Discovery. *)

\* _posix_capabilities, _windows_capabilities, ContainerBackendFacts.capabilities
Capability(b, h) ==
    [f \in Fields |->
        IF f \in {"timeout", "cancellation"} THEN 2
        ELSE IF f \in {"filesystem", "network"} THEN (IF b = "container" THEN 2 ELSE 0)
        ELSE CASE b = "windows" -> 2
               [] b = "container" ->
                     IF f # "cpu" THEN 2 ELSE IF h.docker /\ h.system = "linux" THEN 1 ELSE 0
               [] b = "posix" ->
                     IF f \in h.controllers THEN 2
                     ELSE IF f = "processes" /\ h.system = "macos" THEN 0 ELSE 1]

\* derive_backend_descriptors, ContainerBackendFacts.unavailable_reasons
Available(b, h) ==
    CASE b = "container" -> h.docker /\ h.image /\ h.system = "linux"
      [] OTHER -> h.family = b

ShellsOf(b, h) ==
    CASE b = "container" -> {"posix"}
      [] b = "posix" -> h.shells \cap {"posix"}
      [] OTHER -> h.shells \cap {"powershell"}

FilesOf(b) == IF b = "container" THEN {"workspace-read", "workspace-write"} ELSE {"host"}

-----------------------------------------------------------------------------
(* Selection. *)

\* check_backend
Compatible(b, r, d, h) ==
    /\ Available(b, h)
    /\ r.mode = "shell" => /\ ShellsOf(b, h) # {}
                           /\ r.shell \in ShellsOf(b, h) \cup {"auto"}
    /\ r.files \in FilesOf(b)
    /\ \A f \in Fields : Capability(b, h)[f] >= d.needs[f]

\* _candidate_names
Candidates(r, h) ==
    LET local == IF h.family = "unknown" THEN <<"posix", "windows">> ELSE <<h.family>>
    IN  CASE r.prefers = "container" -> <<"container">>
          [] r.prefers = "local" -> local
          [] OTHER -> Append(local, "container")

\* select_backend: the first candidate that fits
Selects(b, r, d, h) ==
    \E i \in DOMAIN Candidates(r, h) :
        /\ b = Candidates(r, h)[i]
        /\ Compatible(b, r, d, h)
        /\ \A j \in 1..(i - 1) : ~Compatible(Candidates(r, h)[j], r, d, h)

-----------------------------------------------------------------------------
(* ExecutionService.execute. *)

Init ==
    /\ config \in Configs
    /\ \E a \in Arguments : request = Built(a, config)
    /\ rules \in Rules
    /\ host \in Hosts
    /\ stage = "received"
    /\ decision = Evaluated(request, config)
    /\ chosen = "none"
    /\ limits = request.limits
    /\ asked = FALSE

inputs == <<request, config, rules, host>>

\* evaluate_policy, apply_trusted_rules, and deny
Decide ==
    /\ stage = "received"
    /\ decision' = Ruled(rules, request, Evaluated(request, config))
    /\ stage' = IF decision'.allowed THEN "decided" ELSE "denied"
    /\ UNCHANGED <<inputs, chosen, limits, asked>>

\* select_backend, and the network a container must have been given
Select ==
    /\ stage = "decided"
    /\ \E b \in Backends :
        /\ Selects(b, request, decision, host)
        /\ chosen' = b
        /\ stage' = IF b = "container" /\ request.online /\ config.offline
                    THEN "refused" ELSE "selected"
    /\ UNCHANGED <<inputs, decision, limits, asked>>

\* select_backend raises, and refuse
Refuse ==
    /\ stage = "decided"
    /\ \A b \in Backends : ~Selects(b, request, decision, host)
    /\ stage' = "refused"
    /\ UNCHANGED <<inputs, decision, chosen, limits, asked>>

\* prepare_execution: the environment may be too large, which raises
Prepare ==
    /\ stage = "selected"
    /\ limits' = decision.limits
    /\ stage' \in {"prepared", "failed"}
    /\ UNCHANGED <<inputs, decision, chosen, asked>>

\* ExecutionApprovalGate
Authorize ==
    /\ stage = "prepared"
    /\ asked' = decision.asks
    /\ stage' \in IF decision.asks THEN {"launched", "rejected"} ELSE {"launched"}
    /\ UNCHANGED <<inputs, decision, chosen, limits>>

Next == Decide \/ Select \/ Refuse \/ Prepare \/ Authorize

Spec == Init /\ [][Next]_vars

-----------------------------------------------------------------------------
(* Properties. *)

Launched == stage = "launched"

\* A critical command that policy permits runs in isolation or not at all:
\* what local backends are found to offer never satisfies it, whatever the
\* request asked for and whatever rule applies (docs/ARCHITECTURE.md:2314).
CriticalIsIsolated == Launched /\ Risk(request, config) = 3 => chosen = "container"

\* A trusted rule only restricts: what launches would have been allowed
\* without it, with at least the questions it would have been asked.
RulesOnlyRestrict ==
    Launched => LET bare == Evaluated(request, config)
                IN  bare.allowed /\ (bare.asks => asked)

\* A command runs under limits no weaker than the request's and the operator's.
LimitsOnlyTighten ==
    Launched => \A k \in Bounded :
        /\ config.ceiling[k] # 0 => limits[k] # 0 /\ limits[k] <= config.ceiling[k]
        /\ request.limits[k] # 0 => limits[k] # 0 /\ limits[k] <= request.limits[k]

\* "Policy can tighten model requests but cannot weaken configured ceilings", and
\* "trusted-command rules can only tighten policy, never widen it"
\* (docs/ARCHITECTURE.md).
PolicyOnlyTightens == RulesOnlyRestrict /\ LimitsOnlyTighten

\* A limit a command runs under is one its backend can enforce as the operator
\* demands; otherwise it would be a number and no limit.
LimitsAreEnforced ==
    Launched => \A k \in Optional :
        limits[k] # 0 => Capability(chosen, host)[k] >= config.enforcement
=============================================================================
