# TrueCoder in TLA+

TrueCoder is a terminal coding agent.  A language model proposes actions; the
program decides whether they may happen, asks the user, carries them out and
records what became of them.  Its most delicate part is the *execution control
plane*: shell commands are checked against a policy, approved, started behind a
launch gate, supervised, stopped, and recorded in a durable audit database which
the next TrueCoder process uses to clean up after a crash.  Around it stand the
turn of the agent, the stores of sessions, checkpoints, notes and credentials,
and the clients of models, language servers and tool servers.

This directory holds TLA+ models of these parts, TLC configurations that check
them on small instances, and TLAPS proofs of the properties that matter most.

## 1. Inventory

Paths are below `src/src/truecoder/`.  "Hard" is what tests hardly reach.

### The execution control plane

| component | state it keeps | operations | hard |
|---|---|---|---|
| runner (`execution/runner.py`, `lifecycle.py`, `results.py`, `cancellation.py`) | lifecycle state, terminal claim, attached resources, the run's coroutine | run_prepared, deny, refuse | every await can be overtaken by a cancellation, a failing write, an exit, a timer or a crash |
| service and registry (`service.py`, `registry.py`) | active runs with their cancellation source | execute, cancel, find | the cancellation event is written by another task than the run |
| audit store (`audit/store.py`, `audit/models.py`) | one row per run, its event log, leases | create_pending, append_event, attach_resource, mark_running, finalize, claim_nonterminal, apply_retention | writes that commit and then raise; several processes on one file |
| startup recovery (`audit/recovery.py`, `bootstrap.py`, `backends/*_recovery.py`) | leases | recover_startup | a crash in the middle, a second process, a limit on rows |
| POSIX backend and supervisor (`backends/posix*.py`) | two processes, pipes, process group, control group | start, release, wait, terminate, cleanup, abort | signals, pipe ends and exits in any order; processes that leave their group |
| container backend (`backends/container*.py`) | one container per run | create, start, attach, wait, remove | a client that is killed leaves its request with the daemon |
| Windows backend (`backends/windows*.py`) | a suspended process, a job object | start, wait, terminate, cleanup, recover | a process that exists before it is in its job; process ids given out again |
| policy, limits and selection (`policy.py`, `selection.py`, `trusted_rules.py`, `preparation.py`) | none | evaluate, apply rules, select, prepare | precedence: what a later stage may weaken |
| approval (`approval.py`, `agent/approval.py`) | grants by scope, pre-authorised calls | decide, consume, revoke | a decision for another request, a mode that changed meanwhile |
| output (`output.py`) | first and last window per stream, sanitizer mode, redaction carry | feed, finish | where the pipe, a limit or a secret is cut |
| lifecycle publisher (`events.py`) | bounded queue, drain task, dropped count | publish, publish_terminal, aclose | a slow observer, a close while draining |
| launch plans, limits and environments; discovery; serialization, audit codec and permissions | none | build, probe, encode | validation only |

### The agent and what it keeps

| component | state it keeps | operations | hard |
|---|---|---|---|
| agent turn (`agent/agent.py`, `state.py`, `tools/executor.py`, `tui/app.py`) | conversation, calls in flight, mode, approval slot | run a turn, interrupt it, new chat, quit | a generator that ends after the interface has left it |
| hooks (`hooks/`) | the hook that runs | at the start and the end of a turn | deadlines and interruption within a turn |
| conversation context (`agent/context.py`, `compaction.py`, `budget.py`, `progress.py`) | turns kept, summary, progress monitor | add, prune, summarise, judge a round | budgets met exactly; calls and results stay paired |
| prompts and instructions (`agent/prompts.py`, `environment.py`, `project_instructions.py`) | none | find the root, select, cut to the budget | links, unreadable files, the order of what is cut |
| tool registry and executor (`tools/registry.py`, `executor.py`) | registered tools | register, prepare, run | two servers with one name |
| file tools and mutation audit (`tools/builtin/`, `tools/mutation_audit.py`) | files, mutation records | read, write, edit | a file that changed since it was read |
| search tools (`glob`, `grep`, `list_dir`, `read_file`) | none | walk, search, page | a tree that changes under the walk; private names; limits |
| shell tool; memory, web, plan, delegation and code tools | none | build a request, call a store or a client | see those |
| sessions (`session/`) | conversation on disk, the window's summary of it | save, load, rename, delete | two windows; several statements of one operation |
| checkpoints (`checkpoint/`) | git snapshots, workspace | capture, prune, restore | a restore that is killed half way |
| memory store (`memory/`) | notes of a workspace | remember, forget, prune, migrate | two windows, one key written two ways |
| planning store (`planning/`) | a list in memory | replace | nothing |

### Clients and services

| component | state it keeps | operations | hard |
|---|---|---|---|
| JSON-RPC transport (`jsonrpc/`) | pending requests | request, dispatch, stop | late and reordered answers, an exit while waiting |
| LSP clients (`lsp/`) | server process, open documents, diagnostics | start, open, change, ask, stop | restarts, stale documents |
| MCP clients (`mcp/`) | servers, their tools | start, list, call, stop | one of several failing half way |
| LLM client (`client/`) | cached transport, the reply under way | stream, retry, refresh, switch | a retry of a half-heard answer; interleaved calls |
| providers, OAuth and tokens (`providers/`) | keys, tokens, selection, catalog caches | sign in, log out, resolve, refresh, discover | a callback after the dialog is gone; saves of several files |
| web fetch (`web/`) | none | resolve, judge, pin, follow | a name that resolves differently the second time |
| terminal interface and command line (`tui/`, `cli.py`) | what is shown, the turn worker | dispatch | it starts, cancels and outlives the others |
| evaluation runner (`evaluation/`) | none | run tasks | nothing |

How they interact: a tool call of the agent turn asks the approval gate and the
policy, builds a `PreparedExecution` and awaits `ExecutionService.execute`,
which runs `ExecutionRunner.run_prepared` as a coroutine.  The runner calls the
audit service (each write is one immediate SQLite transaction in a thread), the
backend (`start`, `wait`, `terminate`, `cleanup`) and the lifecycle publisher.
The backend calls back once, to make the resource identity durable *before* the
launch gate opens.  The user cancels through the token the tool owns, or by
interrupting the turn, which cancels the task.  At start-up the next process
leases every nonterminal row, finds the exact resource the row names, stops it
and writes the verdict.  The interface consumes the agent's generator in one
worker; the agent asks the LLM client for a reply, records its calls in the turn,
and runs each through the executor, which reaches the stores, the file tools and
the LSP and MCP clients.  Sessions, checkpoints, notes, keys and the audit
database are files that other windows and processes share.

What makes each part correct is stated per module below.  The hazards, each at
the line where it bites and with the properties that guard it, are in
`PROJECT.json`.

## 2. Modules

### The control plane

**AuditRecord.**  One row of the audit database and, for each write, the check
the store makes inside its transaction (`Can...`) and the row after the commit.
Timestamps, digests and identities are left out; the event log is the set of its
types.

**ExecutionRun.**  The runner.  `pc[r]` names the await a run is suspended at
and each action is the code between two awaits, which is what the event loop
executes without interleaving.  Around the coroutine are the other actors: the
token (`Cancel`, `RecordCancellation`), a cancelled task (`HardCancel`), the user
(`GateAnswers`), the command and its supervisor (`Exec`, `CommandExits`,
`SupervisorDies`, `OrphanStops`), the watchers of a running command
(`TimerFires`), a crash at any await (`Crash`) and the recovery of the next
process (`Boot`, `RecoverRow`, `RecoveryAborts`, `BootEnds`).

| variable | in the code |
|---|---|
| `pc` | the suspended await of `ExecutionRunner._run` |
| `state` | `LifecycleState.current`; `"illegal"` once `transition` would raise |
| `cancelled`, `noting`, `active` | the token, the pending cancellation event, `ExecutionRegistry` |
| `row` | the row in the database |
| `attached` | the list `attached` of `_run` |
| `proc`, `launched`, `exit` | the command, whether it ever executed, what `wait()` will report |
| `timers`, `claim`, `reaped`, `clean` | the watchers, `TerminalArbiter`, the safety deadline, the `CleanupResult` (`"unknown"` where `cleanup()` raised) |
| `route`, `stage`, `answer` | the caller of `_settle`, the terminal lifecycle event, what the caller of the runner gets |
| `boot`, `todo` | the start of the next process and the rows it leased |

What can go wrong is the constant `Faults`: a write that fails, a write that
commits and then raises, a task cancellation, a crash, a command that survives
termination, a supervisor that dies before its project, a cleanup that raises,
and an output queue that is full when nobody reads it any more, which holds
`cleanup()` for ever (`CleanupHangs`, `pc = "hung"`; section 4).

**ExecutionContract.**  What the control plane promises, in four variables per
run: the evidence in the database, whether a resource is reserved, the command
and the reply.  Evidence only moves forward and is final; a command starts only
once, with a reserved resource and pending evidence; a reply follows the
evidence.  `ExecutionRun` implements it under the refinement mapping at the end
of that module, and the implementation is a theorem (section 5).

**StartupRecovery.**  The audit database between processes.  It is one file per
user; every process leases the nonterminal rows when it starts, recovers them
one after another, may rewrite the file to drop expired rows, and then serves.
An execution is cut down to its writes and to what another process can meet: a
blocked and an executing project.  Each action is one transaction of the store,
or one call of a recovery handler.

| variable | in the code |
|---|---|
| `stage`, `tainted` | the position in `bootstrap_execution`, its `recovery_failed` |
| `todo`, `step`, `verdict` | the loop of `recover_startup`: snapshots as they were claimed, the write or call that is next, the outcome |
| `copy` | the replacement database between `_build_retained_database` and `os.replace` |
| `row`, `lease`, `born` | the rows, `recovery_owner` and `recovery_lease_until`, `created_at` |
| `owner`, `pc`, `cmd` | the process that drives a run, how far it is, its project |

`Faults` holds crashes, failing writes and handlers, leases that expire, a
database with rows to delete, and a second process at the same time.  The rows
retention deletes are not among `Runs`; they only decide whether the file is
rewritten.

**PosixLaunch.**  What `ExecutionRun` takes for granted of a backend, one command
closer to the system: TrueCoder, the supervisor, the project group and the
recovery handler of the next TrueCoder, joined by pipes and signals only.  Each
action is what one process does between two waits (`select`, `waitpid`, a frame,
a timeout).

| variable | in the code |
|---|---|
| `host`, `token`, `registered` | where `start()`, `abort()` or the handle is suspended; the token; the registration callback |
| `pipes`, `gate`, `order`, `status` | the ends of the gate, lifetime and control pipes TrueCoder holds; what is unread in the gate, control and status pipes |
| `asked`, `result` | `_termination_reason`, the outcome of `wait()` |
| `sup`, `stop`, `report` | the position of the supervisor, its `_terminate_requested`, the EXIT frame it will send |
| `leader`, `kin`, `stubborn`, `ran` | the project leader, the rest of its group, whether it ignores SIGTERM, whether it executed |
| `recovery` | `PosixRecoveryHandler.recover` |

Time is what the code compares.  `Slow` lets any deadline pass at any moment;
without it the one-second waits of `abort()` and `recover()` pass only while the
supervisor is waiting out a grace period that is longer (`LongGrace`).  An
observation the model keeps: the blocked leader inherits the SIGTERM handler of
the supervisor, so only SIGKILL or the end of its gate removes it before it
executes.

**ControlGroup.**  The control group of one POSIX execution, which `PosixLaunch`
leaves out: a directory (`dir`), what is alive in it (`procs`: the leader, a
worker of its process group, a stray that called `setsid`), the counters that have
passed a limit (`raised`, `hit`), and the host, supervisor and recovery that
create, join, read, kill and remove it, on kernels with and without
`cgroup.kill`.  *GroupsAreEmptied*: a completed cleanup or recovery leaves
nothing alive and no directory; *LimitsAreBlamed*: a limit is blamed only when it
was passed, and an exit is reported as one only if none had been.

**ContainerRun.**  A container against a daemon whose clients time out: a
client that is killed leaves its request in `late`, which the daemon may carry
out at any later moment or never.  *NothingRunsUnregistered*, *GoneIsGone*,
*ReportedExitIsFinal*.

**WindowsLaunch.**  The suspended root, the processes it starts, the job handle
that kills on close, the row, and the tasks of the handle (`drain`, `wait`,
`term`, `clean`), against crashes, failing calls and process ids given out
again.  *SuspendedUntilDurable*, *NothingEscapes*, *RecoveryIsTrue*,
*OutputIsRead*, and the liveness *TerminationStops*.

**CommandLine.**  The quoting of an argument list into one command line and what
the process's own splitting makes of it; exit codes read back as signed numbers.
*CommandsArriveWhole*.

**ExecutionPlan.**  What is decided before a command starts, in the order of
`ExecutionService.execute`: the request of the shell tool or a hook, the base
policy, trusted rules, the choice of a backend, the prepared limits, the
approval.  A command is the class the policy puts it in.  *CriticalIsIsolated*;
*PolicyOnlyTightens* (no rule allows what policy denies or removes a question,
no limit is looser than the operator's ceiling or the tool's own).

**Output.**  Both streams of an execution: windows, sanitizer, redactor and the
text returned at the end.  *NoValueIsShown*: no value to redact, whatever the
values are, comes through in pieces.  *ChunkingDoesNotMatter*: where none of them
occurs in another but at its end (`ValuesApart`), what was shown is the redaction
of everything written, fed at once.  *ReturnIsBounded*.

**LifecyclePublisher.**  The bounded buffer, the reserved slot of the terminal
event, the worker and a sink that is slow, fails or never returns.
*StagesAreHeard*: nothing is heard backwards, and the end is heard.

### The agent and what it keeps

**AgentTurn.**  One agent and the interface that drives it: generators of
`agent.run` by turn, the history and the calls it owes, grants, pre-authorised
calls, the approval slot, the mode selected and the mode of the turn.  When its
consumer leaves a generator, the event loop closes it in a task nobody waits
for; the model has that task.  *OneTurnAtATime*, *HistoryIsWhole* (every call is
answered in the history), *EffectsAreAllowed* (a tool runs only in a mode that
allows it, with an approval that covers it), *PlanWithholds* (violated, section 4).

**Conversation.**  Sizes instead of texts: what a request carries when the
history outgrows its budget, compaction, and the progress monitor.
The bisection of a result that is too long, the sums of what is sent and the
walk from the newest turn back are functions, as the code computes them.
*RequestIsBest* and *StallsAreSeen* compare with reference definitions that
quantify over all histories that fit, and over all rounds of the turn.

**Sessions.**  The database of conversations and what each window remembers of
its session; an operation is several transactions, any of which may fail, be
cancelled or be the last.  *StoredIsConversation*, *SavedTurnsStay* (violated).

**Checkpoints.**  A workspace, the index of git, the checkpoint references, the
capture at the start of a turn and a restore with its safety checkpoint.
*RestoreIsUndoable*: after a restore, whole or killed half way, some listed
checkpoint brings every file back.

**FileMutation.**  `write_file` and `edit_file` on one path beside the user's
editor: resolution, checks, temporary file, last check, replacement, record.  A
text is the set of changes it contains.  *EditsLoseNothing*: what another has put into the file before the
edit's last look at it is in the file afterwards.

**WorkspaceSearch.**  `glob`, `grep`, `list_dir` and `read_file` on a tree that
others change: resolution through links, the walk, its limits.  *SearchesAreTrue*:
every match that is returned is one, and none is missing unless the result says
that there is more; *WindowsJoin*: the windows of an unchanged file join to the
file.

**Instructions.**  The project root above the launch directory, the instruction
files between the two and what fits the prompt.  *InstructionsAreOrdered*: what
the prompt gets fits and is in order from the root, with nothing left out in the
middle, and no unusable file is silently missing.

**Memory.**  The notes of workspaces in one database: recording under a
normalised key, pruning, the browser, the migration.  The table is the set of its
rows.  *OneNotePerKey*,
*CorrectionIsWhole*, *OnlyItsOwn*.

**Credentials.**  The files of keys, tokens and the selection, and the settings
of a window: a save is several steps, and the process may end between any two.
*SaidIsStored*, *StartsAsLeft*, *CredentialIsOwn* (violated).

**SignIn.**  Connecting a provider: a typed key, the browser with its callback
server, or a device code that is polled; the user may leave at any moment.  A
grant names any interval, or none; what is kept of it, and of every `slow_down`,
is bounded as in `device.py`, and *PollsArePaced* compares the polls with what the
provider asked for, up to that limit.
*TokensAreApproved*, *ListenerIsReleased*, *PollsArePaced*, *ChosenCanAnswer*.

### Clients and services

**LanguageServer.**  The code tools over one language: transport, client with
its documents, manager.  The server answers in any order or not at all, exits, or
writes garbage.  *AnswersAreOwn*, *NoOrphans*.

**McpServers.**  The start of several servers one after another, their listings,
names and limits.  A name is a sequence of characters and the names of two tools
may be joined to one.  *ToolsStayDistinct*: a registered name calls the tool it
was made of, and a tool is left out only behind one of another name that makes
the same whole.  *NoOrphans*.

**Framing.**  Messages between newlines, with a length header, and as supervisor
frames, through a pipe that cuts anywhere.  *FramesAreWhole*.

**ModelRequests.**  A request and its credential: the cached client, retries,
the refresh of an ageing token, and what `/models`, `/login` and `/logout`
change at any time, during the refresh too.  `strayed` remembers the tokens that a
refresh has put under the provider chosen meanwhile: the one case
*CredentialGoesHome* leaves out, since the code gets it wrong (section 4).
*OneAttemptIsHeard*.

**ModelReplies.**  The translation of the history to one of four wire protocols
and of the reply, event by event, to a list of calls.  A chat server may name a
call late, twice, or never, or contradict itself, which fails the reply
(`Fails`); any stream may end early.  *CallsAreTheServers*: whoever's events came
in between, the calls that are run have the ids, the names and the order of the
server's, and of their arguments all, or if the reply was cut a beginning, or with
Anthropic an empty object where nothing came.  *RolesAlternate*,
*ResultsMatchCalls* (violated for Gemini without ids).

**ModelCatalog.**  The directory with its snapshot, the live lists with their
caches, and one discovery of both while credentials change.  *FailuresStayApart*,
*RowsAreComplete*, *PickerIsRetained*, *SnapshotStays*.

**WebFetch.**  One fetch: each hop is resolved, every address judged, the
request pinned to the first; the next lookup may answer differently.
*PeersArePublic*, *FetchIsBounded*.

### Modules for checking and proving

`MCPlatform`, `MCInteraction` and `MCServices` check several components side by
side in one run.  The components in one of them share no state: `world`, chosen
in the initial state, is the one that moves, the others stay in an initial
state.  A run is thus the union of its worlds, and its properties are
conjunctions of the components' properties.  What a component takes from outside
is a constant of these modules (sizes, servers, catalogs, windows, providers),
given in the `.cfg`, and what must be true of it is their `ASSUME`; only the
faults of each world are written into the `INSTANCE`.  The theorems are thus
about the same specification for all values of those constants.  `Pipes` is the
part of `MCServices` that instantiates `Output`, `Framing` and `CommandLine`, with
their constants, what is assumed of them, and *BytesArriveWhole*; it is a module
of its own so that they can be proved about alone.
`ExecutionInvariant` holds the inductive invariant of the runner and is the
module of the run `one_run`; the `_proofs` modules hold the proofs (section 5).

## 3. Runs

| run | instance | what it shows |
|---|---|---|
| `one_run` | one run, every fault, two crashes; 1,100,288 states | the safety and action properties of the runner, and that it implements `ExecutionContract` |
| `platform` | ten worlds; 183,263 states | launch, recovery, containers, jobs and control groups tell the truth, and everything that begins comes to its end |
| `interaction` | nine worlds; 701,844 states | turns, events, history, sessions, checkpoints, edits, sign-ins, notes and credentials |
| `services` | twelve worlds; 656,774 states | plans, command lines, output, framing, servers, requests and replies, the catalog, web pages, searches and instructions |
| `late_cancel` | one run, no fault | a cancellation during the release records an executed command as never started |
| `abort` | a project that ignores SIGTERM, a long grace | `abort()` kills the supervisor and the project survives |
| `stale_claim` | two processes, one run, no fault | a live run is closed as never started |
| `rewrite` | two processes, one run, a rewrite | a row of a live run is deleted |
| `empty_session` | one window, an operation that stops half way | a session with stored turns is removed as empty |
| `plan_withholds` | the worlds of `interaction` | a tool that Plan mode withholds runs in a turn submitted in Plan mode |
| `google_calls` | one transport, calls without ids, three replies | a result is sent under the name of another call |
| `restart_key` | two providers, no fault | a client starts with the key of another provider |

Worlds and bounds:

* `platform`.  *prompt*: `PosixLaunch` with every fault, a grace of at most a
  second and no deadline passing; *slow*: a long grace and any deadline passing
  (the whole state space of one command is explored in both).  *alone*: one
  start-up at a time, two runs, a claim of both rows, every fault but a second
  process; *full*: a claim of one row of two; *overlap*: two processes and one
  run.  Two rows are enough for an order and a remainder, two processes for every
  race on a row; a rewrite of the file beside another process is in the run
  `rewrite` alone; processes come and go without a bound.
  *container*: one container, every fault.  *live*: the runner with failing writes,
  task cancellation, stubborn commands, a cleanup that raises and a full output
  queue, for its liveness.  *job*: one job, every
  fault.  *group*: a memory limit, slow deaths, kernels with and without
  `cgroup.kill`, crashes; *swift*: two limits, failing calls, no deadline passing.
* `interaction`.  *publisher*: a buffer of two and five events.  *agent*: two turns
  of two replies, one new chat, a batch of a withheld and an asked-for tool.
  *sessions*: two windows, two sessions, two turns.  *checkpoints*: two paths, one
  ignored, three captures with a limit of two, two edits.  *files*: two calls, one
  outside change.  *context*: a budget of 12, three turns of four sizes, three
  rounds.  *account*: two providers, one by browser, two flows, time to 5 with a
  code that expires at 4, granted intervals of none, 1 and 4 kept between 2 and 3.
  *notes*: two windows of two workspaces, three keys (one written two ways), a limit
  of two and three recordings.  *secrets*: two
  providers, one with a variable, two credentials issued.
* `services`.  *plan*: all combinations of requests, configurations, rules and
  hosts listed in `MCServices`.  *language*: two documents, three calls, one edit.
  *tools*: three servers, one tool limit, listings with clashing and unusable
  names, and names that differ by a `_` at the border.  *requests*: two providers,
  one with a token, one retry, two requests, and every act of the user during them.
  *output*: four characters of six on two streams, cut in chunks of at most two,
  two secrets.  *replies*: four transports, two replies of at most
  two calls each and three together.  *catalog*:
  three providers, time to 3, two discoveries.  *web*: two addresses an answer, two
  redirects, a body one over the limit.  *frames*: three messages and noise.
  *lines*: every argument of two of a letter, a backslash, a quote and a blank.
  *search*: three trees with links, private names and a file that cannot be
  decoded.  *instructions*: every chain of three directories, and seven bytes.

The bounds are the smallest for which each limit in the code is met, passed and
met again after a reset: a queue that overflows twice, a retry after a retry, a
second turn after a failed one, a budget that is filled exactly.  For
`ExecutionRun` one run is enough for TLC, because runs share nothing but the process
they live in; the theorems hold for any number.  Two crashes allow a crash of the
recovering process as well as of the running one; a third repeats the second,
since a recovery keeps no state outside the rows.  Deadlock is not checked where a
system may stop: runs that have returned, windows that are closed, bounds that
are used up.  In the configuration of `restart_key` it is.

Fairness.  Weak fairness of a run's own steps (`Proceed`): the event loop
schedules every ready coroutine and a thread finishes its write.  Weak fairness
of the timers: the clock reaches the deadline of a watched run.  Weak fairness
of an orphaned supervisor: it polls the lifetime pipe.  In *prompt*, weak fairness
of TrueCoder, of the supervisor and of the step from the gate to `exec`: the
operating system schedules them.  In *overlap*, weak fairness of the start-up of
each process, which is one coroutine without a wait on the user.  In *job*, weak
fairness of the tasks that wait, terminate and drain.  Nothing is assumed of the
user, of the command, of a server or of a further start of TrueCoder.

## 4. Findings

Each has a run whose counterexample shows it.

* `late_cancel`.  `docs/ARCHITECTURE.md` says that a pre-start cancellation
  "records that nothing started".  `start()` writes START and then lets a
  cancellation win over the STARTED frame, so the row may say `failed_to_start`
  of a command that executed.
* `abort`.  The documentation says that closing the lifetime pipe terminates and
  reaps the project tree.  `abort()` closes it, but kills the supervisor after one
  second, while the supervisor gives the project `termination_grace_seconds` (2 by
  default) before it kills the group; without a cgroup, a project that ignores
  SIGTERM is left running.  It is reached by a cancellation while STARTED is awaited.
* `stale_claim`.  A second TrueCoder leases the pending row of a live run.  Its
  verdict comes from the snapshot, so a run that attached its resource and
  launched in the meantime is closed as never started.
* `rewrite`.  Retention copies and replaces the database without excluding other
  processes, so a row they create in between disappears.
* `empty_session`.  `save_completed_turns` commits the turns and then the title;
  when the title fails, the manager still remembers no turns, and the next new
  chat removes the session as empty.
* `plan_withholds`.  The generator of a failed turn outlives the interface's
  interest in it; when it ends it clears `_active_mode`, which by then is the
  next turn's.
* `google_calls`.  Gemini calls without ids are named by their position in the
  reply, so two turns have a `call_1` each, and the names of results are looked up
  by id.  (Two such replies in one turn fail the turn.)
* `restart_key`.  With a remembered provider whose token has expired,
  `resolve_settings` falls back to the key of the default provider, or of the one
  the environment implies, and starts the client of the remembered one with it.

### Refuted without a run

These statements of the documentation are false of the models when the fault or
choice named is let in; TLC shows it, but no configuration here keeps the
counterexample.

* A token refreshed during a logout is stored after it (`ModelRequests`,
  `LogoutForgets`; ARCHITECTURE.md:2351).
* The end of a stream that fits the first window is lost when the other stream
  takes the returned budget (`Output`, `EndsAreShown`; :1235-1238).
* Of two values to redact where one begins with the other, the shorter is
  complete first.  When a chunk ends behind it, the redactor replaces it at once
  (`output.py:352`) and passes the rest of the longer value on as text; in one chunk
  the longer is replaced as a whole.  So the result depends on the chunks, which
  the documentation excludes (`Output`, the conclusion of `ChunkingDoesNotMatter`
  without `ValuesApart`, with the values `a` and `ab` and three characters;
  :1018-1019).  Neither value is ever shown whole.
* The limits of a hook are not those a backend can enforce (`ExecutionPlan`,
  `LimitsAreEnforced`, with hook commands).
* A file that was replaced and cannot be read back is reported as not written
  (`FileMutation`, `DurableIsReported`, fault `unreadable`).
* Two captures within one second, or a capture beside a restore, let a restore
  be final (`Checkpoints`, faults `forced`, `together`; README.md:1007).
* Diagnostics of an older text are returned for a newer one (`LanguageServer`,
  `DiagnosticsAreCurrent`), and a start that is cancelled loses its server
  process (`NoOrphans`, fault `cancel`; :648).
* A container whose create timed out is left behind by the failed start
  (`ContainerRun`, `FailedStartLeavesNothing`; :1416-1417, :1433).
* A finalization that commits and then raises, when the sidecar files cannot be
  secured, withholds a result whose row is terminal (`store.py:712`; :1326).
* With the clock set back, a note that was just recorded is pruned (`Memory`,
  fault `clock_back`).  A file of keys that cannot be read counts as empty and the
  next save drops what it held (`Credentials`, fault `unreadable`).  A launch plan
  that cannot be built leaves its control group (`ControlGroup`, fault
  `unplanned`).
* Recovery leases at most 100 rows, once, where the documentation says "every
  nonterminal row"; the rest waits for the next start.  `NothingLeftBehind` is
  stated up to that limit.

### Observed while reading

* Delegation: `agent/agent.py:875,878,879` use `parent.project_root`, which an
  `Agent` does not have (`_project_root`); every delegation fails as
  `subagent_unavailable`.  The tests use a mock.
* Runner: the cleanup of an execution has no deadline (`runner.py:723,1229`).  It
  cancels the backend's pumps and gathers them, and each still puts the end of its
  stream into a queue of 16 (`posix.py:196,315-318`; `container.py:143,186`).  When
  the reader of that queue has failed, or was never created, and the queue is
  full, the run never returns (*RunsReturn* names this state and no other).
  `_cleanup_quietly` (`runner.py:1222-1226`) drops a cleanup that raises, and
  `results.py:128-129` counts no result as complete: a run that lost its evidence
  may be recorded as cancelled or timed out while its command goes on.  The start
  of the next TrueCoder does not look at it again.
* Requests: `llm_client.py:163-167` reads the provider after the refresh, so that a
  provider chosen during it gets the token of the other, and is sent it.
* Sign-in: an interval over 60 seconds, granted or reached by `slow_down`, is cut to
  60 (`device.py:90,230`) and polls come earlier than was asked for
  (ARCHITECTURE.md:2102 is true up to there).
* MCP: two tools of different names may make one whole name: `x` of a server `a_`
  and `_x` of a server `a` are both `mcp__a___x`.  The second is passed over at its
  registration, while the status counts it (ARCHITECTURE.md:708).
* Replies: an Anthropic call that was cut before any of its arguments came becomes a
  call with `{}` and is run (`native.py:353`).
* Turn: outcomes of `turn_end` hooks are never announced; turns evicted from the
  context are forgotten silently; a cancellation during `_announce_changes` leaves a
  completed turn unsaved; `edit_file` reads before it takes the stamp.
* Search: a directory with a private file's name is skipped by walks, though
  paths below it may be read when named; one unreadable or vanished directory
  fails a whole search; `grep` passes over long and binary files without saying so;
  a link put in place between scan and open is followed.
* Instructions: the preamble gives later, more specific instructions precedence,
  but the budget is spent from the general end.  An unusable file makes
  `build_session` raise.
* Control group: it is created before the launch plan and outside the `try`; a
  crash before the registration leaks the directory; a hard cancellation in
  `start()` is not caught; without an enabled controller, processes that leave the
  process group are not contained; any `pids.max` event stops the command.
* Containers: `--network isolated` is passed literally; exit code 253 under a CPU
  budget is taken for the budget.
* LSP: the eviction at `MAX_OPEN_DOCUMENTS` does nothing; a dead server stays in
  `_clients`, `restart` is never called, a failure is for ever; a blocked `drain`
  is outside the timeout.  MCP: a cancellation during `_start_one` leaks its
  process; a tool call has the timeout of the start-up.
* Credentials: two windows lose each other's saves (load, modify, save) and a
  rotating refresh token; a typed key that replaces a rejected token is outranked
  by it at the next start; `SessionSettings.use` compares redacted credentials; the
  login callback ends at the first bad callback; adapters report an early end of a
  stream as complete.
* Memory: a note recorded again keeps its old `created_at` and may be pruned
  next; the migration reads outside its transaction.
* Catalog: live lists are cached per provider, not per credential; a live list
  drops a directory model's own endpoint; a failing live list has no stale
  fallback; the cache is not written atomically.
* Web: a body that fills the limit exactly is reported truncated; the Host header
  lacks the port.
* Windows: exit code 259 is never seen as an exit; a crash between CreateProcess and
  the assignment leaves a suspended process; draining ends with the root; a
  script that contains quotes is quoted for the C runtime, which `cmd.exe` reads
  differently.
* Plan: a `ValueError` of `prepare_execution` leaves no audit row; trusted rules
  with upper-case or padded names never match.
* Framing: a line at the limit with white space is accepted or refused by
  chunking; a message in the chunk of a bad one is lost.

## 5. Proofs

Each theorem holds for every value of the constants: any runs, processes,
windows, servers, sizes, capacities, budgets.  What is assumed of the constants is
the `ASSUME` of the modules, which TLC evaluates on the instances of the runs, and
what a theorem lists before `PROVE`; the second kind is named here with its reason.
Every property of the passing runs is stated by a theorem about the same
specification, but those at the end of this section.

**`Execution_proofs`**, of `ExecutionRun`, for any runs, faults and crashes.

* `TypeCorrect`.  The type invariant needs one strengthening: the event of a
  termination is looked up by its claim, so a run at that await must hold a claim
  with an event (`ReasonIsClaimed`).
* `InvariantHolds`, and from it `LifecycleIsLegal`, `LaunchAuthority`,
  `WritesAccepted`, `SilentVerdicts`, `StoppedAtTheEnd`, `AnswersAgree`,
  `StagesAgree`, `OutcomesCaused`, `VerdictsAreFinal`.  None of the properties is
  inductive.  `IInv` says for each await what is already durable (`RowAt`,
  `AuthorityAt`), what the command can be (`CommandAt`), in which lifecycle state
  the run is (`LifecycleAt`), what a verdict says of the command (`VerdictAt`), why
  a reason was claimed (`CauseAt`), that what was answered agrees (`AnswerAt`) and
  that a recovering process has no coroutine (`RecoveryAlone`).  There is a lemma for
  what each write leaves of a row, a lemma per part with a case per action, and
  `OthersSame`: a step of one run leaves the others alone, so that each part is
  proved for the run that moved only.  `StoppedAtTheEnd` has three exceptions:
  the row itself says that cleanup or recovery failed, the supervisor was lost, or
  the cleanup of a run that lost its evidence raised (section 4).
* `ContractIsKept`, the runner implements `ExecutionContract`, and `GateIsHeld`, a
  run that is cancelled before its gate opens is never released.  `IInv` leaves
  out two facts the mapping needs (`Traced`): a command that is in flight has a
  pending row or a failed recovery behind it, and no exit code comes from a
  project without a supervisor.  Then one lemma per variable of the contract
  (`ReservationStep`, `EvidenceStep`, `ExecutionStep`, `ReplyStep`) says how a step
  of a run moves it, `SilentSteps` and `CrashIsSilent` which steps are stutters,
  and `StepImplements` puts them together.

**`PosixLaunch_proofs`**, for any faults and deadlines: `GateAlwaysHolds`,
`ExitAlwaysMeansOver`, `CleanedAlwaysStopped`, `RecoveryAlwaysTrue`, `LaunchTypes`.
START exists only after the registration, an EXIT frame only after the supervisor
has reaped the leader and swept the group, and a terminated verdict only once the
supervisor is gone, so that nobody can start or fork anything afterwards.
`struck` remembers that something else killed the supervisor, which no process of
the program can make good.  `LifetimeAlwaysReaps` is for a short grace and no
passing deadline; the run `abort` shows that it fails otherwise.

**`StartupRecovery_proofs`**, for any number of processes and rows.

* `RecoveredTrulyAlways`: whatever fails and whoever runs beside it, a verdict that
  a resource is gone is true.  The invariant follows the evidence through the
  snapshots, the copy of the database and the rows: each that names a resource is
  of a run that had one, each that says gone is of a project that has stopped
  (`Evidence`), and a handler is asked only for a named one (`Asked`, `Handled`).
* `VerdictsAlwaysStay`, `EvidenceAlwaysKept`: if no process rewrites the database
  while another runs, no terminal row changes and no unfinished row disappears.
  Without the hypothesis both are false (run `rewrite`).
* `NoResourceNeverRanAlone`, `NothingLeftAlone`: of processes that run one at a
  time, a run closed for want of a resource never ran, and a process that serves
  has left no earlier row without a verdict, but behind as many others as one
  recovery claims.  The first is false of two at a time (run `stale_claim`).

**`ControlGroup_proofs`**: `GroupsAlwaysTold`, for any limits and any fault but a
launch plan that cannot be built (section 4).  The invariant says which of the
host, the supervisor and the recovery still owns the directory and who may be
alive in it.

**`Platform_proofs`** brings these to the specification that `platform` checks and
adds the container and the Windows job: `VerdictsAlwaysTrue`,
`EvidenceAlwaysStays`, `LifetimeReapsAlways`, `BackendsAlwaysTell`,
`AlwaysWellTyped`.  For the job the invariant ties the position of `start()` to the
job, the row and the root, and says who still holds the job; for the container it
says which requests the daemon may still carry out, and what they can no longer
change.

**`Interaction_proofs`**, of the specification that `interaction` checks.

* `OneTurnAlways`, `EffectsAlwaysAllowed`, `HistoryAlwaysWhole`: any batches of
  calls, iterations, hooks and interruptions.  `CallsAreBatches`, assumed, says
  that a reply with calls has at least one.  The invariant gives each generator
  its place in the order of turns: at most one is alive to the interface, the slot
  and the approval are its own, and what it owes the history is the rest of its
  batch.
* `StagesAlwaysHeard`: any capacity.  The invariant orders delivered, sending,
  pending and terminal events.
* `StoredAlwaysConversation`: any windows and sessions, and a write that fails,
  fails half way, is cancelled or is the last.
* `SignInAlwaysHonest`: any granted intervals, bounds and steps; the token is of
  the flow the user approved, the listener of the flow that waits, the next poll
  not before the pause asked for, or the limit where that is shorter.
* `RestoresAlwaysUndoable`: any paths, contents and limits; the safety checkpoint
  survives the pruning that the restore itself causes.  `EditsAlwaysLoseNothing`:
  any calls and outside changes.  The faults are those of the run.
* `MemoryAlwaysKept`: any windows, workspaces and notes, and a limit of at least
  two, since an old database of the model may hold two notes.  Pruning is a count
  of newer rows, and the proof shows that the newest ones are as many as the limit
  and that the row just written is among them.
* `CredentialsAlwaysKept`: any providers and environment.  The invariant
  says at each step of a save which of the files is the old and which the new.
* `ContextAlwaysSound`: any sizes of messages, any budget, ceiling and thresholds.
  The bisection finds the best fit (`ProbeFinds`, `FittedIsBest`), what is sent sums
  to what it costs (`SumsAreCosts`), the walk stops at the first turn that does
  not fit (`TakeStops`), so the request is the longest run of newest turns that
  fits (`BuildIsBest`).  The monitor keeps two counts; the invariant says that they
  are the lengths of the last runs of equal rounds (`MonitorCounts`), from which
  its verdict is what the rounds themselves say (`CountedIsSeen`).
* `WorldsAreTheirs`: a behaviour of all is, for each world, one of its own.  With
  it `TurnsNeverOverlap`, `EffectsAlwaysCovered`, `HistoryStaysWhole`,
  `StoredStaysConversation`, `SignInStaysHonest`, `WorkAlwaysKept`,
  `StoresAlwaysKept` and `ContextStaysSound` state the properties of the run.

**`Pipes_proofs`**, of the three components of `Pipes`.

* `FramesAlwaysWhole`: any messages, noise, limit and pieces, in the three
  framings.  The invariant (`FrameInv`) says that what is unread, in the pipe and
  not yet written is, in order, the messages that have not been taken, with noise
  where the framing allows it: `Cuts` gives the place in the bytes at which each
  ends.  From it the reader finds the next message or none yet, in each
  framing (`FrameTakes`, `HeadedTakes`, `LineTakes`, and together `TakenIsNext`).
  `FramesAssumption` says what the code guarantees of the bytes: a JSON body
  holds no newline and no blank at its ends, and what may stand between two lines
  is blank and within the limit.
* `CommandsAlwaysArrive`: any arguments.  What the process's splitting has read
  when it reaches the `i`-th character of an argument is the first `i` characters,
  the backslashes just before it still open (`SoFar`); at the end of a quoted
  argument none are.  `CommandsAssumption`: a program is the name of a file, which
  has no quote in it and does not end in a backslash.
* `OutputArrives`: any alphabet, chunks, budgets and values.  No value is shown:
  what has been shown holds no match, what is held back can still begin one, and a
  replacement takes part in none (`NoValueIsShown`).  What comes in two
  chunks is treated as if it came in one: the sanitizer goes on where it stopped
  (`CleanedOn`), and the redaction of `x \o y` is what `x` alone shows, then that of
  what it holds back with `y` behind it (`RedactedSplices`).  The second is true
  only if a match at the end of `x` is not part of a longer or an earlier one
  with `y`.  That is what `ValuesApart` says, the hypothesis of
  `ChunkingDoesNotMatter`: a value occurs in another only at its end.  The code does
  not check it (section 4), and nothing else rests on it: `OutputAssumption` asks
  of the values what `output.py:328-337` checks, and gives the texts that stand for
  a value and for what was left out characters of their own (a value inside the
  placeholder's own text would be shown by every replacement).

**`Services_proofs`**, of the specification that `services` checks.

* `CriticalAlwaysIsolated`, `PolicyAlwaysTightens`: any request, configuration,
  rules and host.  The invariant says what each stage has decided, as a
  function of the inputs.
* `FetchAlwaysContained`: any addresses, redirects and limits; which addresses
  have been judged, and whether a response is open, at each step of a hop.
* `CredentialsAlwaysGoHome`: any providers, and switches, connections and logouts at
  any time; the credential of the cached client is of the provider the client is
  for, or the token that a refresh brought while another provider was chosen
  (section 4).
* `AnswersAlwaysOwn`: any documents, calls and edits, and any order of answers.
* `ToolsAlwaysDistinct`: any servers and listings, whatever their names are.  That a
  tool of the same name of another server is never the one in the way rests on
  the names alone: with one tail, two joined names have one head.
* `CatalogAlwaysWhole`: any providers, directories and lifetimes of the caches.  It
  assumes that a directory lists a model once (`ModelsListedOnce`): Models.dev keys
  its models by id and the code relies on it, since it reads the id from the
  entry, and falls back to the key only where there is none.
* `PromptAlwaysOrdered`: any directories, instruction files and byte limit.  The
  invariant (`PromptInv`) says that what has been loaded is the text of the first
  files, whole, until one is too long for what is left (`TooLong`), and that no
  directory between the root and the one looked into has a file that cannot be
  used.  That all of it fits rests on how a sum of bytes grows (`JoinedIs`) and on
  what is cut of a text (`CutIs`).
* `RepliesAlwaysWhole`: any tools and any number of replies and calls.  The
  invariant (`RepliesInv`) says of the history that results and calls match in
  order (`Matches`), that calls of one id have one name and are of earlier replies
  (`NamesAgree`), and that Anthropic's messages alternate and end where the turn
  stands (`Talks`); of the stream, that what has been collected of a call is a
  beginning of what the server means, its id and its name come or still to come
  (`Collects`), and what is completed is what was meant (`Serves`).  A request is a
  list of lists, flattened: `SpreadJoined` and `RequestIs` say what it holds of calls
  and results, whatever a protocol makes of a message.
* `CallsAlwaysReachTheirs`, `RequestsAlwaysGoHome`, `CatalogStaysWhole`,
  `RepliesStayWhole`, `InstructionsAlwaysOrdered` and, from `Pipes_proofs`,
  `BytesAlwaysArriveWhole` state the properties of the run.

The faults a world lets in are part of the specification a theorem is about.
Left out are those under which the property is false, each listed in section 4:
a clock set back for the notes, a file of keys that cannot be read, a cancelled
start of a language server, captures forced or together.

Induction.  The theorems of the library for induction take an operator, which
the provers here cannot instantiate.  Where a number must be counted up,
`HasLeast` and `InductionOverASet` (from the well-foundedness of `<` on the
numbers) serve instead: the property is made a set of numbers.  A recursive
function is a `CHOOSE`, so each is first shown to exist, by giving its values
(`ProbeBisects`, `SumsExist`, `ClimbsExist`, `SumFound`), before its equation can be used.

Model-checked only:

* `CallsSettle` and `RunsReturn`: liveness under fairness is out of the prover's
  reach.
* `FilesAreShown`: what is compared there is what a tree holds with what a reader
  reconstructs, through folds and sorting of sequences (`WorkspaceSearch`), whose
  operators take operators and so have no usable induction.
* `PlanWithholds` and the properties of the other runs that end in a violation
  are false.

## 6. Plan

What is left, in this order:

1. A theorem of `WorkspaceSearch` (`SearchesAreTrue`), once its folds are written as
   functions, by induction over sets of numbers as in `Pipes_proofs`.
2. Delegation, once its attribute is corrected, as a turn inside a tool call of
   `AgentTurn`; parallel batches of more than two calls.
3. The composition of `ModelRequests` with `Credentials` over one set of files, for
   two windows that refresh one token.
4. `StartupRecovery` over `PosixLaunch` instead of a blocked and an executing
   project.

## 7. Not modelled

* Launch plans, limits and environments (`backends/*_plan.py`, `environment.py`):
  values built from a request and validated, without state or order.  The command
  line of Windows, a conversion with a reader on the other side, is modelled.
* Discovery: probes of the host that run once; their results are inputs of
  `ExecutionPlan` and `ControlGroup`.
* Serialization, the audit codec, file permissions and clocks: formatting and
  system calls.
* The planning store, a list that one tool replaces as a whole; the evaluation
  runner, which runs tasks one after another.
* Of the modelled components: argument schemas, rendering of results and diffs,
  regular expressions (a line hits or misses), UTF-8 decoding, the text of prompts,
  widgets and screens, configuration files, token claims, and the delegation,
  which fails before it does anything.

The `components` of `PROJECT.json` say for each part what is in and what is out.
