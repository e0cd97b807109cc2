------------------------------ MODULE MCServices ------------------------------
(***************************************************************************)
(* What a turn of the agent calls, checked side by side: the plan of a     *)
(* command, its command line, the collection of its output, a language     *)
(* server, the MCP servers, the framing of messages, the requests to a     *)
(* model and its replies, the catalog of models, a fetched page, the       *)
(* search of a tree and the instructions of a project.  The components     *)
(* share no state here.  A world is one of them: it moves, the others stay *)
(* in an initial state.                                                    *)
(***************************************************************************)
EXTENDS ExecutionPlan, Pipes, Integers, TLC

CONSTANTS
    Docs, MaxCalls, MaxEdits,                                   \* LanguageServer
    Servers, Listings, MaxTools, MaxDepth, BuiltIn,             \* McpServers
    Providers, Native, MaxRetries, MaxIssued, MaxRequests,      \* ModelRequests
    Names, Models, Configured, Subscribing, Directories,        \* ModelCatalog
    DirectoryTTL, LiveTTL, MaxTime, MaxDiscoveries,
    Addresses, MaxAddresses, MaxRedirects, MaxBytes, MaxBody,   \* WebFetch
    Chains, PromptBytes,                                        \* Instructions
    ToolNames, MaxServed, ReplyCalls, SessionCalls              \* ModelReplies

(* What a candidate for instructions may be.                               *)
Kinds == {"absent", "text", "dangling", "odd", "unreadable"}

VARIABLES
    world,
    version, procs, starts, client, failed, reading, open, told, diagnostics,
    settled, unanswered, calls, call, last,
    next, step, live, clients, tools, registry, phase,
    provider, credential, model, cached, session, stored, aging, issued, posted,
    heard, sent, requests, forgotten, strayed,
    transport, turns, pending, seen, reply, progress, pieces, made, pc, served,
    accounts, snapshot, lists, now, at, refresh, entries, origin, down, waiting,
    resolved, discoveries,
    url, addresses, peer, hops, tries, held, left, body, truncated, doing,
    tree, search, looking, base, dirs, files, found, scanned, limited, from, text, touched,
    chain, root, loading, directory, selected, sections

-----------------------------------------------------------------------------
(* The plans: a tool's command and script, a hook's command.               *)
NoLimits == [k \in Bounded |-> 0]
Own == [k \in Bounded |-> IF k \in Optional THEN 0 ELSE 2]
Capped == [Own EXCEPT !["memory"] = 1]

Commands ==
    [by: {"shell"}, mode: {"exec"}, class: {"read", "unknown", "privileged", "git"},
     files: {"host", "workspace-read"}, online: BOOLEAN, prefers: {"auto", "local"},
     shell: {"auto"}, limits: {NoLimits, Capped}]
Scripts ==
    [by: {"shell"}, mode: {"shell"}, class: {"read", "destroy"},
     files: {"host", "workspace-read"}, online: {FALSE}, prefers: {"auto", "local"},
     shell: {"auto", "posix"}, limits: {NoLimits}]
HookCommands ==
    [by: {"hook"}, mode: {"exec"}, class: {"read", "build"}, files: {"host"},
     online: {TRUE}, prefers: {"local"}, shell: {"auto"}, limits: {Own}]

SomeArguments == Commands \cup Scripts \cup HookCommands
SomeConfigs ==
    [isolation: {1, 2}, enforcement: {2}, unknown: {1, 3}, ceiling: {Own, Capped},
     offline: BOOLEAN]
SomeRules ==
    LET Only(class, ceiling) ==
            [[c \in Classes |-> NoRule] EXCEPT ![class] = [ceiling |-> ceiling, ask |-> FALSE]]
    IN  {[c \in Classes |-> NoRule], Only("read", 0), Only("unknown", 3)}
SomeHosts ==
    LET Linux == [family |-> "posix", system |-> "linux", shells |-> {"posix"},
                  controllers |-> {"memory"}, docker |-> TRUE, image |-> TRUE]
    IN  {Linux, [Linux EXCEPT !.shells = {}, !.controllers = {}],
         [Linux EXCEPT !.system = "macos", !.controllers = {}, !.image = FALSE]}

(* Three MCP servers.  One may list a tool named as a built-in one and one *)
(* that is too deep, or too many tools and one that cannot be used.  The   *)
(* names of two servers and of two tools differ by a "_".                  *)
SomeServers == << <<"a">>, <<"a", "_">>, <<"b">> >>
SomeBuiltIn == {<<"s", "h">>}
Tool(name, usable, depth) == [name |-> name, usable |-> usable, depth |-> depth]
SomeListings ==
    {<<Tool(<<"x">>, TRUE, 1), Tool(<<"s", "h">>, TRUE, 2), Tool(<<"z">>, TRUE, 3)>>,
     <<Tool(<<"_", "x">>, TRUE, 2), Tool(<<"z">>, FALSE, 1), Tool(<<"x">>, TRUE, 1), Tool(<<"y">>, TRUE, 1)>>}

Language == INSTANCE LanguageServer WITH
    live <- procs, Faults <- {"exits", "garbage", "unstarted"}

Tools == INSTANCE McpServers

(* A server's name is given once in mcp.json (McpSuite), and no built-in   *)
(* tool has a name that begins with "mcp__".                               *)
ASSUME ServicesAssumption ==
    /\ Servers \in Seq(Seq(STRING))
    /\ \A i, j \in DOMAIN Servers : Servers[i] = Servers[j] => i = j
    /\ \A name \in BuiltIn :
         name \in Seq(STRING) /\ \E k \in 1..5 : k \notin DOMAIN name \/ name[k] # Tools!Prefix[k]
    /\ Listings \subseteq Seq([name : Seq(STRING), usable : BOOLEAN, depth : Nat])
    /\ \A d \in Directories : \A p \in DOMAIN d :
         d[p] \subseteq [id : Models, effort : BOOLEAN, withdrawn : BOOLEAN]
    /\ MaxRetries \in Nat /\ MaxIssued \in Nat
    /\ MaxRedirects \in Nat /\ MaxBytes \in Nat /\ MaxBody \in Nat
    /\ Chains \subseteq
         Seq([git : BOOLEAN, files : Seq([kind : Kinds, text : Seq(Nat \ {0})])]) \ {<<>>}
    /\ \A c \in Chains : \A d \in DOMAIN c : Len(c[d].files) = 2
    /\ PromptBytes \in Nat /\ ReplyCalls \in Nat

Requests == INSTANCE ModelRequests WITH
    request <- posted

SomeSecrets == {<<"a">>, <<"b", "a">>}

Replies == INSTANCE ModelReplies WITH
    buffers <- pieces, calls <- made,
    Transports <- {"chat", "responses", "anthropic", "google"}, Names <- ToolNames,
    SendsIds <- TRUE, MaxReplies <- MaxServed, MaxCalls <- ReplyCalls, MaxMade <- SessionCalls

(* Models.dev knows the first provider, or another one that cannot be      *)
(* listed; only "s" can be signed in to.                                   *)
Known(id, effort, withdrawn) == [id |-> id, effort |-> effort, withdrawn |-> withdrawn]
SomeDirectories ==
    {[p |-> {Known("m", TRUE, FALSE), Known("n", FALSE, TRUE)}, s |-> {Known("m", TRUE, FALSE)}],
     [s |-> {Known("m", TRUE, FALSE), Known("n", FALSE, FALSE)}, q |-> {}]}

Catalog == INSTANCE ModelCatalog WITH
    credential <- accounts, pc <- at, failed <- down

Address(global, embeds) == [global |-> global, embeds |-> embeds]
SomeAddresses ==
    LET Global == Address(TRUE, {})
        Local == Address(FALSE, {})
    IN  {Global, Local, Address(TRUE, {Local}), Address(TRUE, {Global})}

Web == INSTANCE WebFetch WITH
    open <- held, pc <- doing, asked <- tries, Urls <- BOOLEAN

(* Bodies that hold what separates messages, and one that is no message.   *)
SomeBodies == {<<"a">>, <<"t", "t", "a">>, <<"x">>}
SomeNoise == {<<"nl">>, <<" ">>}

(* Every argument of at most two of a letter, a backslash, a quote and a   *)
(* blank, after a program without and with a blank in its name.            *)
SomePrograms == {<<"a">>, <<"a", " ", "\\", "a">>}
SomeWords == UNION {[1..n -> {"a", "\\", "q", " "}] : n \in 0..2}

(* A tree of files, of which 4 is a private directory and 5 a private      *)
(* file's name, or one with links inside and outside of it.                *)
Leaves == 2..5
Paths == {<<>>} \cup {<<n>> : n \in Leaves} \cup {<<n, m>> : n, m \in Leaves}
File(lines) == [kind |-> "file", lines |-> lines, to |-> <<>>]
Dir == [kind |-> "dir", lines |-> <<>>, to |-> <<>>]
Link(path) == [kind |-> "link", lines |-> <<>>, to |-> path]
Nothing == [kind |-> "none", lines |-> <<>>, to |-> <<>>]
Tree(nodes) ==
    [p \in Paths |-> IF p = <<>> THEN Dir ELSE IF p \in DOMAIN nodes THEN nodes[p] ELSE Nothing]
SomeTrees ==
    {Tree(<<2>> :> Dir @@ <<2, 2>> :> File(<<"hit", "miss", "hit">>)
          @@ <<2, 5>> :> File(<<"hit">>) @@ <<3>> :> File(<<"miss", "hit", "bad">>)
          @@ <<4>> :> Dir @@ <<4, 2>> :> File(<<"hit">>)),
     Tree(<<2>> :> Link(<<3>>) @@ <<3>> :> Dir @@ <<3, 2>> :> File(<<"hit", "hit">>)
          @@ <<3, 3>> :> Link(<<-1>>) @@ <<5>> :> Dir @@ <<5, 3>> :> File(<<"hit">>)),
     Tree(<<2>> :> Dir @@ <<2, 2>> :> Dir @@ <<2, 3>> :> File(<<"miss">>)
          @@ <<3>> :> File(<<"hit", "miss", "miss", "hit">>))}

(* Patterns of "*" (0), "**" (1) and names; paths through links and "..".  *)
SomeCalls ==
    LET Call(tool, path, pattern, start, count) ==
            [tool |-> tool, path |-> path, pattern |-> pattern, start |-> start, count |-> count]
    IN  {Call("glob", p, q, 1, 1) : p \in {<<>>, <<2>>},
            q \in {<<1>>, <<0>>, <<1, 2>>, <<2, 1>>, <<0, 3>>}}
        \cup {Call(t, p, <<>>, 1, 1) : t \in {"grep", "list"},
                p \in {<<>>, <<2>>, <<3>>, <<3, -1, 3>>, <<5>>, <<4>>}}
        \cup {Call("read", p, <<>>, s, c) : s \in 1..2, c \in 1..2,
                p \in {<<3>>, <<2, 2>>, <<2, 5>>, <<2, -1, 3>>, <<3, 3>>, <<2, -1, -1>>}}

Search == INSTANCE WorkspaceSearch WITH
    call <- search, pc <- looking, pending <- dirs, Trees <- SomeTrees, Calls <- SomeCalls,
    Changes <- {Nothing, Dir, File(<<"hit">>)}, PrivateDirs <- {4}, PrivateFiles <- {5},
    MaxScanned <- 5, MaxMatches <- 2, MaxFile <- 3

(* Up to three directories, each with a usual and an overriding file.      *)
SomeChains ==
    LET NoFile(kind) == [kind |-> kind, text |-> <<>>]
        Text(bytes) == [kind |-> "text", text |-> bytes]
        SomeFiles ==
            {<<NoFile("absent"), NoFile("absent")>>, <<NoFile("dangling"), Text(<<1>>)>>,
             <<Text(<<>>), Text(<<1, 1, 2>>)>>, <<Text(<<2, 2>>), NoFile("unreadable")>>,
             <<NoFile("absent"), NoFile("unreadable")>>, <<NoFile("absent"), Text(<<1>>)>>}
    IN  [1..3 -> [git : BOOLEAN, files : SomeFiles]]

Prompt == INSTANCE Instructions WITH
    pc <- loading, next <- directory, entries <- selected, MaxBytes <- PromptBytes

languageVars ==
    <<version, procs, starts, client, failed, reading, open, told, diagnostics,
      settled, unanswered, calls, call, last>>
toolVars == <<next, step, live, clients, tools, registry, phase>>
requestVars ==
    <<provider, credential, model, cached, session, stored, aging, issued, posted,
      heard, sent, requests, forgotten, strayed>>
replyVars == <<transport, turns, pending, seen, reply, progress, pieces, made, pc, served>>
catalogVars ==
    <<accounts, snapshot, lists, now, at, refresh, entries, origin, down, waiting,
      resolved, discoveries>>
webVars == <<url, addresses, peer, hops, tries, held, left, body, truncated, doing>>
searchVars ==
    <<tree, search, looking, base, dirs, files, found, scanned, limited, from, text, touched>>
promptVars == <<chain, root, loading, directory, selected, sections>>
allVars ==
    <<world, vars, languageVars, toolVars, requestVars, outputVars, replyVars,
      catalogVars, webVars, frameVars, lineVars, searchVars, promptVars>>

Some(set) == CHOOSE x \in set : TRUE

MCInit ==
    /\ world \in {"plan", "language", "tools", "requests", "output", "replies",
                 "catalog", "web", "frames", "lines", "search", "instructions"}
    /\ (world = "search" \/ (tree = Some(SomeTrees) /\ search = Some(SomeCalls)))
    /\ Search!Init
    /\ (world = "instructions" \/ chain = Some(Chains)) /\ Prompt!Init
    /\ (world = "lines" \/ argv = <<Some(Programs)>>) /\ Lines!Init
    /\ (world = "frames" \/ framing = Some(Framings)) /\ Frames!Init
    /\ (world = "web" \/ url = TRUE) /\ Web!Init
    /\ (world = "catalog" \/ accounts = [p \in Names |-> "none"]) /\ Catalog!Init
    /\ (world = "replies" \/ transport = "chat") /\ Replies!Init
    /\ (world = "requests" \/ provider = Some(Providers)) /\ Requests!Init
    /\ Language!Init /\ Tools!Init /\ Collected!Init
    /\ \/ world = "plan"
       \/ /\ config = Some(Configs) /\ request = Built(Some(Arguments), config)
          /\ rules = Some(Rules) /\ host = Some(Hosts)
    /\ Init

MCNext ==
    /\ UNCHANGED world
    /\ \/ /\ world = "plan" /\ Next
          /\ UNCHANGED <<languageVars, toolVars, requestVars, outputVars, replyVars,
                        catalogVars, webVars, frameVars, lineVars, searchVars,
                        promptVars>>
       \/ /\ world = "language" /\ Language!Next
          /\ UNCHANGED <<vars, toolVars, requestVars, outputVars, replyVars,
                        catalogVars, webVars, frameVars, lineVars, searchVars,
                        promptVars>>
       \/ /\ world = "tools" /\ Tools!Next
          /\ UNCHANGED <<vars, languageVars, requestVars, outputVars, replyVars,
                        catalogVars, webVars, frameVars, lineVars, searchVars,
                        promptVars>>
       \/ /\ world = "requests" /\ Requests!Next
          /\ UNCHANGED <<vars, languageVars, toolVars, outputVars, replyVars,
                        catalogVars, webVars, frameVars, lineVars, searchVars,
                        promptVars>>
       \/ /\ world = "output" /\ Collected!Next
          /\ UNCHANGED <<vars, languageVars, toolVars, requestVars, replyVars,
                        catalogVars, webVars, frameVars, lineVars, searchVars,
                        promptVars>>
       \/ /\ world = "replies" /\ Replies!Next
          /\ UNCHANGED <<vars, languageVars, toolVars, requestVars, outputVars,
                        catalogVars, webVars, frameVars, lineVars, searchVars,
                        promptVars>>
       \/ /\ world = "catalog" /\ Catalog!Next
          /\ UNCHANGED <<vars, languageVars, toolVars, requestVars, outputVars,
                        replyVars, webVars, frameVars, lineVars, searchVars,
                        promptVars>>
       \/ /\ world = "web" /\ Web!Next
          /\ UNCHANGED <<vars, languageVars, toolVars, requestVars, outputVars,
                        replyVars, catalogVars, frameVars, lineVars, searchVars,
                        promptVars>>
       \/ /\ world = "frames" /\ Frames!Next
          /\ UNCHANGED <<vars, languageVars, toolVars, requestVars, outputVars,
                        replyVars, catalogVars, webVars, lineVars, searchVars,
                        promptVars>>
       \/ /\ world = "lines" /\ Lines!Next
          /\ UNCHANGED <<vars, languageVars, toolVars, requestVars, outputVars,
                        replyVars, catalogVars, webVars, frameVars, searchVars,
                        promptVars>>
       \/ /\ world = "search" /\ Search!Next
          /\ UNCHANGED <<vars, languageVars, toolVars, requestVars, outputVars,
                        replyVars, catalogVars, webVars, frameVars, lineVars,
                        promptVars>>
       \/ /\ world = "instructions" /\ Prompt!Next
          /\ UNCHANGED <<vars, languageVars, toolVars, requestVars, outputVars,
                        replyVars, catalogVars, webVars, frameVars, lineVars,
                        searchVars>>

MCSpec == MCInit /\ [][MCNext]_allVars

-----------------------------------------------------------------------------
(* LanguageServer, McpServers: an answer is that of the call it is given   *)
(* to, a tool's name that of the server it came from, and every server     *)
(* process that runs is one that its manager still knows and can stop.     *)
CallsReachTheirs ==
    /\ Language!AnswersAreOwn /\ Language!NoOrphans
    /\ Tools!ToolsStayDistinct /\ Tools!NoOrphans

(* ModelRequests, WebFetch: a credential is sent to the provider that      *)
(* issued it, of the attempts at one request one is passed on, no fetch    *)
(* leaves for an address that is not public, and no page grows past its    *)
(* limit.                                                                  *)
RequestsGoHome ==
    /\ Requests!CredentialGoesHome /\ Requests!OneAttemptIsHeard
    /\ Web!FetchIsContained

(* ModelReplies: however a server interleaves its events and names its     *)
(* calls, the calls of a whole reply are those it made, and those of a cut *)
(* one are some of them, in their order, without the end of their          *)
(* arguments; and the next request pairs each call with its result.        *)
RepliesAreWhole == Replies!RepliesAreWhole

(* ModelCatalog: one source that fails takes no model of another's away,   *)
(* what the directory knows of a model is kept, and the stored directory   *)
(* outlives failures and crashes and is used when no other can be had.     *)
CatalogIsWhole == Catalog!CatalogIsWhole

(* WorkspaceSearch: what the model is shown of the project is there, in    *)
(* its order, and whole unless it is said not to be.                       *)
FilesAreShown == Search!SearchesAreTrue /\ Search!WindowsJoin

(* Instructions: the prompt gets the instructions of a project in order,   *)
(* none left out, up to what fits.                                         *)
InstructionsAreOrdered == Prompt!InstructionsAreOrdered
=============================================================================
