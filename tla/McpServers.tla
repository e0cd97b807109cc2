----------------------------- MODULE McpServers -----------------------------
(***************************************************************************)
(* The MCP servers of mcp.json: mcp/manager.py starts them one after       *)
(* another with the application, mcp/client.py makes the handshake,        *)
(* mcp/models.py and mcp/schema.py bound what they offer, mcp/tool.py      *)
(* names it and Agent.initialize_mcp registers it.                         *)
(*                                                                         *)
(* A name is the sequence of its characters.  An                           *)
(* entry of a listing is [name, usable, depth]: whether its name and the   *)
(* kind of its schema are acceptable, and how deeply the schema nests.  A  *)
(* tool is <<place, name>>, its server's place in the file and the name it *)
(* has there; of two tools of one server with one name, one is as good as  *)
(* the other.                                                              *)
(***************************************************************************)
EXTENDS Naturals, Sequences

CONSTANTS
    Servers,   \* the names of the configured servers, in the order of the file
    Listings,  \* what a server may list
    MaxTools,  \* MAX_TOOLS_PER_SERVER
    MaxDepth,  \* MAX_SCHEMA_DEPTH
    BuiltIn    \* names of the tools registered before

VARIABLES
    next,      \* the server McpManager.start is at
    step,      \* where _start_one is with it
    live,      \* server processes
    clients,   \* McpManager._clients
    tools,     \* tools handed to initialize_mcp
    registry,  \* the tool each registered name stands for
    phase      \* "starting", "started", "stopped"

vars == <<next, step, live, clients, tools, registry, phase>>

Starting == phase = "starting" /\ next <= Len(Servers)
Current == Servers[next]

(* bound_tool_schema, usable_tool_name                                     *)
Acceptable(entry) == entry.usable /\ entry.depth <= MaxDepth

(* parse_tool_descriptors: of the first MaxTools entries, those acceptable.*)
Descriptors(listing) ==
    {listing[i].name : i \in {j \in DOMAIN listing : j <= MaxTools /\ Acceptable(listing[j])}}

BuiltInTool(name) == <<0, name>>  \* of no server

(* Mutant: tools keep the names their servers gave them.                   *)
MutantNamespaced(tool) == tool[2]

Prefix == <<"m", "c", "p", "_", "_">>
Separator == <<"_", "_">>

(* namespaced_name.  A "_" at the border belongs to neither name, so two   *)
(* tools may have one name: "a_" with "x", and "a" with "_x".              *)
Namespaced(tool) == Prefix \o Servers[tool[1]] \o Separator \o tool[2]

Init ==
    /\ next = 1 /\ step = "configured" /\ live = {} /\ clients = {} /\ tools = {}
    /\ registry = [name \in BuiltIn |-> BuiltInTool(name)] /\ phase = "starting"

Proceeds == step' = "configured" /\ next' = next + 1 /\ UNCHANGED <<registry, phase>>

(* The working directory is outside of the project, or there is no such    *)
(* command.                                                                *)
Unstarted ==
    /\ Starting /\ step = "configured"
    /\ Proceeds /\ UNCHANGED <<live, clients, tools>>

Spawns ==
    /\ Starting /\ step = "configured"
    /\ step' = "handshake" /\ live' = live \cup {Current}
    /\ UNCHANGED <<next, clients, tools, registry, phase>>

Initialized ==
    /\ Starting /\ step = "handshake" /\ Current \in live
    /\ step' = "listing"
    /\ UNCHANGED <<next, live, clients, tools, registry, phase>>

(* Too late, an error or no server any more: its client is discarded.      *)
Discarded(server) == live \ {server}

Abandons ==
    /\ Starting /\ step \in {"handshake", "listing"}
    /\ live' = Discarded(Current) /\ Proceeds
    /\ UNCHANGED <<clients, tools>>

Lists ==
    /\ Starting /\ step = "listing" /\ Current \in live
    /\ \E listing \in Listings :
          tools' = tools \cup {<<next, name>> : name \in Descriptors(listing)}
    /\ clients' = clients \cup {Current}
    /\ Proceeds /\ UNCHANGED live

(* The tools come in the order of their servers: the first of a name.      *)
First(name) ==
    CHOOSE tool \in tools : /\ Namespaced(tool) = name
                            /\ \A t \in tools : Namespaced(t) = name => tool[1] <= t[1]

(* initialize_mcp: a name that is taken already is left to whoever has it. *)
Registered ==
    [name \in DOMAIN registry \cup {Namespaced(tool) : tool \in tools} |->
        IF name \in DOMAIN registry THEN registry[name] ELSE First(name)]

Registers ==
    /\ phase = "starting" /\ next > Len(Servers)
    /\ registry' = Registered /\ phase' = "started"
    /\ UNCHANGED <<next, step, live, clients, tools>>

ServerExits ==
    /\ \E s \in live : live' = live \ {s}
    /\ UNCHANGED <<next, step, clients, tools, registry, phase>>

Stop ==
    /\ phase = "started"
    /\ live' = live \ clients /\ clients' = {} /\ phase' = "stopped"
    /\ UNCHANGED <<next, step, tools, registry>>

Next ==
    Unstarted \/ Spawns \/ Initialized \/ Abandons \/ Lists \/ Registers \/ ServerExits \/ Stop

Spec == Init /\ [][Next]_vars

----------------------------------------------------------------------------
(* "Two servers offering the same tool name also stay distinct": a tool is *)
(* called by its whole name, none stands in for a tool of the program, and *)
(* one that was accepted is left out only when a server before its own has *)
(* a tool of another name that makes the same whole.                       *)
ToolsStayDistinct ==
    phase # "starting" =>
        /\ \A name \in BuiltIn : registry[name] = BuiltInTool(name)
        /\ \A name \in DOMAIN registry \ BuiltIn :
              registry[name] \in tools /\ Namespaced(registry[name]) = name
        /\ \A tool \in tools :
              /\ Namespaced(tool) \in DOMAIN registry
              /\ LET other == registry[Namespaced(tool)]
                 IN  other = tool \/ (other \in tools /\ other[1] < tool[1] /\ other[2] # tool[2])

(* No server runs that the application will not stop.                      *)
NoOrphans ==
    live \subseteq clients \cup (IF Starting /\ step # "configured" THEN {Current} ELSE {})
=============================================================================
