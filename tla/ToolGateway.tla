---------------------------- MODULE ToolGateway ----------------------------
(***************************************************************************)
(* The tool gateway: the operator writes servers and tools to the registry,*)
(* the reconciler goroutine carries them to the client pool, the gateway's *)
(* catalog, the MCP server's tools and the knowledge graph, the visible    *)
(* set is rebuilt by whoever last changed something, and agents call tools *)
(* meanwhile.  Each lock region, registry statement and pool operation of  *)
(* the code is one step.                                                   *)
(***************************************************************************)
EXTENDS Naturals, Sequences, FiniteSets, Functions

CONSTANTS
  Server,       \* names of backend servers
  ToolName,     \* names of tools
  Config,       \* connection configurations
  GoodConfig,   \* the ones a connection can be opened with
  NoConfig,     \* stands for no configuration
  FileConfig,   \* server -> its configuration in the file, or NoConfig
  Denied,       \* tools the policy of the file denies
  Agent,        \* agents that call tools
  TriggerCap,   \* capacity of the trigger channel
  MaxEdit,      \* bound: registry commands of the operator
  MaxCall,      \* bound: calls of one agent
  MaxUpset      \* bound: upsets, of any kind

Tool == Server \X ToolName
Of(S, s) == {n \in S : n[1] = s}

ASSUME GatewayAssumption ==
  /\ IsFiniteSet(Tool) /\ Denied \subseteq Tool
  /\ GoodConfig \subseteq Config /\ NoConfig \notin Config
  /\ FileConfig \in [Server -> Config \union {NoConfig}]
  /\ {TriggerCap, MaxEdit, MaxCall, MaxUpset} \subseteq Nat

VARIABLES
  row,      \* registered_servers: server -> [owner, cfg, proxy, status]
  rtool,    \* registered_tools: tool -> "absent", "enabled" or "disabled"
  pool,     \* client pool: server -> [known, cfg, state, tools, entry]
  backend,  \* server -> the tools it has now
  catalog,  \* Gateway.catalog
  mcp,      \* proxied tools of the MCP server
  visible,  \* Gateway.visibleSet: [built, set]
  gen,      \* Gateway.visibleGen: the goroutine whose build has the newest generation
  build,    \* goroutine -> its BuildVisibleSet
  rec,      \* the reconciler goroutine
  trigger,  \* the reconciler's trigger channel
  graph,    \* MCPTool nodes of the knowledge graph
  agent,    \* agent -> its operation
  off,      \* history: tools the operator disabled and did not enable or delete
  called,   \* history: tools whose calls went to a backend
  calm,     \* history: no registry command since the last full pass began
  used,     \* registry commands, and operations of each agent
  upsets    \* history: kind of upset -> how often

registry == <<row, rtool, off, calm>>
gateway  == <<catalog, mcp, visible, gen, build>>
outside  == <<backend, agent, called>>
vars == <<row, rtool, pool, backend, catalog, mcp, visible, gen, build, rec, trigger,
          graph, agent, off, called, calm, used, upsets>>

Builder == {"startup", "reconciler"}

NoRow    == [owner |-> "none", cfg |-> NoConfig, proxy |-> FALSE, status |-> "none"]
NotKnown == [known |-> FALSE, cfg |-> NoConfig, state |-> "Idle", tools |-> {}, entry |-> 0]
NoBuild  == [at |-> "idle", names |-> {}, set |-> {}]
Built    == [NoBuild EXCEPT !.at = "done"]
RecIdle  == [at |-> "idle", todo |-> {}, wanted |-> [s \in Server |-> NoConfig],
             info |-> [s \in Server |-> NotKnown], tools |-> {}, adds |-> {},
             now |-> CHOOSE s \in Server : TRUE,
             one |-> CHOOSE n \in Tool : TRUE, drift |-> FALSE]
AgentIdle == [at |-> "idle", tool |-> CHOOSE n \in Tool : TRUE, entry |-> 0]

Spend(what, max) ==
  /\ used[what] < max /\ used' = [used EXCEPT ![what] = @ + 1]
  /\ UNCHANGED upsets

\* A backend's tools change; a call or connection, a registry statement or
\* a graph update fails; the gateway restarts.
UpsetKind == {"change", "backend", "registry", "graph", "restart"}

Upset(kind) ==
  /\ FoldFunction(+, 0, upsets) < MaxUpset
  /\ upsets' = [upsets EXCEPT ![kind] = @ + 1]
  /\ UNCHANGED used

(***************************************************************************)
(* Startup                                                                 *)
(***************************************************************************)

\* SyncConfigServers: config-owned rows follow the file, others are left.
SyncConfigServers(file, r) ==
  [s \in Server |->
     IF file[s] # NoConfig /\ r[s].owner = "none"
       THEN [owner |-> "config", cfg |-> file[s], proxy |-> TRUE, status |-> "pending"]
     ELSE IF file[s] # NoConfig /\ r[s].owner = "config"
       THEN [r[s] EXCEPT !.cfg = file[s], !.proxy = TRUE]
     ELSE IF r[s].owner = "config" THEN [r[s] EXCEPT !.proxy = FALSE]
     ELSE r[s]]

\* NewPool: the file's configurations, no entries.
NewPool(file) == [s \in Server |-> [NotKnown EXCEPT !.cfg = file[s]]]

Init ==
  /\ row   = SyncConfigServers(FileConfig, [s \in Server |-> NoRow])
  /\ rtool = [n \in Tool |-> "absent"]
  /\ pool  = NewPool(FileConfig)
  /\ backend = [s \in Server |-> {s} \X ToolName]
  /\ catalog = {} /\ mcp = {} /\ visible = [built |-> FALSE, set |-> {}] /\ gen = "none"
  /\ build = [b \in Builder |-> NoBuild]
  /\ rec = [RecIdle EXCEPT !.at = "list"] /\ trigger = <<>> /\ graph = {}
  /\ agent = [a \in Agent |-> AgentIdle]
  /\ off = {} /\ called = {} /\ calm = FALSE
  /\ used = [x \in {"edit"} \union Agent |-> 0]
  /\ upsets = [k \in UpsetKind |-> 0]

\* The gateway process is restarted, with a file that may have changed: the
\* registry and the graph persist.
GatewayRestart ==
  /\ Upset("restart")
  /\ \E file \in [Server -> {NoConfig} \union Config] :
       /\ row'  = SyncConfigServers(file, row)
       /\ pool' = NewPool(file)
  /\ catalog' = {} /\ mcp' = {} /\ visible' = [built |-> FALSE, set |-> {}] /\ gen' = "none"
  /\ build' = [b \in Builder |-> NoBuild]
  /\ rec' = [RecIdle EXCEPT !.at = "list"] /\ trigger' = <<>>
  /\ agent' = [a \in Agent |-> AgentIdle]
  /\ calm' = FALSE
  /\ UNCHANGED <<rtool, off, backend, graph, called>>

(***************************************************************************)
(* The operator and the backends                                           *)
(***************************************************************************)

Edit == Spend("edit", MaxEdit) /\ calm' = FALSE /\ UNCHANGED <<pool, outside, gateway, rec, trigger, graph>>

\* RegisterServer, UpdateServer.
RegisterServer(s, c) ==
  /\ row' = [row EXCEPT ![s] = [owner  |-> IF @.owner = "none" THEN "cli" ELSE @.owner,
                                cfg |-> c, proxy |-> TRUE, status |-> "pending"]]
  /\ UNCHANGED <<rtool, off>>
  /\ Edit

\* DeleteServer: the tools' rows go with it.
DeleteServer(s) ==
  /\ row[s].owner # "none"
  /\ row'   = [row EXCEPT ![s] = NoRow]
  /\ rtool' = [n \in Tool |-> IF n[1] = s THEN "absent" ELSE rtool[n]]
  /\ off'   = {n \in off : n[1] # s}
  /\ Edit

SetToolEnabled(n, on) ==
  /\ rtool[n] # "absent"
  /\ rtool' = [rtool EXCEPT ![n] = IF on THEN "enabled" ELSE "disabled"]
  /\ off'   = IF on THEN off \ {n} ELSE off \union {n}
  /\ UNCHANGED row
  /\ Edit

\* The reconciler is told, unless the trigger channel is full (Trigger).
Notify(s) ==
  trigger' = IF Len(trigger) < TriggerCap THEN Append(trigger, s) ELSE trigger

\* A backend's tools change; a connected one sends tools/list_changed.
ChangeTools(s) ==
  /\ Upset("change")
  /\ \E T \in SUBSET ({s} \X ToolName) :
       T # backend[s] /\ backend' = [backend EXCEPT ![s] = T]
  /\ IF pool[s].state = "Ready" THEN Notify(s) ELSE UNCHANGED trigger
  /\ UNCHANGED <<registry, pool, gateway, rec, graph, agent, called>>

(***************************************************************************)
(* The client pool (McpPool has its interleavings)                         *)
(***************************************************************************)

\* What a connection attempt of server s leaves behind.
Connected(s) == [pool EXCEPT ![s].known = TRUE, ![s].state = "Ready", ![s].tools = backend[s]]
Refused(s)   == [pool EXCEPT ![s].known = TRUE, ![s].state = "Failed"]

MayConnect(s) == pool[s].cfg \in GoodConfig
MayRefuse(s)  == \/ pool[s].cfg \notin GoodConfig /\ UNCHANGED <<used, upsets>>
                 \/ Upset("backend")

\* AddServer: the configuration, and an idle entry unless there is one.
Added(p, s, c) == [p EXCEPT ![s].cfg = c, ![s].known = TRUE]

(***************************************************************************)
(* BuildVisibleSet                                                         *)
(***************************************************************************)

\* The generation and a snapshot of the catalog are taken.
BuildStart(b) ==
  /\ gen' = b
  /\ build' = [build EXCEPT ![b] =
                 [at |-> IF catalog = {} THEN "write" ELSE "read",
                  names |-> catalog, set |-> {}]]
  /\ UNCHANGED <<catalog, mcp, visible>>

\* A tool is visible when the policy allows it and the registry does not
\* have it disabled.
VisibleOf(names) == {n \in names : rtool[n] # "disabled" /\ n \notin Denied}

\* The registry's tools are read; when that fails the old set is kept.
BuildRead(b) ==
  /\ build[b].at = "read"
  /\ \/ /\ build' = [build EXCEPT ![b].at = "write", ![b].set = VisibleOf(build[b].names)]
        /\ UNCHANGED <<used, upsets>>
     \/ /\ Upset("registry")
        /\ build' = [build EXCEPT ![b] = Built]
  /\ UNCHANGED <<registry, pool, outside, catalog, mcp, visible, gen, rec, trigger, graph>>

\* Mutant: the build that ends last wins.
BuildWriteAlways(b) ==
  /\ build[b].at = "write"
  /\ visible' = [built |-> TRUE, set |-> build[b].set]
  /\ build' = [build EXCEPT ![b] = Built]
  /\ UNCHANGED <<registry, pool, outside, catalog, mcp, gen, rec, trigger, graph, used, upsets>>

\* Only the newest build writes its set.
BuildWrite(b) ==
  /\ build[b].at = "write"
  /\ visible' = IF gen = b THEN [built |-> TRUE, set |-> build[b].set] ELSE visible
  /\ build' = [build EXCEPT ![b] = Built]
  /\ UNCHANGED <<registry, pool, outside, catalog, mcp, gen, rec, trigger, graph, used, upsets>>

\* NewGatewayServer builds the first set while the reconciler already runs.
StartupBuild ==
  /\ build["startup"].at = "idle"
  /\ BuildStart("startup")
  /\ UNCHANGED <<registry, pool, outside, rec, trigger, graph, used, upsets>>

(***************************************************************************)
(* The reconciler: reconcileAll and reconcileServer                        *)
(***************************************************************************)

RecAt(place) == rec.at = place
Back == [RecIdle EXCEPT !.at = "entries", !.todo = rec.todo, !.wanted = rec.wanted, !.info = rec.info]
Known == {s \in Server : pool[s].known}
Wanted == {s \in Server : rec.wanted[s] # NoConfig}

\* writeHealth: the status of a server that is still registered.
Health(s, status) ==
  row' = IF row[s].owner = "none" THEN row ELSE [row EXCEPT ![s].status = status]

\* The ticker, or the first pass of loop.
Tick ==
  /\ RecAt("idle")
  /\ rec' = [rec EXCEPT !.at = "list"]
  /\ UNCHANGED <<registry, pool, outside, gateway, trigger, graph, used, upsets>>

\* ListServers: what the rest of the pass takes as desired.
ListServers ==
  /\ RecAt("list")
  /\ rec' = [rec EXCEPT !.at = "add",
               !.wanted = [s \in Server |-> IF row[s].proxy THEN row[s].cfg ELSE NoConfig]]
  /\ calm' = TRUE
  /\ UNCHANGED <<row, rtool, off, pool, outside, gateway, trigger, graph, used, upsets>>

\* Mutant: servers that are no longer desired are not looked for.
AddMissingOnly ==
  /\ RecAt("add")
  /\ pool' = [s \in Server |->
                IF s \in Wanted \ Known THEN Added(pool, s, rec.wanted[s])[s] ELSE pool[s]]
  /\ rec'  = [rec EXCEPT !.at = "remove", !.todo = {}, !.drift = FALSE]
  /\ UNCHANGED <<registry, outside, gateway, trigger, graph, used, upsets>>

\* Desired servers the pool does not know are added.
AddMissing ==
  /\ RecAt("add")
  /\ pool' = [s \in Server |->
                IF s \in Wanted \ Known THEN Added(pool, s, rec.wanted[s])[s] ELSE pool[s]]
  /\ rec'  = [rec EXCEPT !.at = "remove", !.todo = Known \ Wanted, !.drift = FALSE]
  /\ UNCHANGED <<registry, outside, gateway, trigger, graph, used, upsets>>

\* The next server to remove; when there is none, the pool is read again.
NextRemoval ==
  /\ RecAt("remove")
  /\ \/ \E s \in rec.todo : rec' = [rec EXCEPT !.at = "unregister", !.now = s, !.todo = @ \ {s}]
     \/ /\ rec.todo = {}
        /\ rec' = [rec EXCEPT !.at = "entries", !.info = pool, !.todo = Known \cap Wanted]
  /\ UNCHANGED <<registry, pool, outside, gateway, trigger, graph, used, upsets>>

\* A request for one server: it is read, looked up in the pool, or added.
TakeTrigger ==
  /\ RecAt("idle") /\ trigger # <<>>
  /\ trigger' = Tail(trigger)
  /\ LET s == Head(trigger) IN
     \/ ~row[s].proxy /\ UNCHANGED <<rec, pool>>
     \/ /\ row[s].proxy /\ pool[s].known
        /\ rec' = [rec EXCEPT !.at = "entries", !.info = pool, !.todo = {s},
                              !.wanted = [RecIdle.wanted EXCEPT ![s] = row[s].cfg]]
        /\ UNCHANGED pool
     \/ /\ row[s].proxy /\ ~pool[s].known
        /\ pool' = Added(pool, s, row[s].cfg)
        /\ UNCHANGED rec
  /\ UNCHANGED <<registry, outside, gateway, graph, used, upsets>>

(***************************************************************************)
(* The reconciler: reconcileEntry                                          *)
(***************************************************************************)

\* Config drift is looked for in a ready entry only.
Drifted(s) == rec.info[s].state = "Ready" /\ rec.info[s].cfg # rec.wanted[s]

\* The next entry: reconnect it, skip it, or discover its tools.
NextEntry ==
  /\ RecAt("entries")
  /\ \/ /\ rec.todo = {} /\ rec' = RecIdle /\ UNCHANGED row
     \/ \E s \in rec.todo :
          LET here(place) == [rec EXCEPT !.at = place, !.now = s, !.todo = @ \ {s},
                                         !.drift = Drifted(s)] IN
          \/ Drifted(s) /\ rec' = here("unregister") /\ UNCHANGED row
          \/ rec.info[s].state = "Connecting" /\ rec' = here("entries") /\ Health(s, "pending")
          \/ /\ rec.info[s].state # "Connecting" /\ ~Drifted(s)
             /\ rec' = here("discover") /\ UNCHANGED row
  /\ UNCHANGED <<rtool, off, calm, pool, outside, gateway, trigger, graph, used, upsets>>

\* UnregisterServer: out of the catalog ...
Unregister ==
  /\ RecAt("unregister")
  /\ catalog' = catalog \ Of(catalog, rec.now)
  /\ rec' = [rec EXCEPT !.at = "unregister_tools"]
  /\ UNCHANGED <<registry, pool, outside, mcp, visible, gen, build, trigger, graph, used, upsets>>

\* ... and then off the MCP server.
UnregisterTools ==
  /\ RecAt("unregister_tools")
  /\ mcp' = mcp \ Of(mcp, rec.now)
  /\ rec' = [rec EXCEPT !.at = "forget"]
  /\ UNCHANGED <<registry, pool, outside, catalog, visible, gen, build, trigger, graph, used, upsets>>

\* removeGraphNodes: a failing update is logged and not repeated.
Forget ==
  /\ RecAt("forget")
  /\ \/ graph' = graph \ Of(graph, rec.now) /\ UNCHANGED <<used, upsets>>
     \/ Upset("graph") /\ UNCHANGED graph
  /\ rec' = [rec EXCEPT !.at = "disconnect"]
  /\ UNCHANGED <<registry, pool, outside, gateway, trigger>>

\* DisconnectServer: out of the pool and its configuration.
Disconnect ==
  /\ RecAt("disconnect")
  /\ pool' = [pool EXCEPT ![rec.now] = [NotKnown EXCEPT !.entry = pool[rec.now].entry + 1]]
  /\ rec'  = [rec EXCEPT !.at = IF rec.drift THEN "readd" ELSE "remove"]
  /\ UNCHANGED <<registry, outside, gateway, trigger, graph, used, upsets>>

\* After a drift: added again with the configuration read from the registry.
Readd ==
  /\ RecAt("readd")
  /\ pool' = Added(pool, rec.now, rec.wanted[rec.now])
  /\ rec' = Back
  /\ Health(rec.now, "pending")
  /\ UNCHANGED <<rtool, off, calm, outside, gateway, trigger, graph, used, upsets>>

\* DiscoverTools: the cached list of a ready server, or a new connection.
Discover ==
  /\ RecAt("discover") /\ pool[rec.now].state # "Connecting"
  /\ LET s == rec.now IN
     \/ /\ pool[s].state = "Ready"
        /\ rec' = [rec EXCEPT !.at = "persist", !.tools = pool[s].tools]
        /\ UNCHANGED <<row, pool, used, upsets>>
     \/ /\ pool[s].state # "Ready" /\ MayConnect(s)
        /\ pool' = Connected(s)
        /\ rec'  = [rec EXCEPT !.at = "persist", !.tools = backend[s]]
        /\ UNCHANGED <<row, used, upsets>>
     \/ /\ pool[s].state # "Ready" /\ MayRefuse(s)
        /\ pool' = Refused(s)
        /\ rec' = Back
        /\ Health(s, "failed")
  /\ UNCHANGED <<rtool, off, calm, outside, gateway, trigger, graph>>

(***************************************************************************)
(* The reconciler: persistAndReconcile and Gateway.ReconcileServer         *)
(***************************************************************************)

\* ReplaceDiscoveredTools: new tools are enabled, known ones keep their
\* flag, the rest is deleted.
Replaced(s, T) ==
  [n \in Tool |-> IF n[1] # s THEN rtool[n]
                  ELSE IF n \notin T THEN "absent"
                  ELSE IF rtool[n] = "absent" THEN "enabled" ELSE rtool[n]]

\* The tools are stored; without the server's row, or when the statement
\* fails, the server is left as it is.
Persist ==
  /\ RecAt("persist")
  /\ LET s == rec.now IN
     \/ /\ row[s].owner # "none"
        /\ rtool' = Replaced(s, rec.tools) /\ Health(s, "active")
        /\ rec' = [rec EXCEPT !.at = "prune"]
        /\ UNCHANGED <<used, upsets>>
     \/ /\ \/ row[s].owner = "none" /\ UNCHANGED <<used, upsets>>
           \/ Upset("registry")
        /\ Health(s, "failed")
        /\ rec' = Back
        /\ UNCHANGED rtool
  /\ UNCHANGED <<off, calm, pool, outside, gateway, trigger, graph>>

\* Tools the server no longer has leave the catalog ...
Prune ==
  /\ RecAt("prune")
  /\ catalog' = catalog \ (Of(catalog, rec.now) \ rec.tools)
  /\ rec' = [rec EXCEPT !.at = "prune_tools"]
  /\ UNCHANGED <<registry, pool, outside, mcp, visible, gen, build, trigger, graph, used, upsets>>

\* ... and the MCP server.
PruneTools ==
  /\ RecAt("prune_tools")
  /\ mcp' = mcp \ (Of(mcp, rec.now) \ rec.tools)
  /\ rec' = [rec EXCEPT !.at = "tools", !.adds = rec.tools]
  /\ UNCHANGED <<registry, pool, outside, catalog, visible, gen, build, trigger, graph, used, upsets>>

\* The next tool; one the catalog has is taken off the MCP server first.
NextTool(n) ==
  /\ RecAt("tools") /\ n \in rec.adds
  /\ mcp' = IF n \in catalog THEN mcp \ {n} ELSE mcp
  /\ rec' = [rec EXCEPT !.at = "add_tool", !.one = n, !.adds = @ \ {n}]
  /\ UNCHANGED <<registry, pool, outside, catalog, visible, gen, build, trigger, graph, used, upsets>>

\* AddTool, outside the gateway's lock.
AddTool ==
  /\ RecAt("add_tool")
  /\ mcp' = mcp \union {rec.one}
  /\ rec' = [rec EXCEPT !.at = "record"]
  /\ UNCHANGED <<registry, pool, outside, catalog, visible, gen, build, trigger, graph, used, upsets>>

\* The tool's catalog entry.
RecordTool ==
  /\ RecAt("record")
  /\ catalog' = catalog \union {rec.one}
  /\ rec' = [rec EXCEPT !.at = "tools"]
  /\ UNCHANGED <<registry, pool, outside, mcp, visible, gen, build, trigger, graph, used, upsets>>

\* All tools are there: BuildVisibleSet.
Rebuild ==
  /\ RecAt("tools") /\ rec.adds = {}
  /\ BuildStart("reconciler")
  /\ rec' = [rec EXCEPT !.at = "building"]
  /\ UNCHANGED <<registry, pool, outside, trigger, graph, used, upsets>>

Rebuilt ==
  /\ RecAt("building") /\ build["reconciler"].at = "done"
  /\ build' = [build EXCEPT !["reconciler"] = NoBuild]
  /\ rec' = [rec EXCEPT !.at = "sync"]
  /\ UNCHANGED <<registry, pool, outside, catalog, mcp, visible, gen, trigger, graph, used, upsets>>

\* syncGraphNodes and cleanStaleToolNodes, then the health.
SyncGraph ==
  /\ RecAt("sync")
  /\ \/ graph' = (graph \ Of(graph, rec.now)) \union rec.tools /\ UNCHANGED <<used, upsets>>
     \/ Upset("graph") /\ UNCHANGED graph
  /\ Health(rec.now, "active")
  /\ rec' = Back
  /\ UNCHANGED <<rtool, off, calm, pool, outside, gateway, trigger>>

(***************************************************************************)
(* Agents                                                                  *)
(***************************************************************************)

Free(a) == agent[a].at = "idle" /\ Spend(a, MaxCall)
Leave == UNCHANGED <<registry, backend, gateway, rec, trigger, graph>>

\* Mutant: before the first set is built everything is visible.
IsToolVisibleOpen(n) == ~visible.built \/ (n \in catalog /\ n \in visible.set)

IsToolVisible(n) == visible.built /\ n \in catalog /\ n \in visible.set

\* proxyHandler: the visibility check; a call that fails it changes nothing.
CallCheck(a, n) ==
  /\ Free(a)
  /\ n \in mcp /\ IsToolVisible(n)
  /\ agent' = [agent EXCEPT ![a] = [AgentIdle EXCEPT !.at = "forward", !.tool = n]]
  /\ UNCHANGED <<pool, called>> /\ Leave

\* CallToolRaw: no configuration, a ready entry, or one to connect.
Forward(a) ==
  /\ agent[a].at = "forward"
  /\ LET s == agent[a].tool[1]
         to(place) == agent' = [agent EXCEPT ![a].at = place, ![a].entry = pool[s].entry] IN
     \/ pool[s].cfg = NoConfig /\ agent' = [agent EXCEPT ![a] = AgentIdle] /\ UNCHANGED pool
     \/ pool[s].cfg # NoConfig /\ pool[s].state = "Ready" /\ to("call") /\ UNCHANGED pool
     \/ /\ pool[s].cfg # NoConfig /\ pool[s].state \in {"Idle", "Failed"}
        /\ pool' = [pool EXCEPT ![s].known = TRUE, ![s].state = "Connecting"]
        /\ to("connect")
  /\ UNCHANGED <<called, used, upsets>> /\ Leave

\* The entry the agent connected or called is still the pool's.
SameEntry(a) == pool[agent[a].tool[1]].entry = agent[a].entry

\* connect ends; an entry that was removed meanwhile is no longer the pool's.
ConnectEnd(a) ==
  /\ agent[a].at = "connect"
  /\ LET s == agent[a].tool[1] IN
     \/ /\ SameEntry(a) => MayConnect(s)
        /\ pool' = IF SameEntry(a) THEN Connected(s) ELSE pool
        /\ agent' = [agent EXCEPT ![a].at = "call"]
        /\ UNCHANGED <<used, upsets>>
     \/ /\ MayRefuse(s)
        /\ pool' = IF SameEntry(a) THEN Refused(s) ELSE pool
        /\ agent' = [agent EXCEPT ![a] = AgentIdle]
  /\ UNCHANGED called /\ Leave

\* The backend is called; a failure marks the entry for reconnect.
Call(a) ==
  /\ agent[a].at = "call"
  /\ LET n == agent[a].tool
         unlisted == SameEntry(a) /\ n \notin pool[n[1]].tools IN
     \/ unlisted /\ UNCHANGED <<pool, called, used, upsets>>
     \/ ~unlisted /\ called' = called \union {n} /\ UNCHANGED <<pool, used, upsets>>
     \/ /\ ~unlisted /\ called' = called \union {n}
        /\ Upset("backend")
        /\ pool' = IF SameEntry(a) THEN [pool EXCEPT ![n[1]].state = "Failed"] ELSE pool
  /\ agent' = [agent EXCEPT ![a] = AgentIdle]
  /\ Leave

\* MCPFetcher: a staging fetch connects through the same pool.
Fetch(s) ==
  /\ pool[s].cfg # NoConfig /\ pool[s].state \in {"Idle", "Failed"}
  /\ \/ MayConnect(s) /\ pool' = Connected(s) /\ UNCHANGED <<used, upsets>>
     \/ MayRefuse(s) /\ pool' = Refused(s)
  /\ UNCHANGED <<agent, called>> /\ Leave

Next ==
  \/ GatewayRestart \/ StartupBuild
  \/ \E s \in Server : \/ ChangeTools(s) \/ Fetch(s) \/ DeleteServer(s)
                       \/ \E c \in Config : RegisterServer(s, c)
  \/ \E n \in Tool, on \in BOOLEAN : SetToolEnabled(n, on)
  \/ \E b \in Builder : BuildRead(b) \/ BuildWrite(b)
  \/ Tick \/ ListServers \/ AddMissing \/ NextRemoval \/ TakeTrigger \/ NextEntry
  \/ Unregister \/ UnregisterTools \/ Forget \/ Disconnect \/ Readd \/ Discover
  \/ Persist \/ Prune \/ PruneTools \/ RecordTool \/ Rebuild \/ Rebuilt \/ SyncGraph
  \/ AddTool \/ \E n \in Tool : NextTool(n)
  \/ \E a \in Agent : \/ Forward(a) \/ ConnectEnd(a) \/ Call(a)
                      \/ \E n \in Tool : CallCheck(a, n)

Spec == Init /\ [][Next]_vars

(***************************************************************************)
(* Fairness: the ticker fires, the reconciler and the builds go on, and    *)
(* connecting and calling end.                                             *)
(***************************************************************************)
Reconcile ==
  \/ Tick \/ ListServers \/ AddMissing \/ NextRemoval \/ NextEntry
  \/ Unregister \/ UnregisterTools \/ Forget \/ Disconnect \/ Readd \/ Discover
  \/ Persist \/ Prune \/ PruneTools \/ AddTool \/ RecordTool \/ Rebuild \/ Rebuilt \/ SyncGraph
  \/ \E n \in Tool : NextTool(n)

FairSpec ==
  /\ Spec
  /\ WF_vars(Reconcile) /\ SF_vars(TakeTrigger)
  /\ \A b \in Builder : WF_vars(BuildRead(b) \/ BuildWrite(b))
  /\ \A a \in Agent : WF_vars(Forward(a) \/ ConnectEnd(a) \/ Call(a))

(***************************************************************************)
(* Properties                                                              *)
(***************************************************************************)

RecPlace == {"idle", "list", "add", "remove", "entries", "unregister", "unregister_tools",
             "forget", "disconnect", "readd", "discover", "persist", "prune", "prune_tools",
             "tools", "add_tool", "record", "building", "sync"}

TypeOK ==
  /\ row \in [Server -> [owner : {"none", "config", "cli"}, cfg : Config \union {NoConfig},
                         proxy : BOOLEAN, status : {"none", "pending", "active", "failed"}]]
  /\ rtool \in [Tool -> {"absent", "enabled", "disabled"}]
  /\ pool \in [Server -> [known : BOOLEAN, cfg : Config \union {NoConfig},
                          state : {"Idle", "Connecting", "Ready", "Failed"},
                          tools : SUBSET Tool, entry : Nat]]
  /\ \A s \in Server : backend[s] \subseteq Of(Tool, s)
  /\ catalog \subseteq Tool /\ mcp \subseteq Tool /\ graph \subseteq Tool
  /\ visible \in [built : BOOLEAN, set : SUBSET Tool] /\ gen \in Builder \union {"none"}
  /\ \A b \in Builder : build[b].set \subseteq build[b].names
  /\ rec.at \in RecPlace /\ rec.tools \subseteq Of(Tool, rec.now) /\ rec.adds \subseteq rec.tools
  /\ Len(trigger) <= TriggerCap
  /\ \A a \in Agent : agent[a].at \in {"idle", "forward", "connect", "call"}
  /\ called \subseteq Tool /\ off \subseteq Tool /\ calm \in BOOLEAN

\* No call of a tool the policy denies reaches a backend, whatever the
\* reconciler and the builds are doing (IsToolVisible fails closed).
PolicyEnforced == called \cap Denied = {}

\* Once a full pass has seen all registry commands and nothing failed, the
\* visible tools are the enabled and allowed ones: a build that started
\* earlier has not overwritten a newer one (visibleGen).
VisibleIsCurrent ==
  /\ rec.at = "idle" /\ calm
  /\ upsets["registry"] = 0 /\ upsets["backend"] = 0
  /\ \A b \in Builder : build[b].at \notin {"read", "write"}
  /\ build["startup"].at = "done"
  => visible.built /\ visible.set \cap catalog = VisibleOf(catalog)

\* What agents can call is what registry and policy allow (IsToolVisible, the
\* builds of the visible set).
GatewaySound == PolicyEnforced /\ VisibleIsCurrent

\* In the end the gateway follows the registry, over failures, restarts and
\* rows read before the operator changed them (reconcileAll):
\*   - the pool, the catalog and the MCP server have nothing of a server that
\*     is not proxied, and a ready server has the registered configuration -
\*     one that does not connect keeps what it was first given;
\*   - the graph has no tool of such a server, unless a removal failed or the
\*     gateway forgot the server in a restart;
\*   - a tool the operator disabled cannot be called, unless its backend
\*     dropped it for a while and its row went with it.
RegistryFollowed ==
  <>[](/\ \A s \in Server :
            IF row[s].proxy THEN pool[s].state = "Ready" => pool[s].cfg = row[s].cfg
                            ELSE ~pool[s].known /\ Of(catalog \union mcp, s) = {}
       /\ \/ upsets["graph"] > 0 \/ upsets["restart"] > 0
          \/ \A n \in graph : row[n[1]].proxy
       /\ upsets["change"] > 0 \/ \A n \in off : ~IsToolVisible(n))

=============================================================================
