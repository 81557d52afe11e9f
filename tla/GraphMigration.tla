--------------------------- MODULE GraphMigration ---------------------------
(***************************************************************************)
(* A gateway boots on a knowledge graph of the old ontology: it loads the  *)
(* schema and seeds the graph, migrates the graph (internal/graph,         *)
(* migrate.go) and starts the reconciler, which creates nodes of the new   *)
(* ontology.  Every query is an action of its own.  It may fail, with or   *)
(* without having been executed: then the migration ends where it stands   *)
(* and the gateway goes on to serve.  The process may end anywhere; the    *)
(* next boot begins again.  One gateway runs at a time.                    *)
(*                                                                         *)
(* A node with a name is the name; a set of pairs is the edges of a type.  *)
(***************************************************************************)
EXTENDS Naturals, FiniteSets, GraphSchema

CONSTANTS
    Server,        \* keys of DataSources of type "mcp"
    Area,          \* keys of DataSources that agents created
    NoKey,         \* the empty config_key
    Tool, Log, Strategy,
    ServerOf,      \* of a tool, and of an area by the prefix of its key
    BatchSize, MaxPass,     \* of batchRemoveLabel: 10 and 100
    Ontologies,    \* how a project may give its schema: [how, sets]
    MaxBoot, MaxFault       \* bounds: boots of the gateway, failing queries

Key == Server \cup Area \cup {NoKey}
Old(t) == <<t, "-">>
New(t) == <<t, ".">>
OldName == {Old(t) : t \in Tool}
Name == OldName \cup {New(t) : t \in Tool}

\* More than BatchSize * MaxPass nodes may keep their old label.
ASSUME MigrationAssumption ==
    /\ ServerOf \in [Tool \cup Area -> Server]
    /\ BatchSize * MaxPass \in Nat
    /\ Cardinality(Tool) <= BatchSize * MaxPass /\ Cardinality(Log) <= BatchSize * MaxPass
    /\ MaxBoot \in Nat /\ MaxFault \in Nat

VARIABLES
    mcpSource, mcpTool,      \* nodes of the label, by name
    source,                  \* their _source
    fields,                  \* names with RETURNS_FIELD edges
    logSource, domainSource, \* nodes of the label
    dataSource,              \* DataSource nodes, by key
    queried, fetchable,      \* Log -> DataSource, DataSource -> tool
    toolRef, refUsed, used,  \* ToolRef nodes, Strategy -> ToolRef, Strategy -> tool
    server, store,           \* MCPServer and DataStore nodes, by key
    provides, stored, via,   \* server -> tool, Log -> store, store -> server
    seeded,                  \* Semantic nodes
    pc, todo, pass,          \* of the boot
    ontology, migrated,      \* the configured schema; the migration ended without error
    boots, faults,
    collided                 \* tools whose old node was deleted beside a new one

toolVars == <<mcpSource, mcpTool, source, fields>>
logVars == <<logSource, domainSource>>
sourceVars == <<dataSource, queried, fetchable>>
refVars == <<toolRef, refUsed, used>>
newVars == <<server, store, provides, stored, via>>
graphVars == <<toolVars, logVars, sourceVars, refVars, newVars, seeded, collided>>
migrationVars == <<graphVars, pc, todo, pass, ontology, migrated, boots, faults>>

Step == {"mcp count", "mcp add", "mcp remove", "mcp batch",
         "log count", "log add", "log remove", "log batch",
         "sources", "server", "store", "via", "stored", "provides", "drop sources",
         "refs", "rewire", "broken", "unlink", "drop refs",
         "names", "existing", "enriched", "enrich", "drop old", "rename",
         "backfill tools", "backfill servers"}
Idle == <<>>

\* A legacy graph.  Nodes that agents wrote say so in _source.
MigrationInit ==
    /\ mcpSource \in SUBSET OldName /\ mcpTool = OldName \ mcpSource
    /\ source \in {f \in [Name -> {"null", "agent"}] : \A t \in Tool : f[New(t)] = "null"}
    /\ fields = OldName
    /\ logSource = Log /\ domainSource = {}
    /\ dataSource = Key
    /\ queried = Log \X Key
    /\ fetchable = {<<ServerOf[t], Old(t)>> : t \in Tool} \cup (Area \X OldName)
    /\ toolRef = Name /\ refUsed = Strategy \X Name /\ used = {}
    /\ server = {} /\ store = {}
    /\ provides = {} /\ stored = {} /\ via = {}
    /\ seeded = {} /\ collided = {}
    /\ pc = "down" /\ todo = Idle /\ pass = 0
    /\ ontology \in Ontologies /\ migrated = FALSE
    /\ boots = 0 /\ faults = 0

MigrationTypeOK ==
    /\ mcpSource \cup mcpTool \subseteq Name /\ fields \subseteq Name
    /\ source \in [Name -> {"null", "agent", "migration:v1", "reconciler:auto", "manual:legacy"}]
    /\ logSource \cup domainSource \subseteq Log
    /\ dataSource \subseteq Key /\ queried \subseteq Log \X Key /\ fetchable \subseteq Key \X Name
    /\ toolRef \subseteq Name /\ refUsed \cup used \subseteq Strategy \X Name
    /\ server \subseteq Server /\ store \subseteq Key
    /\ provides \subseteq Server \X Name /\ stored \subseteq Log \X Key /\ via \subseteq Key \X Server
    /\ pc \in {"down", "seed", "serving"} \cup Step
    /\ todo \in Seq(Key \cup Name) /\ pass \in 0..MaxPass
    /\ migrated \in BOOLEAN /\ boots \in 0..MaxBoot /\ faults \in 0..MaxFault

------------------------------------------------------------------------------
(* The process *)

Schema == Load(ontology.how, ontology.sets)

\* runServeGateway up to the migration; a schema that cannot be loaded ends it.
Boot ==
    /\ pc = "down" /\ boots < MaxBoot /\ boots' = boots + 1
    /\ pc' = IF Schema.ok THEN "seed" ELSE "down"
    /\ migrated' = FALSE
    /\ UNCHANGED <<graphVars, todo, pass, ontology, faults>>

\* applySchemaToGraph: failing indexes and constraints are logged, a failing
\* seed ends the process (Exit).
ApplySchemaToGraph ==
    /\ pc = "seed"
    /\ LET seeds == Schema.semantics \ seeded
       IN  \/ seeds = {} /\ pc' = "mcp count" /\ UNCHANGED seeded
           \/ \E s \in seeds : seeded' = seeded \cup {s} /\ UNCHANGED pc
    /\ UNCHANGED <<toolVars, logVars, sourceVars, refVars, newVars, collided,
                   todo, pass, ontology, migrated, boots, faults>>

Exit ==
    /\ pc # "down" /\ boots < MaxBoot
    /\ pc' = "down" /\ todo' = Idle /\ pass' = 0
    /\ UNCHANGED <<graphVars, ontology, migrated, boots, faults>>

\* The row the loop of a step is at.
Row == Head(todo)

\* A query of the migration fails before it has an effect.
QueryFails ==
    /\ pc \in Step /\ faults < MaxFault /\ faults' = faults + 1
    /\ ~(pc = "via" /\ Row \in Area)
    /\ pc' = "serving" /\ todo' = Idle /\ pass' = 0
    /\ UNCHANGED <<graphVars, ontology, migrated, boots>>

\* The query at p was executed; its answer comes, or is lost.
Ask(p, next, rest, n) ==
    /\ pc = p
    /\ \/ pc' = next /\ todo' = rest /\ pass' = n /\ UNCHANGED faults
       \/ /\ faults < MaxFault /\ faults' = faults + 1
          /\ pc' = "serving" /\ todo' = Idle /\ pass' = 0
    /\ UNCHANGED <<ontology, migrated, boots>>

Query(p, next) == Ask(p, next, todo, 0)

------------------------------------------------------------------------------
(* Step 1: labels *)

KeepTools == UNCHANGED toolVars
KeepButTools == UNCHANGED <<logVars, sourceVars, refVars, newVars, seeded, collided>>
KeepButLogs == UNCHANGED <<toolVars, sourceVars, refVars, newVars, seeded, collided>>

Stamp(nodes, s) == source' = [n \in Name |-> IF n \in nodes /\ source[n] = "null" THEN s ELSE source[n]]

RenameMCPSource ==
    /\ Query("mcp count", IF mcpSource = {} THEN "log count" ELSE "mcp add")
    /\ UNCHANGED graphVars

AddMCPTool ==
    /\ Query("mcp add", "mcp remove")
    /\ mcpTool' = mcpTool \cup mcpSource /\ Stamp(mcpSource, "migration:v1")
    /\ UNCHANGED <<mcpSource, fields>> /\ KeepButTools

\* Depending on the version of the database some labels stay, without an error.
RemoveMCPSource ==
    /\ Query("mcp remove", "mcp batch")
    /\ mcpSource' \in SUBSET mcpSource
    /\ UNCHANGED <<mcpTool, source, fields>> /\ KeepButTools

\* Up to BatchSize labels go with one query.
Batch(before, after) ==
    after \subseteq before /\ Cardinality(before \ after) <= BatchSize

Full(before, after) == Batch(before, after) /\ (Cardinality(before \ after) = BatchSize \/ after = {})

BatchMCPSource ==
    /\ IF mcpSource = {} \/ pass = MaxPass THEN Ask("mcp batch", "log count", Idle, 0) /\ UNCHANGED mcpSource
       ELSE /\ Ask("mcp batch", "mcp batch", Idle, pass + 1)
            /\ \E rest \in SUBSET mcpSource : Full(mcpSource, rest) /\ mcpSource' = rest
    /\ UNCHANGED <<mcpTool, source, fields>> /\ KeepButTools

RenameLogSource ==
    /\ Query("log count", IF logSource = {} THEN "sources" ELSE "log add")
    /\ UNCHANGED graphVars

AddDomainSource ==
    /\ Query("log add", "log remove")
    /\ domainSource' = domainSource \cup logSource
    /\ UNCHANGED logSource /\ KeepButLogs

RemoveLogSource ==
    /\ Query("log remove", "log batch")
    /\ logSource' \in SUBSET logSource
    /\ UNCHANGED domainSource /\ KeepButLogs

BatchLogSource ==
    /\ IF logSource = {} \/ pass = MaxPass THEN Ask("log batch", "sources", Idle, 0) /\ UNCHANGED logSource
       ELSE /\ Ask("log batch", "log batch", Idle, pass + 1)
            /\ \E rest \in SUBSET logSource : Full(logSource, rest) /\ logSource' = rest
    /\ UNCHANGED domainSource /\ KeepButLogs

------------------------------------------------------------------------------
(* Steps 2 and 3: each DataSource becomes a DataStore, and a server if it is one *)

\* The rows of a query come in any order.
Rows(set) == SetToSeqs(set)
Start(k) == IF k \in Server THEN "server" ELSE "store"
KeepOld == UNCHANGED <<toolVars, logVars, refVars, seeded, collided>>

\* Where the loop goes with the rows that are left: nodes without a key are skipped.
Loop(rows) ==
    LET named == SelectSeq(rows, LAMBDA k : k # NoKey)
    IN  IF named = <<>> THEN <<"drop sources", <<>>>> ELSE <<Start(Head(named)), named>>

SplitDataSources ==
    /\ \E rows \in Rows(dataSource) :
          IF rows = <<>> THEN Ask("sources", "refs", Idle, 0)
          ELSE Ask("sources", Loop(rows)[1], Loop(rows)[2], 0)
    /\ UNCHANGED graphVars

CreateServer ==
    /\ Query("server", "store")
    /\ server' = server \cup {Row}
    /\ UNCHANGED <<sourceVars, store, provides, stored, via>> /\ KeepOld

CreateDataStore ==
    /\ Query("store", "via")
    /\ store' = store \cup {Row}
    /\ UNCHANGED <<sourceVars, server, provides, stored, via>> /\ KeepOld

DeriveServerKey(k) == IF k \in Area THEN ServerOf[k] ELSE k

\* No match, no edge.
WireStore ==
    /\ pc = "via"
    /\ IF Row \in Area THEN pc' = "stored" /\ UNCHANGED <<todo, pass, ontology, migrated, boots, faults>>
                      ELSE Query("via", "stored")
    /\ via' = via \cup ({Row} \X ({DeriveServerKey(Row)} \cap server))
    /\ UNCHANGED <<sourceVars, server, store, provides, stored>> /\ KeepOld

\* For an agent's DataSource a failure is only logged.
WireStoreFails ==
    /\ pc = "via" /\ Row \in Area /\ faults < MaxFault /\ faults' = faults + 1
    /\ pc' = "stored"
    /\ UNCHANGED <<graphVars, todo, pass, ontology, migrated, boots>>

\* Mutant: the old edges are deleted and not made again.
RewireStoredInDropped ==
    /\ Query("stored", "provides")
    /\ queried' = {e \in queried : ~(e[2] = Row /\ e[1] \in domainSource)}
    /\ UNCHANGED <<dataSource, fetchable, server, store, provides, stored, via>> /\ KeepOld

RewireStoredIn ==
    /\ Query("stored", "provides")
    /\ LET old == {e \in queried : e[2] = Row /\ e[1] \in domainSource}
       IN  stored' = stored \cup old /\ queried' = queried \ old
    /\ UNCHANGED <<dataSource, fetchable, server, store, provides, via>> /\ KeepOld

RewireProvides ==
    /\ LET next == Loop(Tail(todo)) IN Ask("provides", next[1], next[2], 0)
    /\ LET old == {e \in fetchable : e[1] = Row /\ Row \in server /\ e[2] \in mcpTool}
       IN  provides' = provides \cup old /\ fetchable' = fetchable \ old
    /\ UNCHANGED <<dataSource, queried, server, store, stored, via>> /\ KeepOld

\* Whatever is still there.
DropDataSources ==
    /\ Ask("drop sources", "refs", Idle, 0)
    /\ dataSource' = {} /\ queried' = {} /\ fetchable' = {}
    /\ UNCHANGED newVars /\ KeepOld

------------------------------------------------------------------------------
(* Step 4: ToolRefs *)

KeepButRefs == UNCHANGED <<toolVars, logVars, sourceVars, newVars, seeded, collided>>

CollapseToolRefs ==
    /\ Query("refs", IF toolRef = {} THEN "names" ELSE "rewire")
    /\ UNCHANGED graphVars

RewireUsesTool ==
    /\ Query("rewire", "broken")
    /\ LET found == {e \in refUsed : e[2] \in mcpTool}
       IN  used' = used \cup found /\ refUsed' = refUsed \ found
    /\ UNCHANGED toolRef /\ KeepButRefs

FindBroken ==
    /\ Query("broken", IF refUsed = {} THEN "drop refs" ELSE "unlink")
    /\ UNCHANGED graphVars

UnlinkBroken ==
    /\ Query("unlink", "drop refs")
    /\ refUsed' = {}
    /\ UNCHANGED <<toolRef, used>> /\ KeepButRefs

DropToolRefs ==
    /\ Query("drop refs", "names")
    /\ toolRef' = {} /\ refUsed' = {}
    /\ UNCHANGED used /\ KeepButRefs

------------------------------------------------------------------------------
(* Step 5: names.  Step 6: provenance *)

Hyphenated == {n \in mcpTool \cap OldName : source[n] \in {"null", "migration:v1"}}
NextName == IF Tail(todo) = <<>> THEN "backfill tools" ELSE "existing"
Dotted(n) == New(n[1])
Renamed(edges) == {IF e[2] = Row THEN <<e[1], Dotted(Row)>> ELSE e : e \in edges}
Without(edges, n) == {e \in edges : e[2] # n}

CleanupHyphenatedNames ==
    /\ \E rows \in Rows(Hyphenated) :
          Ask("names", IF rows = <<>> THEN "backfill tools" ELSE "existing", rows, 0)
    /\ UNCHANGED graphVars

FindExisting ==
    /\ Query("existing", IF Dotted(Row) \in mcpTool THEN "enriched" ELSE "rename")
    /\ UNCHANGED graphVars

FindEnriched ==
    /\ Query("enriched", IF Row \in fields THEN "enrich" ELSE "drop old")
    /\ UNCHANGED graphVars

MigrateEnrichments ==
    /\ Query("enrich", "drop old")
    /\ fields' = (fields \ {Row}) \cup {Dotted(Row)}
    /\ UNCHANGED <<mcpSource, mcpTool, source>> /\ KeepButTools

DropOldName ==
    /\ Ask("drop old", NextName, Tail(todo), 0)
    /\ mcpTool' = mcpTool \ {Row} /\ mcpSource' = mcpSource \ {Row} /\ fields' = fields \ {Row}
    /\ provides' = Without(provides, Row) /\ used' = Without(used, Row)
    /\ fetchable' = Without(fetchable, Row)
    /\ collided' = collided \cup {Row[1]}
    /\ UNCHANGED <<source, logVars, dataSource, queried, toolRef, refUsed,
                   server, store, stored, via, seeded>>

RenameInPlace ==
    /\ Ask("rename", NextName, Tail(todo), 0)
    /\ mcpTool' = (mcpTool \ {Row}) \cup {Dotted(Row)}
    /\ mcpSource' = IF Row \in mcpSource THEN (mcpSource \ {Row}) \cup {Dotted(Row)} ELSE mcpSource
    /\ source' = [source EXCEPT ![Dotted(Row)] = "migration:v1"]
    /\ fields' = IF Row \in fields THEN (fields \ {Row}) \cup {Dotted(Row)} ELSE fields
    /\ provides' = Renamed(provides) /\ used' = Renamed(used) /\ fetchable' = Renamed(fetchable)
    /\ UNCHANGED <<logVars, dataSource, queried, toolRef, refUsed,
                   server, store, stored, via, seeded, collided>>

BackfillTools ==
    /\ Query("backfill tools", "backfill servers")
    /\ Stamp(mcpTool, "manual:legacy")
    /\ UNCHANGED <<mcpSource, mcpTool, fields>> /\ KeepButTools

\* Every server was created with a _source.
BackfillServers ==
    /\ pc = "backfill servers" /\ pc' = "serving" /\ migrated' = TRUE
    /\ UNCHANGED <<graphVars, todo, pass, ontology, boots, faults>>

------------------------------------------------------------------------------
(* The reconciler: syncGraphNodes *)

SyncServer(s) ==
    /\ pc = "serving" /\ s \notin server
    /\ server' = server \cup {s}
    /\ UNCHANGED <<sourceVars, store, provides, stored, via>> /\ KeepOld
    /\ UNCHANGED <<pc, todo, pass, ontology, migrated, boots, faults>>

SyncTool(t) ==
    /\ pc = "serving" /\ ServerOf[t] \in server
    /\ New(t) \notin mcpTool \/ source[New(t)] # "reconciler:auto"
    /\ mcpTool' = mcpTool \cup {New(t)}
    /\ source' = [source EXCEPT ![New(t)] = "reconciler:auto"]
    /\ UNCHANGED <<mcpSource, fields>> /\ KeepButTools
    /\ UNCHANGED <<pc, todo, pass, ontology, migrated, boots, faults>>

SyncProvides(t) ==
    /\ pc = "serving" /\ New(t) \in mcpTool /\ ServerOf[t] \in server
    /\ <<ServerOf[t], New(t)>> \notin provides
    /\ provides' = provides \cup {<<ServerOf[t], New(t)>>}
    /\ UNCHANGED <<sourceVars, server, store, stored, via>> /\ KeepOld
    /\ UNCHANGED <<pc, todo, pass, ontology, migrated, boots, faults>>

------------------------------------------------------------------------------
Migrate ==
    \/ RenameMCPSource \/ AddMCPTool \/ RemoveMCPSource \/ BatchMCPSource
    \/ RenameLogSource \/ AddDomainSource \/ RemoveLogSource \/ BatchLogSource
    \/ SplitDataSources \/ CreateServer \/ CreateDataStore \/ WireStore \/ WireStoreFails
    \/ RewireStoredIn \/ RewireProvides \/ DropDataSources
    \/ CollapseToolRefs \/ RewireUsesTool \/ FindBroken \/ UnlinkBroken \/ DropToolRefs
    \/ CleanupHyphenatedNames \/ FindExisting \/ FindEnriched \/ MigrateEnrichments
    \/ DropOldName \/ RenameInPlace
    \/ BackfillTools \/ BackfillServers

MigrationNext ==
    \/ Boot \/ ApplySchemaToGraph \/ Exit \/ QueryFails \/ Migrate
    \/ \E s \in Server : SyncServer(s)
    \/ \E t \in Tool : SyncTool(t) \/ SyncProvides(t)

MigrationSpec == MigrationInit /\ [][MigrationNext]_migrationVars

------------------------------------------------------------------------------
(* Properties *)

\* What agents taught the graph outlives the migration, wherever queries fail
\* and the gateway ends, and whatever the reconciler creates in between: the
\* fields of a tool stay with one of its nodes; the place where a log is kept
\* stays known for every DataSource with a key; a server goes on providing its
\* tools, and a strategy using a tool of the old name, unless the old node was
\* deleted beside a new one (migrate.go:358 moves only fields), and then the
\* server itself is there for the reconciler to link again.
KnowledgeKept ==
    /\ \A t \in Tool : \E n \in {Old(t), New(t)} : n \in fields \cap (mcpSource \cup mcpTool)
    /\ \A l \in Log, k \in Server \cup Area :
          (<<l, k>> \in queried /\ k \in dataSource) \/ (<<l, k>> \in stored /\ k \in store)
    /\ \A t \in Tool :
          LET s == ServerOf[t] IN
          \/ s \in dataSource /\ <<s, Old(t)>> \in fetchable
          \/ s \in server /\ \E n \in {Old(t), New(t)} : <<s, n>> \in provides
          \/ s \in server /\ t \in collided
    /\ \A x \in Strategy, t \in Tool :
          \/ <<x, Old(t)>> \in refUsed
          \/ <<x, Old(t)>> \in used \/ <<x, New(t)>> \in used
          \/ t \in collided

Sets == ontology.sets
Labels(set) == {f.label : f \in ToSet(set.nodes) \cup ToSet(set.particulars)}

\* A gateway that serves works with a schema every set of which is sound, whose
\* sets define no label twice and whose edges end in labels some set defines,
\* in whatever order they are configured (a single set given
\* as a URI is not cross-validated, serve.go:848); and when its migration reported
\* success nothing of the old ontology is left but what agents named, every
\* server has its store, and every tool node a provenance.
ServedGraph ==
    pc = "serving" =>
        /\ \A i, j \in DOMAIN Sets : i # j => Labels(Sets[i]) \cap Labels(Sets[j]) = {}
        /\ ontology.how # "uri" => \A i \in DOMAIN Sets : \A e \in ToSet(Sets[i].edges) :
              e.from \cup e.to \subseteq UNION {Labels(Sets[j]) : j \in DOMAIN Sets}
        /\ \A i \in DOMAIN Sets : ToSet(Sets[i].semantics) \subseteq seeded
        /\ migrated =>
              /\ mcpSource \cup logSource \cup dataSource \cup toolRef = {}
              /\ queried \cup fetchable \cup refUsed = {}
              /\ Hyphenated = {}
              /\ \A s \in Server : <<s, s>> \in via
              /\ \A n \in mcpTool : source[n] # "null"

\* A migration that runs again and again, beside a gateway that writes, loses no
\* knowledge and hands a sound graph to the gateway (Migrate).
MigrationSound == KnowledgeKept /\ ServedGraph
=============================================================================
