----------------------------- MODULE MCProject -----------------------------
(***************************************************************************)
(* Eight parts that share no state: a behaviour is one of the migration, of  *)
(* the commands that edit a project, of the fetches of its catalog, of the *)
(* credentials of queued agents, of the OAuth tokens of a server, of the   *)
(* fetch of a table, of the mission queue kept in memory or of the SQLite  *)
(* database that several processes open.                                   *)
(***************************************************************************)
EXTENDS GraphMigration, ProjectFiles, CatalogFetch, Credentials, OAuthLogin, PagedFetch, MemoryQueue,
        SqliteStore

(* The tools of a server and the ontologies of the migration. *)
CONSTANTS srv, area, tool1, tool2
MCServerOf == [x \in {area, tool1, tool2} |-> srv]

Node(l) == [label |-> l, layer |-> "universal"]
Particular(l) == [label |-> l, layer |-> "particular"]
Edge(n, f, t) == [type |-> n, from |-> {f}, to |-> {t}]

\* core stands alone, ext has edges into core, dup repeats a label of core.
core == [version |-> 2, semantics |-> <<"ip", "host">>, nodes |-> <<Node("Tool")>>,
         particulars |-> <<Particular("Alert")>>, edges |-> <<Edge("SEEN", "Alert", "Tool")>>,
         authority |-> {<<"inventory", "Tool">>, <<"discovered", "Alert">>}]
ext == [version |-> 1, semantics |-> <<"ip">>, nodes |-> <<Node("Log")>>, particulars |-> <<>>,
        edges |-> <<Edge("IN", "Log", "Tool")>>, authority |-> {<<"scaffold", "Log">>}]
dup == [ext EXCEPT !.nodes = <<Node("Alert")>>, !.edges = <<>>]
twice == [ext EXCEPT !.authority = {<<"scaffold", "Log">>, <<"computed", "Log">>}]

Given(how, sets) == [how |-> how, sets |-> sets]
MCOntologies == {Given("list", <<ext, core>>), Given("list", <<ext>>), Given("list", <<core, dup>>),
                 Given("list", <<core, twice>>), Given("uri", <<ext>>), Given("dir", <<ext>>)}

(* The credential profiles of queued agents. *)
From(type, scope, delivery, path, required) ==
    [type |-> type, scope |-> scope, delivery |-> delivery, path |-> path, required |-> required]
Bound(type, origin, resolver, env) == [type |-> type, origin |-> origin, resolver |-> resolver, env |-> env]

edge == From("command_output", "host_edge", "staged_secret", "token", TRUE)
both == From("command_output", "any", "file_mount", "token", TRUE)
plain == From("command_output", "host_edge", "env", "", FALSE)
secret == From("secret_env", "any", "env", "", TRUE)
header == From("http_header_token", "agent_runtime", "env", "", TRUE)

Bare(origins, binding) ==
    [origins |-> origins, binding |-> binding, order |-> <<>>, env |-> {},
     requireSource |-> {}, requireEnv |-> {}, forbidEnv |-> {}]

MCProfiles ==
    {Bare([s \in {"o1", "o2"} |-> IF s = "o1" THEN edge ELSE both], Bound("token_file", "o1", FALSE, "")),
     [Bare([s \in {"o1", "o2"} |-> IF s = "o1" THEN edge ELSE both], Bound("bearer_env", "", TRUE, "TOKEN"))
        EXCEPT !.order = <<"o2", "o1">>],
     Bare([s \in {"o1", "o2"} |-> IF s = "o1" THEN both ELSE header], Bound("bearer_env", "o1", FALSE, "TOKEN")),
     Bare([s \in {"o1", "o2"} |-> IF s = "o1" THEN edge ELSE plain], Bound("bearer_env", "o2", FALSE, "TOKEN")),
     [Bare([s \in {"o1"} |-> edge], Bound("bearer_env", "o1", FALSE, "TOKEN")) EXCEPT !.requireSource = {"o1"}],
     [Bare([s \in {"o1"} |-> secret], Bound("claude_api_key_helper", "", TRUE, "")) EXCEPT !.forbidEnv = {"KEY"}]}

(* The settings of an OAuth server. *)
Setting(known, local, pkce) ==
    [client |-> known, file |-> local, pkce |-> pkce, large |-> FALSE, seeded |-> FALSE,
     s256 |-> "silent", grant |-> "code"]
MCSettings ==
    {Setting(FALSE, FALSE, TRUE), Setting(TRUE, FALSE, FALSE),
     [Setting(FALSE, TRUE, TRUE) EXCEPT !.s256 = "no"], [Setting(TRUE, FALSE, TRUE) EXCEPT !.large = TRUE, !.seeded = TRUE],
     [Setting(TRUE, FALSE, TRUE) EXCEPT !.grant = "client_credentials", !.s256 = "yes"]}

(* The jobs of a paged fetch. *)
Plain == [mode |-> "offset", format |-> "json", shape |-> "array", path |-> FALSE, single |-> FALSE,
          named |-> TRUE, limited |-> TRUE, next |-> TRUE, size |-> 2, cap |-> 5, most |-> 3, first |-> 1, last |-> 5]
Envelope == [Plain EXCEPT !.shape = "object", !.path = TRUE]
MCJobs ==
    {[Plain EXCEPT !.cap = c, !.last = n] : c \in {3, 4, 7}, n \in {0, 3, 4}}
    \cup {[Envelope EXCEPT !.mode = "cursor", !.cap = c, !.last = n] : c \in {3, 7}, n \in {3, 4}}
    \cup {[Plain EXCEPT !.format = "csv", !.most = 1], [Plain EXCEPT !.named = FALSE], [Plain EXCEPT !.limited = FALSE],
          [Plain EXCEPT !.mode = "cursor"], [Plain EXCEPT !.mode = "cursor", !.format = "csv"],
          [Envelope EXCEPT !.mode = "cursor", !.next = FALSE], [Envelope EXCEPT !.path = FALSE, !.single = TRUE],
          [Envelope EXCEPT !.mode = "once", !.path = FALSE, !.single = TRUE],
          [Plain EXCEPT !.mode = "once", !.most = 9], [Plain EXCEPT !.mode = "once", !.shape = "scalar"]}

(* The files of the project and its catalog. *)
MCOffers == [x \in Source |-> IF x = DefaultSource THEN {"a", "b"} ELSE {"b", "c"}]
MCFilters == {Entry, {"a", "c"}}

(* The agents that a database holds when it is first opened. *)
MCStored == \A t \in AgentName : owed[t].status \in {"none", "Queued"} /\ (t # "t1" => owed[t] = NoAgent)

VARIABLE part

MCInit ==
    /\ part \in {"migration", "project", "fetch", "credentials", "oauth", "table", "queue", "store"}
    /\ MigrationInit
    /\ part # "migration" =>
         ontology = Given("uri", <<ext>>) /\ mcpSource = OldName /\ source = [n \in Name |-> "null"]
    /\ ProjectInit /\ (part # "project" => file = [p \in Path |-> Absent])
    /\ FetchInit /\ (part # "fetch" => live = Empty /\ memo = Nobody)
    /\ CredInit /\ (part # "credentials" => hasStager)
    /\ OAuthInit /\ (part # "oauth" => setting = Setting(TRUE, FALSE, FALSE))
    /\ PagedInit /\ (part # "table" => job = [Plain EXCEPT !.mode = "once", !.most = 9])
    /\ MemoryInit
    /\ SqliteInit /\ MCStored
    /\ part # "store" => db.agents.columns = {}

MCVars == <<part, migrationVars, projectVars, fetchVars, credVars, oauthVars, pagedVars, memoryVars, sqliteVars>>

MCNext ==
    \/ part = "migration" /\ MigrationNext /\ UNCHANGED <<part, projectVars, fetchVars, credVars, oauthVars, pagedVars, memoryVars, sqliteVars>>
    \/ part = "project" /\ ProjectNext /\ UNCHANGED <<part, migrationVars, fetchVars, credVars, oauthVars, pagedVars, memoryVars, sqliteVars>>
    \/ part = "fetch" /\ FetchNext /\ UNCHANGED <<part, migrationVars, projectVars, credVars, oauthVars, pagedVars, memoryVars, sqliteVars>>
    \/ part = "credentials" /\ CredNext /\ UNCHANGED <<part, migrationVars, projectVars, fetchVars, oauthVars, pagedVars, memoryVars, sqliteVars>>
    \/ part = "oauth" /\ OAuthNext /\ UNCHANGED <<part, migrationVars, projectVars, fetchVars, credVars, pagedVars, memoryVars, sqliteVars>>
    \/ part = "table" /\ PagedNext /\ UNCHANGED <<part, migrationVars, projectVars, fetchVars, credVars, oauthVars, memoryVars, sqliteVars>>
    \/ part = "queue" /\ MemoryNext /\ UNCHANGED <<part, migrationVars, projectVars, fetchVars, credVars, oauthVars, pagedVars, sqliteVars>>
    \/ part = "store" /\ SqliteNext /\ UNCHANGED <<part, migrationVars, projectVars, fetchVars, credVars, oauthVars, pagedVars, memoryVars>>

MCSpec == MCInit /\ [][MCNext]_MCVars
=============================================================================
