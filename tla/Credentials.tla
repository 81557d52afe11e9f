---------------------------- MODULE Credentials ----------------------------
(***************************************************************************)
(* How the credentials of a queued agent cross from the client to the      *)
(* worker (internal/auth/credentials, internal/cpapi).  The client plans   *)
(* and prepares the sources of the profile at the host's edge, stages each *)
(* result with the control plane and submits references with the mission.  *)
(* The worker fetches them, puts them into its own plan, made in the       *)
(* cluster, and launches the agent with the outcome.  Staged results       *)
(* expire, and a restart of the control plane forgets them; answers are    *)
(* lost; clients and workers end anywhere and missions are claimed again.  *)
(***************************************************************************)
EXTENDS Naturals, Sequences, FiniteSets

CONSTANTS
    Request,        \* requests of clients
    Origin,        \* names of sources
    Profiles,      \* credential profiles, see CredentialProfile
    EnvName,       \* names of environment variables
    HostEnv,       \* the ones the runtime's configuration sets; the client passes none
    MaxAttempt, MaxMishap    \* bounds: claims of a mission; lost answers, restarts and ends

\* The empty name is no source's: a binding names none with it.
ASSUME CredentialAssumption ==
    MaxAttempt \in Nat /\ MaxMishap \in Nat /\ HostEnv \subseteq EnvName /\ "" \notin Origin

CredentialSource == [type : {"command_output", "secret_env", "http_header_token"},
                     scope : {"any", "host_edge", "agent_runtime"},
                     delivery : {"file_mount", "staged_secret", "env"},
                     path : {"", "token", "key"}, required : BOOLEAN]
CredentialBinding == [type : {"claude_api_key_helper", "bearer_env", "token_file"},
                      origin : Origin \cup {""}, resolver : BOOLEAN, env : EnvName \cup {""}]

\* order is the resolver's; env are the variables the profile sets.
IsProfile(p) ==
    /\ DOMAIN p.origins \subseteq Origin /\ \A s \in DOMAIN p.origins : p.origins[s] \in CredentialSource
    /\ p.binding \in CredentialBinding /\ p.order \in Seq(Origin)
    /\ p.requireSource \subseteq Origin /\ p.env \cup p.requireEnv \cup p.forbidEnv \subseteq EnvName
ASSUME ProfileAssumption == \A p \in Profiles : IsProfile(p)

VARIABLES
    spawning,     \* of each request, the request, its mission and its worker
    staged,       \* the stager: source name and data, by reference
    hasStager,    \* the workers know the control plane
    mishaps

credVars == <<spawning, staged, hasStager, mishaps>>

\* What a source yields says where it was made and for which request.
NoData == <<>>
Made(r, where) == <<r, where>>
NoneMade == [s \in Origin |-> NoData]

(***************************************************************************)
(* The plan and its execution.                                             *)
(***************************************************************************)

\* annotatePhase
Phase(scope, topology) ==
    CASE scope = "any" -> "prepare_now"
      [] scope = "host_edge" -> IF topology = "host_edge" THEN "prepare_now" ELSE "unavailable"
      [] scope = "agent_runtime" -> "runtime_only"

\* BuildCredentialPlan keeps every source, whatever its phase.
BuildCredentialPlan(p, topology, hostEnv) ==
    [profile |-> p, data |-> NoneMade, env |-> p.env \cup hostEnv,
     phase |-> [s \in DOMAIN p.origins |-> Phase(p.origins[s].scope, topology)]]

Sources(plan) == DOMAIN plan.profile.origins
ToPrepare(plan) == {s \in Sources(plan) : plan.phase[s] = "prepare_now" /\ plan.data[s] = NoData}

\* prepareSource: commands that are in ok succeed; a secret_env yields nothing.
PrepareFails(plan, s, ok) ==
    CASE plan.profile.origins[s].type = "command_output" -> s \notin ok
      [] plan.profile.origins[s].type = "secret_env" -> FALSE
      [] OTHER -> TRUE

RequiredFails(plan, ok) ==
    \E s \in ToPrepare(plan) : plan.profile.origins[s].required /\ PrepareFails(plan, s, ok)

Prepared(plan, ok, token) ==
    [plan EXCEPT !.data = [s \in Origin |->
        IF s \in ToPrepare(plan) /\ s \in ok /\ plan.profile.origins[s].type = "command_output"
        THEN token ELSE plan.data[s]]]

\* ValidateAssertions sees the variables of the profile and of the host.
AssertionsHold(plan) ==
    /\ plan.profile.requireEnv \subseteq plan.env
    /\ plan.profile.forbidEnv \cap plan.env = {}
    /\ \A s \in plan.profile.requireSource : s \in Sources(plan) /\ plan.phase[s] # "unavailable"

Materialized(plan) == {s \in Sources(plan) : plan.data[s] # NoData}

\* pickResolverToken: one result, or the first in the order of the resolver.
PickResolverToken(plan) ==
    LET have == Materialized(plan)
        ranks == {i \in DOMAIN plan.profile.order : plan.profile.order[i] \in have}
    IN IF have = {} THEN NoData
       ELSE IF Cardinality(have) = 1 THEN plan.data[CHOOSE s \in have : TRUE]
       ELSE IF ranks = {} THEN NoData
       ELSE plan.data[plan.profile.order[CHOOSE i \in ranks : \A j \in ranks : i <= j]]

BearerToken(plan) ==
    LET b == plan.profile.binding IN
    IF b.type # "bearer_env" \/ b.env = "" THEN NoData
    ELSE IF b.origin # "" THEN IF b.origin \in Sources(plan) THEN plan.data[b.origin] ELSE NoData
    ELSE IF b.resolver THEN PickResolverToken(plan) ELSE NoData

\* The files of the secret, keyed by the base of the path; of two sources
\* with one path either may win, but the one the binding names wins.
Winner(plan, f, path) ==
    LET b == plan.profile.binding
        those == {s \in Materialized(plan) : plan.profile.origins[s].path = path}
    IN IF b.type = "token_file" /\ b.origin \in those THEN f[path] = b.origin
       ELSE IF those = {} THEN f[path] = "" ELSE f[path] \in those
SecretData(plan) == {f \in [{"token", "key"} -> Origin \cup {""}] : \A path \in {"token", "key"} : Winner(plan, f, path)}

\* The other half of ExecuteCredentialPlan: what the agent is given.
Output(plan, f) == [data |-> plan.data, token |-> BearerToken(plan), files |-> f]
NoOutput == [data |-> NoneMade, token |-> NoData, files |-> [path \in {"token", "key"} |-> ""]]

(***************************************************************************)
(* State.                                                                  *)
(***************************************************************************)

NotAsked == [at |-> "idle", plan |-> <<>>, todo |-> {}, refs |-> {}, unstaged |-> {},
             out |-> NoOutput, attempt |-> 0]

CredInit ==
    /\ spawning = [r \in Request |-> NotAsked] /\ staged = <<>>
    /\ hasStager \in BOOLEAN /\ mishaps = 0

CredTypeOK ==
    /\ \A r \in Request :
         /\ spawning[r].at \in {"idle", "stage", "submit", "queued", "fetch", "execute",
                                "launched", "failed", "rejected", "direct"}
         /\ spawning[r].refs \subseteq Origin /\ spawning[r].attempt \in 0..MaxAttempt
    /\ DOMAIN staged \subseteq Request \X Origin

Put(r, rec) == spawning' = [spawning EXCEPT ![r] = rec]
Is(r, at) == spawning[r].at = at
Mishap == mishaps < MaxMishap /\ mishaps' = mishaps + 1
Stored(f, k, v) == [x \in DOMAIN f \cup {k} |-> IF x = k THEN v ELSE f[x]]
Forget(f, k) == [x \in DOMAIN f \ {k} |-> f[x]]
SameStager == UNCHANGED <<staged, hasStager>>

(***************************************************************************)
(* The client: StagingSpawnClient.Spawn.                                   *)
(***************************************************************************)

\* Results that have to cross need a queued batch mission.
ClientSpawn(r, p, mode, dispatch, ok) ==
    /\ Is(r, "idle")
    /\ LET plan == BuildCredentialPlan(p, "host_edge", {})
           done == Prepared(plan, ok, Made(r, "client"))
       IN Put(r, IF RequiredFails(plan, ok) \/ ~AssertionsHold(done)
                 THEN [NotAsked EXCEPT !.at = "rejected"]
                 ELSE IF Materialized(done) = {}
                 THEN [NotAsked EXCEPT !.at = IF dispatch = "queued" THEN "submit" ELSE "direct", !.plan = done]
                 ELSE IF mode = "stream" \/ dispatch # "queued"
                 THEN [NotAsked EXCEPT !.at = "rejected"]
                 ELSE [NotAsked EXCEPT !.at = "stage", !.plan = done, !.todo = Materialized(done)])
    /\ SameStager /\ UNCHANGED mishaps

\* POST /api/v1/credentials/stage and its handler.
Stage(r, s) ==
    /\ Is(r, "stage") /\ s \in spawning[r].todo
    /\ staged' = Stored(staged, <<r, s>>, [source |-> s, data |-> spawning[r].plan.data[s]])
    /\ Put(r, [spawning[r] EXCEPT !.todo = @ \ {s}, !.refs = @ \cup {s}])
    /\ UNCHANGED <<hasStager, mishaps>>

\* A failure is logged and the source goes without a reference; the answer
\* may have been lost after the result was stored.
StageFails(r, s) ==
    /\ Is(r, "stage") /\ s \in spawning[r].todo /\ Mishap
    /\ staged' \in {staged, Stored(staged, <<r, s>>, [source |-> s, data |-> spawning[r].plan.data[s]])}
    /\ Put(r, [spawning[r] EXCEPT !.todo = @ \ {s}, !.unstaged = @ \cup {s}])
    /\ UNCHANGED hasStager

Staged(r) ==
    /\ Is(r, "stage") /\ spawning[r].todo = {}
    /\ Put(r, [spawning[r] EXCEPT !.at = "submit"]) /\ SameStager /\ UNCHANGED mishaps

Submit(r) ==
    /\ Is(r, "submit") /\ Put(r, [spawning[r] EXCEPT !.at = "queued"]) /\ SameStager /\ UNCHANGED mishaps

ClientEnds(r) ==
    /\ spawning[r].at \in {"stage", "submit"} /\ Mishap
    /\ Put(r, [spawning[r] EXCEPT !.at = "rejected"]) /\ SameStager

(***************************************************************************)
(* The worker.                                                             *)
(***************************************************************************)

Claim(r) ==
    /\ Is(r, "queued") /\ spawning[r].attempt < MaxAttempt
    /\ LET plan == BuildCredentialPlan(spawning[r].plan.profile, "in_cluster", HostEnv) IN
       Put(r, [spawning[r] EXCEPT !.attempt = @ + 1, !.plan = plan, !.todo = @ \cup spawning[r].refs,
                                  !.at = IF spawning[r].refs # {} /\ ~hasStager THEN "failed" ELSE "fetch"])
    /\ SameStager /\ UNCHANGED mishaps

Rehydratable(plan, s) ==
    /\ s \in Sources(plan) /\ plan.profile.origins[s].type = "command_output"
    /\ plan.profile.origins[s].delivery \in {"file_mount", "staged_secret"}
    /\ plan.phase[s] \in {"unavailable", "prepare_now"}

RehydrateSource(plan, s, data) ==
    [plan EXCEPT !.phase = [@ EXCEPT ![s] = "prepare_now"], !.data = [@ EXCEPT ![s] = data]]

FetchSkipsMissing(r, s) ==
    /\ Is(r, "fetch") /\ s \in spawning[r].todo
    /\ Put(r, IF <<r, s>> \in DOMAIN staged /\ Rehydratable(spawning[r].plan, s)
              THEN [spawning[r] EXCEPT !.todo = @ \ {s},
                                       !.plan = RehydrateSource(@, s, staged[<<r, s>>].data)]
              ELSE [spawning[r] EXCEPT !.todo = @ \ {s}])
    /\ SameStager /\ UNCHANGED mishaps

\* Fetch and RehydrateSource: a reference that is gone, or a source that
\* cannot take it, fails the mission.
Fetch(r, s) ==
    /\ Is(r, "fetch") /\ s \in spawning[r].todo
    /\ Put(r, IF <<r, s>> \in DOMAIN staged /\ Rehydratable(spawning[r].plan, s)
              THEN [spawning[r] EXCEPT !.todo = @ \ {s},
                                       !.plan = RehydrateSource(@, s, staged[<<r, s>>].data)]
              ELSE [spawning[r] EXCEPT !.at = "failed"])
    /\ SameStager /\ UNCHANGED mishaps

\* No answer from the control plane.
FetchUnanswered(r) ==
    /\ Is(r, "fetch") /\ spawning[r].todo # {} /\ Mishap
    /\ Put(r, [spawning[r] EXCEPT !.at = "failed"]) /\ SameStager

Rehydrated(r) ==
    /\ Is(r, "fetch") /\ spawning[r].todo = {}
    /\ Put(r, [spawning[r] EXCEPT !.at = "execute"]) /\ SameStager /\ UNCHANGED mishaps

ExecuteCredentialPlan(r, ok) ==
    /\ Is(r, "execute")
    /\ LET plan == spawning[r].plan
           done == Prepared(plan, ok, Made(r, "worker"))
       IN IF RequiredFails(plan, ok) \/ ~AssertionsHold(done)
          THEN Put(r, [spawning[r] EXCEPT !.at = "failed"])
          ELSE \E f \in SecretData(done) :
                 Put(r, [spawning[r] EXCEPT !.at = "launched", !.out = Output(done, f)])
    /\ SameStager /\ UNCHANGED mishaps

\* The lease of a worker that ended runs out and the mission is claimed again.
WorkerEnds(r) ==
    /\ spawning[r].at \in {"fetch", "execute"} /\ Mishap
    /\ Put(r, [spawning[r] EXCEPT !.at = "queued", !.todo = {}]) /\ SameStager

(***************************************************************************)
(* The stager of the control plane.                                        *)
(***************************************************************************)

\* The time to live is over: the next Fetch deletes the entry.
Expire(k) == k \in DOMAIN staged /\ staged' = Forget(staged, k) /\ UNCHANGED <<spawning, hasStager, mishaps>>

StagerRestarts == staged # <<>> /\ Mishap /\ staged' = <<>> /\ UNCHANGED <<spawning, hasStager>>

CredNext ==
    \/ \E r \in Request :
         \/ \E p \in Profiles, mode \in {"batch", "stream"}, dispatch \in {"queued", "direct"}, ok \in SUBSET Origin :
              ClientSpawn(r, p, mode, dispatch, ok)
         \/ \E s \in Origin : Stage(r, s) \/ StageFails(r, s) \/ Fetch(r, s)
         \/ Staged(r) \/ Submit(r) \/ ClientEnds(r)
         \/ Claim(r) \/ FetchUnanswered(r) \/ Rehydrated(r) \/ WorkerEnds(r)
         \/ \E ok \in SUBSET Origin : ExecuteCredentialPlan(r, ok)
    \/ \E k \in DOMAIN staged : Expire(k)
    \/ StagerRestarts

CredSpec == CredInit /\ [][CredNext]_credVars

\* An agent that is launched has every credential the client staged for it
\* (Spawn, Fetch and RehydrateSource), as the client of its own request made
\* it, whatever was lost, expired or tried again in between: otherwise its
\* mission fails.  What its binding delivers, as a variable or as a file, is a
\* result of its own request, and a required source that both sides can run is
\* never missing.  Only a source whose staging failed is made by the worker, or
\* is missing when it belongs to the host's edge.
CredentialsArrive == \A r \in Request : spawning[r].at = "launched" =>
    LET out == spawning[r].out
        p == spawning[r].plan.profile
    IN /\ \A s \in spawning[r].refs : out.data[s] = Made(r, "client")
       /\ \A s \in DOMAIN p.origins :
            /\ out.data[s] \in {NoData, Made(r, "client"), Made(r, "worker")}
            /\ p.origins[s].type = "command_output" /\ p.origins[s].required /\ out.data[s] = NoData =>
                 \/ p.origins[s].scope = "agent_runtime"
                 \/ p.origins[s].scope = "host_edge" /\ s \in spawning[r].unstaged
       /\ p.binding.type = "bearer_env" /\ p.binding.env # "" /\ p.binding.origin \in spawning[r].refs =>
            out.token = Made(r, "client")
       /\ p.binding.type = "token_file" /\ p.binding.origin \in spawning[r].refs
            /\ p.origins[p.binding.origin].path # "" => out.files[p.origins[p.binding.origin].path] = p.binding.origin
=============================================================================
