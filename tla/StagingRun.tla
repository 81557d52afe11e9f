----------------------------- MODULE StagingRun -----------------------------
(***************************************************************************)
(* One staging run of a strategy: the tables its contract requires are     *)
(* fetched by background goroutines or staged by the agent, and when all   *)
(* are there one caller may execute the strategy.  The run lives in the    *)
(* database and is recovered after a restart of the gateway.               *)
(*                                                                         *)
(* A step is one statement of the run store.  Every goroutine that ends a  *)
(* table looks at the run afterwards (checkAndTransitionRunToStaged): it   *)
(* reads the run, then the tables, then writes the status it derived.      *)
(***************************************************************************)
EXTENDS Naturals, FiniteSets

CONSTANTS
  Background,   \* tables fetched by goroutines
  AgentTable,   \* tables the agent fetches and stages
  Required,     \* tables that are not optional
  Caller,       \* concurrent strategy_run calls with the run's id
  Stager,       \* concurrent strategy_stage calls
  Recovery,     \* the recovery pass at startup
  MaxRetries,   \* bgMaxRetries, recoveryMaxRetries
  MaxCrashes,   \* bound: restarts of the gateway
  MaxExecutions \* bound: executions counted

Table   == Background \union AgentTable
Checker == Background \union Stager \union {Recovery}

ASSUME StagingAssumption ==
  /\ Background \intersect AgentTable = {}
  /\ Required \subseteq Table
  /\ Table \intersect (Stager \union {Recovery}) = {}
  /\ Recovery \notin Stager
  /\ MaxRetries \in Nat /\ MaxCrashes \in Nat /\ MaxExecutions \in Nat

VARIABLES
  run,          \* status of the run's row
  table,        \* rows of staging_run_tables
  disk,         \* tables whose Parquet files exist
  launch,       \* tables startBackgroundStaging has yet to launch
  fetch,        \* the goroutine of each background table
  check,        \* checkAndTransitionRunToStaged calls in progress
  stage,        \* the table each strategy_stage call writes
  caller,       \* strategy_run calls: program counter and manifest
  gateway,      \* the process: serving, down or recovering
  executions,   \* how often the strategy was started
  crashes

vars == <<run, table, disk, launch, fetch, check, stage, caller, gateway,
          executions, crashes>>

(***************************************************************************)
(* Rows and locals                                                         *)
(***************************************************************************)
Terminal  == {"complete", "failed"}
RunStatus == {"staging", "pending", "staged", "executing"} \union Terminal

InProgress  == {"pending", "fetching"}
TableStatus == InProgress \union {"staged", "failed", "awaiting_agent"}

\* fetch_plan_json is NULL or not.
TableRow == [status : TableStatus, plan : BOOLEAN]

Row(status, plan) == [status |-> status, plan |-> plan]

FetchState == [pc : {"off", "fetch", "failRun"}, retries : 0..MaxRetries,
               resumed : BOOLEAN]

NoFetch == [pc |-> "off", retries |-> 0, resumed |-> FALSE]

CheckState == [pc   : {"off", "run", "tables", "write"},
               seen : RunStatus \union {"none"},
               next : RunStatus \union {"none"}]

NoCheck   == [pc |-> "off", seen |-> "none", next |-> "none"]
NewCheck  == [NoCheck EXCEPT !.pc = "run"]

CallerState == [pc : {"idle", "manifest", "cas", "exec"}, manifest : SUBSET Table]

IdleCaller == [pc |-> "idle", manifest |-> {}]

NoTable == "none"

Gateway == [phase      : {"serving", "down", "recover", "finish"},
            todo       : SUBSET Background,
            fetcher    : BOOLEAN,
            relaunched : BOOLEAN]

Serving == [phase |-> "serving", todo |-> {}, fetcher |-> TRUE, relaunched |-> FALSE]

TypeOK ==
  /\ run     \in RunStatus \union {"none", "gone"}
  /\ table   \in [Table -> TableRow]
  /\ disk    \subseteq Table
  /\ launch  \subseteq Background
  /\ fetch   \in [Background -> FetchState]
  /\ check   \in [Checker -> CheckState]
  /\ stage   \in [Stager -> AgentTable \union {NoTable}]
  /\ caller  \in [Caller -> CallerState]
  /\ gateway \in Gateway
  /\ executions \in 0..MaxExecutions
  /\ crashes \in 0..MaxCrashes

\* No run yet.  The tables are as buildInitialTableStates will make them.
Init ==
  /\ run     = "none"
  /\ table   = [t \in Table |-> IF t \in Background THEN Row("pending", FALSE)
                                                    ELSE Row("awaiting_agent", FALSE)]
  /\ disk    = {}
  /\ launch  = {}
  /\ fetch   = [t \in Background |-> NoFetch]
  /\ check   = [k \in Checker |-> NoCheck]
  /\ stage   = [s \in Stager |-> NoTable]
  /\ caller  = [c \in Caller |-> IdleCaller]
  /\ gateway = Serving
  /\ executions = 0
  /\ crashes = 0

Exists == run \notin {"none", "gone"}

Up == gateway.phase = "serving"

(***************************************************************************)
(* The run store.  UPDATE touches no row when the run is gone.             *)
(***************************************************************************)
WriteStatus(s) == run' = IF Exists THEN s ELSE run

WriteTable(t, row) == table' = [table EXCEPT ![t] = IF Exists THEN row ELSE @]

With(s) == {t \in Table : table[t].status = s}

\* Mutant: a failed table counts as done whether it is required or not.
DeriveFailureIgnored ==
  IF With("pending") \union With("fetching") # {} THEN "none"
  ELSE IF With("awaiting_agent") # {} THEN "pending"
  ELSE "staged"

\* DeriveRunStatus; "none" stands for no transition.
DeriveRunStatus ==
  IF With("failed") \intersect Required # {} THEN "failed"
  ELSE IF With("pending") \union With("fetching") # {} THEN "none"
  ELSE IF With("awaiting_agent") # {} THEN "pending"
  ELSE "staged"

(***************************************************************************)
(* strategy_run without a session: create the run, launch the goroutines   *)
(***************************************************************************)
CreateRun ==
  /\ Up
  /\ run = "none"
  /\ run' = IF Background # {} THEN "staging" ELSE "pending"
  /\ launch' = Background
  /\ UNCHANGED <<table, disk, fetch, check, stage, caller, gateway, executions, crashes>>

\* startBackgroundStaging, one table: the row with its plan, then go stageTable.
Launch(t) ==
  /\ t \in launch
  /\ WriteTable(t, Row("fetching", TRUE))
  /\ fetch' = [fetch EXCEPT ![t] = [NoFetch EXCEPT !.pc = "fetch"]]
  /\ launch' = launch \ {t}
  /\ UNCHANGED <<run, disk, check, stage, caller, gateway, executions, crashes>>

(***************************************************************************)
(* stageTable and recoverTable                                             *)
(***************************************************************************)
Fetching(t) == fetch[t].pc = "fetch"

\* The Parquet file is written and the row says staged; the run is looked at.
FetchOk(t) ==
  /\ Fetching(t)
  /\ disk' = disk \union {t}
  /\ WriteTable(t, Row("staged", FALSE))
  /\ fetch' = [fetch EXCEPT ![t] = NoFetch]
  /\ check' = [check EXCEPT ![t] = NewCheck]
  /\ UNCHANGED <<run, launch, stage, caller, gateway, executions, crashes>>

\* A failed attempt is recorded in a new TableState, which has no plan.
FetchRetry(t) ==
  /\ Fetching(t)
  /\ fetch[t].retries < MaxRetries
  /\ WriteTable(t, Row("fetching", FALSE))
  /\ fetch' = [fetch EXCEPT ![t].retries = @ + 1]
  /\ UNCHANGED <<run, disk, launch, check, stage, caller, gateway, executions, crashes>>

\* Retries exhausted.  Only recoverTable looks at the run for an optional table.
FetchFail(t) ==
  /\ Fetching(t)
  /\ fetch[t].retries = MaxRetries
  /\ WriteTable(t, Row("failed", FALSE))
  /\ fetch' = [fetch EXCEPT ![t] = IF t \in Required THEN [@ EXCEPT !.pc = "failRun"]
                                                     ELSE NoFetch]
  /\ check' = IF t \notin Required /\ fetch[t].resumed
                THEN [check EXCEPT ![t] = NewCheck] ELSE check
  /\ UNCHANGED <<run, disk, launch, stage, caller, gateway, executions, crashes>>

FailRun(t) ==
  /\ fetch[t].pc = "failRun"
  /\ WriteStatus("failed")
  /\ fetch' = [fetch EXCEPT ![t] = NoFetch]
  /\ UNCHANGED <<table, disk, launch, check, stage, caller, gateway, executions, crashes>>

(***************************************************************************)
(* checkAndTransitionRunToStaged, checkAndTransitionRecoveredRun           *)
(***************************************************************************)
CheckRun(k) ==
  /\ check[k].pc = "run"
  /\ check' = [check EXCEPT ![k] = IF Exists THEN [@ EXCEPT !.pc = "tables", !.seen = run]
                                             ELSE NoCheck]
  /\ UNCHANGED <<run, table, disk, launch, fetch, stage, caller, gateway, executions, crashes>>

CheckTables(k) ==
  /\ check[k].pc = "tables"
  /\ LET next == DeriveRunStatus IN
       check' = [check EXCEPT ![k] =
                   IF next \in {"none", check[k].seen} THEN NoCheck
                   ELSE [pc |-> "write", seen |-> "none", next |-> next]]
  /\ UNCHANGED <<run, table, disk, launch, fetch, stage, caller, gateway, executions, crashes>>

\* UpdateStatus (or FailRun): whatever the run's status is by now.
CheckWrite(k) ==
  /\ check[k].pc = "write"
  /\ WriteStatus(check[k].next)
  /\ check' = [check EXCEPT ![k] = NoCheck]
  /\ UNCHANGED <<table, disk, launch, fetch, stage, caller, gateway, executions, crashes>>

CheckStep(k) == CheckRun(k) \/ CheckTables(k) \/ CheckWrite(k)

(***************************************************************************)
(* strategy_stage: the agent delivers a table                              *)
(***************************************************************************)
StageGet(s, t) ==
  /\ Up
  /\ stage[s] = NoTable /\ check[s].pc = "off"
  /\ Exists
  /\ stage' = [stage EXCEPT ![s] = t]
  /\ UNCHANGED <<run, table, disk, launch, fetch, check, caller, gateway, executions, crashes>>

\* The Parquet file, UpdateTable, and unless the call appends a chunk the look
\* at the run.
StageWrite(s, append) ==
  /\ stage[s] # NoTable
  /\ disk' = disk \union {stage[s]}
  /\ WriteTable(stage[s], Row("staged", FALSE))
  /\ check' = IF append THEN check ELSE [check EXCEPT ![s] = NewCheck]
  /\ stage' = [stage EXCEPT ![s] = NoTable]
  /\ UNCHANGED <<run, launch, fetch, caller, gateway, executions, crashes>>

(***************************************************************************)
(* strategy_run with the run's id: handleRunReentry.  Any status but       *)
(* staged is only reported.                                                *)
(***************************************************************************)
Reenter(c) ==
  /\ Up
  /\ caller[c].pc = "idle"
  /\ run = "staged"
  /\ caller' = [caller EXCEPT ![c].pc = "manifest"]
  /\ UNCHANGED <<run, table, disk, launch, fetch, check, stage, gateway, executions, crashes>>

\* The second statement of Get; buildManifestFromRun lists the staged tables.
ReadTables(c) ==
  /\ caller[c].pc = "manifest"
  /\ caller' = [caller EXCEPT ![c] = [pc |-> "cas", manifest |-> With("staged")]]
  /\ UNCHANGED <<run, table, disk, launch, fetch, check, stage, gateway, executions, crashes>>

CASExecute(c) ==
  /\ caller[c].pc = "cas"
  /\ IF run = "staged"
       THEN /\ executions < MaxExecutions
            /\ run' = "executing"
            /\ executions' = executions + 1
            /\ caller' = [caller EXCEPT ![c].pc = "exec"]
       ELSE /\ caller' = [caller EXCEPT ![c] = IdleCaller]
            /\ UNCHANGED <<run, executions>>
  /\ UNCHANGED <<table, disk, launch, fetch, check, stage, gateway, crashes>>

\* sc.Run returned: SetResult, or FailRun when it failed.  A runner that got
\* as far as the strategy has removed the run's directory.
Execute(c) ==
  /\ caller[c].pc = "exec"
  /\ \E s \in Terminal : WriteStatus(s)
  /\ disk' \in {disk, {}}
  /\ caller' = [caller EXCEPT ![c] = IdleCaller]
  /\ UNCHANGED <<table, launch, fetch, check, stage, gateway, executions, crashes>>

(***************************************************************************)
(* Restart and recovery                                                    *)
(***************************************************************************)
Crash ==
  /\ crashes < MaxCrashes
  /\ gateway.phase # "down"
  /\ crashes' = crashes + 1
  /\ gateway' = [Serving EXCEPT !.phase = "down"]
  /\ launch' = {}
  /\ fetch'  = [t \in Background |-> NoFetch]
  /\ check'  = [k \in Checker |-> NoCheck]
  /\ stage'  = [s \in Stager |-> NoTable]
  /\ caller' = [c \in Caller |-> IdleCaller]
  /\ UNCHANGED <<run, table, disk, executions>>

\* The runner empties the staging directory when it starts, which it does
\* before the recovery pass unless it is managed externally.
RecoverTables(fetcher, statuses) ==
  /\ gateway.phase = "down"
  /\ gateway' = IF run = "staging"
                  THEN [phase |-> "recover",
                        todo  |-> {t \in Background : table[t].status \in statuses},
                        fetcher    |-> fetcher,
                        relaunched |-> FALSE]
                  ELSE Serving
  /\ disk' \in {disk, {}}
  /\ UNCHANGED <<run, table, launch, fetch, check, stage, caller, executions, crashes>>

\* Mutants: a table that was never launched is not recovered; one that is
\* already staged is.
RecoverLaunchedOnly(fetcher) == RecoverTables(fetcher, {"fetching"})
RecoverStagedToo(fetcher)    == RecoverTables(fetcher, InProgress \union {"staged"})

\* RecoverActiveRuns: ListActive; only a run that was staging is recovered.
\* The MCP fetcher may be unavailable in the new process.
RecoverActiveRuns(fetcher) == RecoverTables(fetcher, InProgress)

Resumable(t) == table[t].plan /\ gateway.fetcher

\* recoverRun, one table: relaunched when its plan is there, failed otherwise.
RecoverTable(t) ==
  /\ t \in gateway.todo
  /\ gateway' = [gateway EXCEPT !.todo = @ \ {t}, !.relaunched = @ \/ Resumable(t)]
  /\ IF Resumable(t)
       THEN /\ WriteTable(t, Row("fetching", TRUE))
            /\ fetch' = [fetch EXCEPT ![t] = [pc |-> "fetch", retries |-> 0,
                                              resumed |-> TRUE]]
       ELSE /\ WriteTable(t, Row("failed", table[t].plan))
            /\ UNCHANGED fetch
  /\ UNCHANGED <<run, disk, launch, check, stage, caller, executions, crashes>>

\* With nothing relaunched the pass itself looks at the run before serving.
RecoverEnd ==
  /\ gateway.phase = "recover" /\ gateway.todo = {}
  /\ IF gateway.relaunched
       THEN gateway' = Serving /\ UNCHANGED check
       ELSE /\ gateway' = [Serving EXCEPT !.phase = "finish"]
            /\ check' = [check EXCEPT ![Recovery] = NewCheck]
  /\ UNCHANGED <<run, table, disk, launch, fetch, stage, caller, executions, crashes>>

Serve ==
  /\ gateway.phase = "finish" /\ check[Recovery].pc = "off"
  /\ gateway' = Serving
  /\ UNCHANGED <<run, table, disk, launch, fetch, check, stage, caller, executions, crashes>>

\* The sidecar restarts its runner after a transport error.
RunnerStart ==
  /\ Up
  /\ crashes < MaxCrashes
  /\ crashes' = crashes + 1
  /\ disk' = {}
  /\ UNCHANGED <<run, table, launch, fetch, check, stage, caller, gateway, executions>>

RecoveryStep ==
  \/ \E fetcher \in BOOLEAN : RecoverActiveRuns(fetcher)
  \/ \E t \in Background : RecoverTable(t)
  \/ RecoverEnd
  \/ Serve

(***************************************************************************)
(* Time-to-lives                                                           *)
(***************************************************************************)
Untouched ==
  /\ Exists /\ Up
  /\ launch = {}
  /\ \A t \in Background : fetch[t].pc = "off"
  /\ \A k \in Checker : check[k].pc = "off"
  /\ \A c \in Caller : caller[c].pc # "exec"

\* Mutant: only terminal runs are removed.
ReapTerminal ==
  /\ Untouched
  /\ run \in Terminal
  /\ run' = "gone"
  /\ UNCHANGED <<table, disk, launch, fetch, check, stage, caller, gateway, executions, crashes>>

\* Reap: terminal runs and runs nobody has updated for staleTTL.
Reap ==
  /\ Untouched
  /\ run' = "gone"
  /\ UNCHANGED <<table, disk, launch, fetch, check, stage, caller, gateway, executions, crashes>>

\* reapOrphanedDirs: a directory that no session of the session store owns.
ReapOrphanedDirs ==
  /\ Untouched
  /\ disk # {}
  /\ disk' = {}
  /\ UNCHANGED <<run, table, launch, fetch, check, stage, caller, gateway, executions, crashes>>

(***************************************************************************)
(* Specification                                                           *)
(***************************************************************************)
FetchStep(t) == FetchOk(t) \/ FetchRetry(t) \/ FetchFail(t) \/ FailRun(t)

StageStep(s) == \E append \in BOOLEAN : StageWrite(s, append)

CallerStep(c) == Reenter(c) \/ ReadTables(c) \/ CASExecute(c) \/ Execute(c)

Next ==
  \/ CreateRun
  \/ \E t \in Background : Launch(t) \/ FetchStep(t)
  \/ \E k \in Checker : CheckStep(k)
  \/ \E s \in Stager : StageStep(s) \/ \E t \in AgentTable : StageGet(s, t)
  \/ \E c \in Caller : CallerStep(c)
  \/ Crash
  \/ RunnerStart
  \/ RecoveryStep
  \/ Reap
  \/ ReapOrphanedDirs

Spec == Init /\ [][Next]_vars

\* Goroutines and handlers run to their end, a crashed gateway is started
\* again and the reaper's ticker fires.  Agents and callers owe nothing.
FairSpec ==
  /\ Spec
  /\ \A t \in Background : WF_vars(Launch(t)) /\ WF_vars(FetchStep(t))
  /\ \A k \in Checker : WF_vars(CheckStep(k))
  /\ \A s \in Stager : WF_vars(StageStep(s))
  /\ \A c \in Caller : WF_vars(ReadTables(c) \/ CASExecute(c) \/ Execute(c))
  /\ WF_vars(RecoveryStep)
  /\ WF_vars(Reap)

(***************************************************************************)
(* Properties                                                              *)
(***************************************************************************)

\* The strategy is started only with every required table in its manifest,
\* whatever goroutines, agents, crashes and recoveries did to get there.
ManifestComplete ==
  \A c \in Caller : caller[c].pc = "exec" => Required \subseteq caller[c].manifest

\* What a table's row says staged stays staged: no goroutine of an earlier
\* life, retry or recovery pass takes it back.
StagedForGood ==
  [][\A t \in Table : table[t].status = "staged" => table'[t].status = "staged"]_vars

\* The run never waits for a goroutine that does not exist: while the gateway
\* serves, every background table in progress of a run that is not over has
\* one, or one about to start.
NoOrphanFetch ==
  Up /\ Exists /\ run \notin Terminal => \A t \in Background :
    table[t].status \in InProgress => t \in launch \/ fetch[t].pc = "fetch"

\* No run is left in a status that nobody will change: what a crash or a lost
\* look at the run leaves behind is removed by the reaper.
NoRunForever == <>[](run \notin {"staging", "executing"})

\* What a strategy and its callers may rely on (checkAndTransition, the
\* recovery at startup).
StagingSound == ManifestComplete /\ NoOrphanFetch

(***************************************************************************)
(* What a comment in the code says and the code does not do                *)
(***************************************************************************)

\* staging_run_store.go on CASExecute: "This is the exactly-once execution
\* guard", so no run is executed a second time.
ExecutedOnce == executions <= 1

=============================================================================
