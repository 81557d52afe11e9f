---------------------------- MODULE DirectAgents ----------------------------
(***************************************************************************)
(* Directly dispatched batch agents: the orchestrator's SpawnAsync,        *)
(* SayAsync and Kill, the collector goroutine of every process they start, *)
(* the reaper's max_age sweep, and the two runtime backends (local         *)
(* processes, Kubernetes Jobs) with the workspace each one implies.        *)
(*                                                                         *)
(* Everything is addressed by task name: the row of the agents table, the  *)
(* backend's handle or Job, the workspace.  A request reads, starts and    *)
(* writes in separate steps, so requests, collectors and the reaper        *)
(* interleave between them.                                                *)
(***************************************************************************)
EXTENDS AgentStore, FiniteSets

CONSTANTS
  Client,         \* API requests that may be in flight at once
  MaxProc,        \* bound: processes started in a behaviour
  Deployments,    \* deployments, and what is asked of them
  Overlap         \* the requests that may overlap on one task

\* kubernetes: Jobs and plain directories, or processes and git worktrees.
\* postgres: the agents table is in Postgres, or in SQLite.
\* max_concurrent: 0 for no limit.  tasks, ops: the names and the requests
\* that clients use.  restarts: bound on the restarts of the daemon.
Ops        == {"spawn", "say", "kill"}
Deployment == [kubernetes : BOOLEAN, postgres : BOOLEAN, max_concurrent : Nat,
               tasks : SUBSET Task, ops : SUBSET Ops, restarts : Nat]

ASSUME DirectAssumption ==
  /\ MaxProc \in Nat
  /\ Deployments \subseteq Deployment
  /\ Overlap \subseteq Ops

VARIABLES
  deploy,     \* the deployment; never changes
  token,      \* task -> the row holds a resume token
  procs,      \* every process started: its task, backend name and state
  handles,    \* backend name -> the process it denotes, 0 for none
  workspace,  \* tasks whose worktree or directory exists
  requests,   \* client -> the request it has in flight
  watch,      \* processes with a live collector goroutine
  reap,       \* the reaper's sweep: tasks to kill, task to mark
  restarts    \* restarts so far

work == <<agents, emitted, token, procs, handles, workspace, requests, watch,
          reap, restarts>>

vars == <<deploy, work>>

Kubernetes    == deploy.kubernetes
Postgres      == deploy.postgres
MaxConcurrent == deploy.max_concurrent

Proc     == 1 .. MaxProc
NoProc   == 0
NameKind == {"main", "say"}            \* task and task + "-say"
Dead     == {"ok", "bad"}              \* exited cleanly, or not

NoRequest == [op |-> "none", at |-> "idle", task |-> "none", proc |-> NoProc,
              seen |-> "absent"]

Started     == {p \in Proc : procs[p].state # "unused"}
Up(p)       == procs[p].state = "up"
RunningRows == {t \in Task : Status(t) = "Running"}

TypeOK ==
  /\ StoreTypeOK
  /\ token \in [Task -> BOOLEAN]
  /\ procs \in [Proc -> [task  : Task \union {"none"},
                         name  : NameKind,
                         state : {"unused", "up"} \union Dead]]
  /\ handles \in [Task -> [NameKind -> Proc \union {NoProc}]]
  /\ workspace \subseteq Task
  /\ requests \in [Client -> [op   : {"none"} \union Ops,
                              at   : {"idle", "create", "launch", "record",
                                      "rollback", "stop", "mark", "clean",
                                      "remove"},
                              task : Task \union {"none"},
                              proc : Proc \union {NoProc},
                              seen : AgentStatus]]
  /\ watch \subseteq Proc
  /\ reap \in [todo : SUBSET Task, mark : SUBSET Task]
  /\ deploy \in Deployments
  /\ restarts \in 0 .. deploy.restarts

Init ==
  /\ deploy \in Deployments
  /\ StoreInit
  /\ token     = [t \in Task |-> FALSE]
  /\ procs     = [p \in Proc |-> [task |-> "none", name |-> "main", state |-> "unused"]]
  /\ handles   = [t \in Task |-> [n \in NameKind |-> NoProc]]
  /\ workspace = {}
  /\ requests  = [c \in Client |-> NoRequest]
  /\ watch     = {}
  /\ reap      = [todo |-> {}, mark |-> {}]
  /\ restarts  = 0

(***************************************************************************)
(* The runtime backends                                                    *)
(***************************************************************************)

\* A Job name is taken while the Job exists; a local handle is replaced.
NameFree(t, n) == ~Kubernetes \/ handles[t][n] = NoProc

\* Backend.Spawn under the name (t, n): the new process is p.
StartProc(t, n, p) ==
  /\ NameFree(t, n)
  /\ p \in Proc \ Started
  /\ \A q \in Proc \ Started : p <= q
  /\ procs'   = [procs EXCEPT ![p] = [task |-> t, name |-> n, state |-> "up"]]
  /\ handles' = [handles EXCEPT ![t][n] = p]

\* Backend.Kill succeeds on a live process, and on any Job that still
\* exists; otherwise it is ErrNotFound.
KillFinds(t, n) ==
  /\ handles[t][n] # NoProc
  /\ Kubernetes \/ Up(handles[t][n])

\* Backend.Kill: whatever the name denotes dies, and the name is released.
KillProc(t, n) ==
  LET p == handles[t][n] IN
    /\ procs'   = IF p # NoProc /\ Up(p)
                    THEN [procs EXCEPT ![p].state = "bad"] ELSE procs
    /\ handles' = [handles EXCEPT ![t][n] = NoProc]

\* AgentHandle.Wait of process p returns: a local handle waits for its own
\* process, a Job handle polls the Job that has its name now.
Waited(p) ==
  LET h == handles[procs[p].task][procs[p].name] IN
    IF ~Kubernetes THEN procs[p].state \in Dead
    ELSE IF h = NoProc THEN TRUE ELSE procs[h].state \in Dead

\* Whether that Wait, and hence the parsed output, may report success.
WaitedClean(p) ==
  LET h == handles[procs[p].task][procs[p].name] IN
    IF ~Kubernetes THEN procs[p].state = "ok"
    ELSE h # NoProc /\ procs[h].state = "ok"

\* A process ends by itself.
ProcExit(p) ==
  /\ Up(p)
  /\ \E s \in Dead : procs' = [procs EXCEPT ![p].state = s]
  /\ UNCHANGED <<storeVars, token, handles, workspace, requests, watch, reap, restarts>>

\* ttlSecondsAfterFinished: the cluster deletes a finished Job.
JobExpires(t, n) ==
  /\ Kubernetes /\ handles[t][n] # NoProc /\ ~Up(handles[t][n])
  /\ handles' = [handles EXCEPT ![t][n] = NoProc]
  /\ UNCHANGED <<storeVars, token, procs, workspace, requests, watch, reap, restarts>>

(***************************************************************************)
(* Requests                                                                *)
(***************************************************************************)
InFlight(c, op, at) == requests[c].op = op /\ requests[c].at = at
GoTo(c, at)         == requests' = [requests EXCEPT ![c].at = at]
Finish(c)           == requests' = [requests EXCEPT ![c] = NoRequest]

\* The environment: requests on one task overlap only when Overlap allows.
MayBegin(c, op, t) ==
  /\ op \in deploy.ops /\ t \in deploy.tasks
  /\ requests[c] = NoRequest
  /\ \A d \in Client : requests[d].task = t => {op, requests[d].op} \subseteq Overlap

Begin(c, op, t, at) ==
  /\ MayBegin(c, op, t)
  /\ requests' = [requests EXCEPT ![c] = [op |-> op, at |-> at, task |-> t,
                                          proc |-> NoProc,
                                          seen |-> IF op = "kill" THEN Status(t)
                                                                  ELSE "absent"]]

\* prepareSpawn: no agent of that name exists.
SpawnFind(c, t) ==
  /\ Status(t) = "absent"
  /\ Begin(c, "spawn", t, "create")
  /\ UNCHANGED <<storeVars, token, procs, handles, workspace, watch, reap, restarts>>

\* Mutant: the worktree is added with --force.
CanCreateAlways(t) == TRUE

\* git worktree add refuses an existing worktree; MkdirAll does not.
CanCreate(t) == Kubernetes \/ t \notin workspace

\* prepareSpawn: Workspace.Create, then settings and bootstrap file, whose
\* failure removes the workspace again.
SpawnCreate(c) ==
  /\ InFlight(c, "spawn", "create")
  /\ LET t == requests[c].task IN
       \/ /\ CanCreate(t)
          /\ workspace' = workspace \union {t}
          /\ GoTo(c, "launch")
       \/ /\ CanCreate(t)
          /\ workspace' = workspace \ {t}
          /\ Finish(c)
       \/ /\ Finish(c)
          /\ UNCHANGED workspace
  /\ UNCHANGED <<storeVars, token, procs, handles, watch, reap, restarts>>

\* SpawnAsync: Backend.Spawn, whose failure removes the workspace.
SpawnLaunch(c) ==
  /\ InFlight(c, "spawn", "launch")
  /\ LET t == requests[c].task IN
       \/ \E p \in Proc :
            /\ StartProc(t, "main", p)
            /\ requests' = [requests EXCEPT ![c].at = "record", ![c].proc = p]
            /\ UNCHANGED workspace
       \/ /\ workspace' = workspace \ {t}
          /\ Finish(c)
          /\ UNCHANGED <<procs, handles>>
  /\ UNCHANGED <<storeVars, token, watch, reap, restarts>>

\* Mutant: one more than the limit is let in.
CheckSpawnAllowedOneMore == MaxConcurrent = 0 \/ Cardinality(RunningRows) <= MaxConcurrent

\* CheckSpawnAllowed, evaluated inside WithLock.
CheckSpawnAllowed == MaxConcurrent = 0 \/ Cardinality(RunningRows) < MaxConcurrent

\* WithLock writes the appended row: SQLite inserts it and fails on an
\* existing one, the Postgres diff updates the existing row.
CanAppend(t) == Postgres \/ Status(t) = "absent"

StartedRow == [status |-> "Running", mode |-> "batch", mission |-> NoMission]

\* RecordAgentStarted, then the collector goroutine.
SpawnRecord(c) ==
  /\ InFlight(c, "spawn", "record")
  /\ LET t == requests[c].task IN
       \/ /\ CheckSpawnAllowed /\ CanAppend(t)
          /\ agents'  = [agents EXCEPT ![t] = StartedRow]
          /\ emitted' = [emitted EXCEPT ![t] = 0]
          /\ token'   = [token EXCEPT ![t] = FALSE]
          /\ watch'   = watch \union {requests[c].proc}
          /\ Finish(c)
       \/ /\ ~(CheckSpawnAllowed /\ CanAppend(t))
          /\ GoTo(c, "rollback")
          /\ UNCHANGED <<storeVars, token, watch>>
  /\ UNCHANGED <<procs, handles, workspace, reap, restarts>>

\* Mutant: the refused process is left running.
SpawnRollbackFilesOnly(c) ==
  /\ InFlight(c, "spawn", "rollback")
  /\ workspace' = workspace \ {requests[c].task}
  /\ Finish(c)
  /\ UNCHANGED <<storeVars, token, procs, handles, watch, reap, restarts>>

\* SpawnAsync: the rollback kills by task name and removes the workspace.
SpawnRollback(c) ==
  /\ InFlight(c, "spawn", "rollback")
  /\ KillProc(requests[c].task, "main")
  /\ workspace' = workspace \ {requests[c].task}
  /\ Finish(c)
  /\ UNCHANGED <<storeVars, token, watch, reap, restarts>>

\* SayAsync: the agent exists, can be resumed and is not Running.
SayFind(c, t) ==
  /\ Status(t) \notin {"absent", "Running"} /\ token[t]
  /\ Begin(c, "say", t, "launch")
  /\ UNCHANGED <<storeVars, token, procs, handles, workspace, watch, reap, restarts>>

\* prepareSay looks the agent up again; Backend.Spawn may fail.
SayLaunch(c) ==
  /\ InFlight(c, "say", "launch")
  /\ LET t == requests[c].task IN
       \/ /\ Status(t) # "absent" /\ token[t]
          /\ \E p \in Proc :
               /\ StartProc(t, "say", p)
               /\ requests' = [requests EXCEPT ![c].at = "mark", ![c].proc = p]
       \/ /\ Finish(c)
          /\ UNCHANGED <<procs, handles>>
  /\ UNCHANGED <<storeVars, token, workspace, watch, reap, restarts>>

\* Mutant: the follow-up's collector is not started.
SayMarkUnwatched(c) ==
  /\ InFlight(c, "say", "mark")
  /\ agents' = IF Status(requests[c].task) = "absent" THEN agents
                 ELSE [agents EXCEPT ![requests[c].task].status = "Running"]
  /\ Finish(c)
  /\ UNCHANGED <<emitted, token, procs, handles, workspace, watch, reap, restarts>>

\* SayAsync: the row becomes Running whatever its status was, and the
\* collector starts; without a row the process is killed.
SayMark(c) ==
  /\ InFlight(c, "say", "mark")
  /\ LET t == requests[c].task IN
       \/ /\ Status(t) # "absent"
          /\ agents' = [agents EXCEPT ![t].status = "Running"]
          /\ watch'  = watch \union {requests[c].proc}
          /\ UNCHANGED <<procs, handles>>
       \/ /\ Status(t) = "absent"
          /\ KillProc(t, "say")
          /\ UNCHANGED <<agents, watch>>
  /\ Finish(c)
  /\ UNCHANGED <<emitted, token, workspace, reap, restarts>>

\* Kill: the agent and the status the request acts on.
KillFind(c, t) ==
  /\ Status(t) # "absent"
  /\ Begin(c, "kill", t, "stop")
  /\ UNCHANGED <<storeVars, token, procs, handles, workspace, watch, reap, restarts>>

\* Kill: a Running agent's process is killed by task name, ErrNotFound
\* being no error; another error ends the request with the state kept.  An
\* agent seen terminal has no process to stop.
KillStop(c) ==
  /\ InFlight(c, "kill", "stop")
  /\ \/ /\ requests[c].seen = "Running"
        /\ KillProc(requests[c].task, "main")
        /\ GoTo(c, "mark")
     \/ /\ requests[c].seen = "Running"
        /\ Finish(c)
        /\ UNCHANGED <<procs, handles>>
     \/ /\ requests[c].seen \in TerminalStatus
        /\ GoTo(c, "mark")
        /\ UNCHANGED <<procs, handles>>
  /\ UNCHANGED <<storeVars, token, workspace, watch, reap, restarts>>

\* Kill: the terminal transition, to Stopped or to the status seen.
KillMark(c) ==
  /\ InFlight(c, "kill", "mark")
  /\ MarkTerminal(requests[c].task,
                  IF requests[c].seen = "Running" THEN "Stopped" ELSE requests[c].seen)
  /\ GoTo(c, "clean")
  /\ UNCHANGED <<token, procs, handles, workspace, watch, reap, restarts>>

\* cleanupAgent: the row goes first.
KillClean(c) ==
  /\ InFlight(c, "kill", "clean")
  /\ RemoveAgent(requests[c].task)
  /\ token' = [token EXCEPT ![requests[c].task] = FALSE]
  /\ GoTo(c, "remove")
  /\ UNCHANGED <<procs, handles, workspace, watch, reap, restarts>>

\* cleanupAgent: then the workspace, unless keep_files.
KillRemove(c) ==
  /\ InFlight(c, "kill", "remove")
  /\ workspace' \in {workspace, workspace \ {requests[c].task}}
  /\ Finish(c)
  /\ UNCHANGED <<storeVars, token, procs, handles, watch, reap, restarts>>

(***************************************************************************)
(* Collectors, reaper, restart                                             *)
(***************************************************************************)

\* Mutant: an unclean exit is not recorded.
CollectCleanOnly(p) ==
  /\ p \in watch /\ Waited(p) /\ WaitedClean(p)
  /\ MarkTerminal(procs[p].task, "Completed")
  /\ watch' = watch \ {p}
  /\ UNCHANGED <<token, procs, handles, workspace, requests, reap, restarts>>

\* collectHandleResult: a clean exit is Completed unless the output is an
\* error or unreadable, anything else Failed.  The row written is the one
\* the task has now; the token is kept when the output carried none.
Collect(p) ==
  /\ p \in watch /\ Waited(p)
  /\ LET t == procs[p].task IN
       \E s \in {"Completed", "Failed"}, tok \in BOOLEAN :
         /\ s = "Completed" => WaitedClean(p)
         /\ MarkTerminal(t, s)
         /\ token' = IF tok /\ Applies(t, s) THEN [token EXCEPT ![t] = TRUE] ELSE token
  /\ watch' = watch \ {p}
  /\ UNCHANGED <<procs, handles, workspace, requests, reap, restarts>>

\* reap: Store.Load, keeping the Running agents past max_age.
ReapLoad(S) ==
  /\ reap = [todo |-> {}, mark |-> {}]
  /\ S # {} /\ S \subseteq RunningRows
  /\ reap' = [reap EXCEPT !.todo = S]
  /\ UNCHANGED <<storeVars, token, procs, handles, workspace, requests, watch, restarts>>

\* reap: Backend.Kill by task name; ErrNotFound leaves the agent Running,
\* for the next sweep.
ReapKill(t) ==
  /\ t \in reap.todo /\ reap.mark = {}
  /\ \/ /\ KillFinds(t, "main")
        /\ reap' = [todo |-> reap.todo \ {t}, mark |-> {t}]
     \/ /\ ~KillFinds(t, "main")
        /\ reap' = [reap EXCEPT !.todo = @ \ {t}]
  /\ KillProc(t, "main")
  /\ UNCHANGED <<storeVars, token, workspace, requests, watch, restarts>>

\* reap: any other error of the backend, with the same outcome.
ReapSkip(t) ==
  /\ t \in reap.todo /\ reap.mark = {}
  /\ reap' = [reap EXCEPT !.todo = @ \ {t}]
  /\ UNCHANGED <<storeVars, token, procs, handles, workspace, requests, watch, restarts>>

\* transitionReapedAgent: MarkStopped on the row the task has now.
ReapMark(t) ==
  /\ t \in reap.mark
  /\ MarkTerminal(t, "Stopped")
  /\ reap' = [reap EXCEPT !.mark = {}]
  /\ UNCHANGED <<token, procs, handles, workspace, requests, watch, restarts>>

\* The daemon restarts: goroutines and local handles are gone, processes
\* and Jobs are not.
Restart ==
  /\ restarts < deploy.restarts
  /\ restarts' = restarts + 1
  /\ requests' = [c \in Client |-> NoRequest]
  /\ watch'    = {}
  /\ reap'     = [todo |-> {}, mark |-> {}]
  /\ handles'  = IF Kubernetes THEN handles
                               ELSE [t \in Task |-> [n \in NameKind |-> NoProc]]
  /\ UNCHANGED <<storeVars, token, procs, workspace>>

Step(c) ==
  \/ SpawnCreate(c) \/ SpawnLaunch(c) \/ SpawnRecord(c) \/ SpawnRollback(c)
  \/ SayLaunch(c) \/ SayMark(c)
  \/ KillStop(c) \/ KillMark(c) \/ KillClean(c) \/ KillRemove(c)

Next ==
  /\ \/ \E c \in Client, t \in Task : SpawnFind(c, t) \/ SayFind(c, t) \/ KillFind(c, t)
     \/ \E c \in Client : Step(c)
     \/ \E p \in Proc : ProcExit(p) \/ Collect(p)
     \/ \E t \in Task, n \in NameKind : JobExpires(t, n)
     \/ \E S \in SUBSET Task : ReapLoad(S)
     \/ \E t \in Task : ReapKill(t) \/ ReapSkip(t) \/ ReapMark(t)
     \/ Restart
  /\ UNCHANGED deploy

Spec == Init /\ [][Next]_vars

(***************************************************************************)
(* Fairness.  Every goroutine of the daemon that can step does.  The sweep *)
(* runs on a timer and max_age passes, so a task that stays Running is in  *)
(* some sweep, and the backend's errors are transient.  Nothing is assumed *)
(* of the processes: they may hang.                                        *)
(***************************************************************************)
Fairness ==
  /\ \A c \in Client : WF_work(Step(c))
  /\ \A p \in Proc   : WF_work(Collect(p))
  /\ \A t \in Task   : /\ SF_work(\E S \in SUBSET Task : t \in S /\ ReapLoad(S))
                       /\ SF_work(ReapKill(t))
                       /\ WF_work(ReapMark(t))

FairSpec == Spec /\ Fairness

(***************************************************************************)
(* Properties                                                              *)
(***************************************************************************)

\* Only one agent has been started under the name of task t: what the
\* daemon still holds of an earlier one is keyed by the name too.
NamedOnce(t) ==
  Cardinality({p \in Started : procs[p].task = t /\ procs[p].name = "main"}) <= 1

\* A follow-up process has been started.
FollowUp == \E p \in Started : procs[p].name = "say"

\* A Running agent has a collector in this daemon that will record how its
\* process ends, whatever requests, other collectors and the reaper did
\* since (SpawnAsync, SayAsync and collectHandleResult).  A restart forgets
\* the collectors.
RunningIsWatched ==
  restarts = 0 => \A t \in RunningRows : \E p \in watch : procs[p].task = t

\* The process of a spawn belongs to a request in flight, or its task's row
\* says Running: a refused, killed or reaped agent leaves no process behind
\* (the rollback of SpawnAsync, Kill, the reaper).  A restart between the
\* launch and the row loses the request, and with it the process; and what
\* is left of an earlier agent of the name marks the row of the next.
NoStrayProcess ==
  \A p \in Proc :
    Up(p) /\ procs[p].name = "main" /\ NamedOnce(procs[p].task) /\ restarts = 0 =>
      \/ Status(procs[p].task) = "Running"
      \/ \E c \in Client : requests[c].task = procs[p].task

\* The rows never say that more than max_concurrent agents are Running
\* (CheckSpawnAllowed inside the store's lock), until a finished agent is
\* spoken to: SayAsync does not ask.
RunningCapped ==
  MaxConcurrent > 0 /\ ~FollowUp => Cardinality(RunningRows) <= MaxConcurrent

\* A Running agent keeps its workspace (Workspace.Create, and the three
\* places that remove a workspace by task name).  Only git refuses a second
\* workspace of the same name: with plain directories, two overlapping spawns
\* share one and the loser removes it.
WorkspaceKept == ~Kubernetes => RunningRows \subseteq workspace

\* What the daemon knows of its Running agents is true: someone watches them,
\* the limit counts them and their workspace is there.
RunningSound == RunningIsWatched /\ RunningCapped /\ WorkspaceKept /\ NoStrayProcess

\* No agent stays Running for ever: its process ends, or max_age passes and
\* the reaper stops it.  Neither helps an agent that hangs in a follow-up or
\* outlived its daemon: the reaper does not find the process by task name.
RunningEnds == <>[](RunningRows = {} \/ FollowUp \/ restarts > 0)

=============================================================================
