----------------------------- MODULE StreamAgents -----------------------------
(***************************************************************************)
(* Stream agents of one task name: SpawnStream with the local host or a    *)
(* Kubernetes pod behind it, the goroutine that sends the first prompt and *)
(* then watches the session, follow-up messages (SayStreamAsync), Kill,    *)
(* the max_age reaper with its backstop for failed agents, and a restart   *)
(* of the control plane.  A session behaves as StreamSession promises.     *)
(*                                                                         *)
(* Everything but the session itself is addressed by the task name: the    *)
(* agent row, the entry of the process registry, the pod and its ConfigMap *)
(* and Secret, the workspace. Owners (which spawn made it) are recorded   *)
(* here to state the properties; no guard of a handler reads them.         *)
(***************************************************************************)
EXTENDS Naturals, FiniteSets

CONSTANTS
    Spawn,        \* calls of SpawnStream (numbers, in order), each with its session
    Backend,      \* backends considered: "local", "kubernetes"
    MaxFaults     \* bound: failing Kubernetes calls and restarts

ASSUME StreamAssumption == Spawn \subseteq Nat \ {0} /\ MaxFaults \in Nat

VARIABLES
    backend,
    row,          \* the agent row: status and the spawn that inserted it
    worktree,     \* the workspace exists
    reg,          \* registry entry of the name: a session or NoSpawn
    sess,         \* session of each spawn: "none", "up", "gone"
    object,       \* owner of each Kubernetes object of the name, or NoSpawn
    spawn,        \* place of each SpawnStream call
    watcher,      \* place of the goroutine collectStreamInit starts
    say,          \* place and handle of the follow-up message
    kill,         \* place and handle of the kill request
    reaping,      \* place of the reaper with the name in its snapshot
    faults,       \* how many so far
    restarted,    \* the control plane restarted
    lapse         \* something was lost that no later step makes up for, or the
                  \* name was given to a new agent while calls for the old one run

streamVars == <<backend, row, worktree, reg, sess, object, spawn, watcher, say,
                kill, reaping, faults, restarted, lapse>>

NoSpawn == 0
NoAgentRow == [status |-> "none", of |-> NoSpawn]
Live == {"Running", "Idle"}
Object == {"config", "secret", "pod"}
K8s == backend = "kubernetes"
Quiet == [at |-> "idle", of |-> NoSpawn]

StreamTypeOK ==
    /\ backend \in Backend
    /\ row \in [status : Live \cup {"Failed", "Stopped"}, of : Spawn] \cup {NoAgentRow}
    /\ worktree \in BOOLEAN
    /\ reg \in Spawn \cup {NoSpawn}
    /\ sess \in [Spawn -> {"none", "up", "gone"}]
    /\ object \in [Object -> Spawn \cup {NoSpawn}]
    /\ spawn \in [Spawn -> {"idle", "workspace", "start", "config", "secret", "pod",
                            "ready", "connect", "register", "record", "close",
                            "remove", "undo", "over"}]
    /\ watcher \in [Spawn -> {"none", "send", "close", "cleanup", "fail",
                              "idle", "watch", "exit", "mark", "over"}]
    /\ say \in [at : {"idle", "find", "mark", "send", "answered", "failed"},
                of : Spawn \cup {NoSpawn}]
    /\ kill \in [at : {"idle", "close", "find", "pod", "cleanup"},
                 of : Spawn \cup {NoSpawn}]
    /\ reaping \in {"idle", "kill", "mark", "backstop"}
    /\ faults \in 0..MaxFaults /\ restarted \in BOOLEAN
    /\ lapse \in BOOLEAN

StreamInit ==
    /\ backend \in Backend
    /\ row = NoAgentRow /\ worktree = FALSE /\ reg = NoSpawn
    /\ sess = [s \in Spawn |-> "none"]
    /\ object = [o \in Object |-> NoSpawn]
    /\ spawn = [s \in Spawn |-> "idle"]
    /\ watcher = [s \in Spawn |-> "none"]
    /\ say = Quiet /\ kill = Quiet /\ reaping = "idle"
    /\ faults = 0 /\ restarted = FALSE /\ lapse = FALSE

Fault == faults < MaxFaults /\ faults' = faults + 1
NoFault == UNCHANGED faults
KeepRun == UNCHANGED <<backend, restarted>>

------------------------------------------------------------------------------
(* Statements on the agent row, pods and sessions *)

\* UpdateAgentStatusIf / UpdateAgentResultIf: applied to the row that has the
\* name, if its status is one of from.
MarkIf(from, status) ==
    row' = IF row.status \in from THEN [row EXCEPT !.status = status] ELSE row

\* UpdateAgentStatus / UpdateAgentResult: whatever the status is.
Overwrite(status) ==
    row' = IF row = NoAgentRow THEN row ELSE [row EXCEPT !.status = status]

Exists(o) == object[o] # NoSpawn
Deleted(os) == object' = [o \in Object |-> IF o \in os THEN NoSpawn ELSE object[o]]

\* A session whose pod is deleted ends; a local one is not concerned.
Ended(s, os) == K8s /\ "pod" \in os /\ object["pod"] = s
SessionsWithout(os) == sess' = [s \in Spawn |-> IF Ended(s, os) /\ sess[s] = "up" THEN "gone" ELSE sess[s]]

\* KillStreamPod: pod, ConfigMap and Secret of the name; it may fail, which
\* the callers only log.  hopeless: nobody will try again.
KillStreamPod(hopeless) ==
    \/ ~K8s /\ UNCHANGED <<object, sess, lapse>> /\ NoFault
    \/ K8s /\ Deleted(Object) /\ SessionsWithout(Object) /\ NoFault /\ UNCHANGED lapse
    \/ K8s /\ Fault /\ UNCHANGED <<object, sess>> /\ lapse' = (lapse \/ hopeless)

Close(s) == sess' = [sess EXCEPT ![s] = "gone"]

------------------------------------------------------------------------------
(* SpawnStream *)

At(s, p) == spawn[s] = p
Goto(s, p) == spawn' = [spawn EXCEPT ![s] = p]
KeepOthers == UNCHANGED <<watcher, say, kill, reaping>> /\ KeepRun

\* ResolveSpawn: no such runtime or model tier, or a runtime without streaming.
ResolveFails(s) ==
    /\ At(s, "idle") /\ Goto(s, "over")
    /\ UNCHANGED <<row, worktree, reg, sess, object, faults, lapse>> /\ KeepOthers

\* The name must be free.  Calls for it come one after the other here; two
\* calls at once are a subject of DirectAgents.
SpawnCheck(s) ==
    /\ At(s, "idle") /\ row = NoAgentRow
    /\ \A u \in Spawn : spawn[u] = "over" \/ (spawn[u] = "idle" /\ u >= s)
    /\ Goto(s, "workspace")
    /\ lapse' = (lapse \/ (\E u \in Spawn : watcher[u] \notin {"none", "over"})
                       \/ say.at # "idle" \/ kill.at # "idle" \/ reaping # "idle")
    /\ UNCHANGED <<row, worktree, reg, sess, object, watcher, say, kill, reaping, faults>>
    /\ KeepRun

\* git worktree add refuses a workspace that exists; the staging directory of
\* a pod is created either way.
SpawnWorkspace(s) ==
    /\ At(s, "workspace")
    /\ \/ (K8s \/ ~worktree) /\ worktree' = TRUE /\ Goto(s, IF K8s THEN "config" ELSE "start")
       \/ UNCHANGED worktree /\ Goto(s, "over")
    /\ UNCHANGED <<row, reg, sess, object, faults, lapse>> /\ KeepOthers

\* host.StartStream on this machine; it leaves nothing behind when it fails.
StartLocal(s) ==
    /\ At(s, "start")
    /\ \/ sess' = [sess EXCEPT ![s] = "up"] /\ Goto(s, "register")
       \/ UNCHANGED sess /\ Goto(s, "undo")
    /\ UNCHANGED <<row, worktree, reg, object, faults, lapse>> /\ KeepOthers

Create(s, o, next) ==
    /\ ~Exists(o)
    /\ object' = [object EXCEPT ![o] = s]
    /\ Goto(s, next) /\ NoFault

\* The name is taken, or the call fails.
Refused(o) == (Exists(o) /\ NoFault) \/ Fault

\* Deletions on the way out are best effort.
Discard(os) ==
    \/ Deleted(os) /\ SessionsWithout(os) /\ UNCHANGED lapse
    \/ lapse' = TRUE /\ UNCHANGED <<object, sess>>

CreateConfigMap(s) ==
    /\ At(s, "config")
    /\ \/ Create(s, "config", "secret")
       \/ Refused("config") /\ UNCHANGED object /\ Goto(s, "undo")
    /\ UNCHANGED <<row, worktree, reg, sess, lapse>> /\ KeepOthers

CreateSecret(s) ==
    /\ At(s, "secret")
    /\ \/ Create(s, "secret", "pod") /\ UNCHANGED <<sess, lapse>>
       \/ Refused("secret") /\ Discard({"config"}) /\ Goto(s, "undo")
    /\ UNCHANGED <<row, worktree, reg>> /\ KeepOthers

CreatePod(s) ==
    /\ At(s, "pod")
    /\ \/ Create(s, "pod", "ready") /\ UNCHANGED <<sess, lapse>>
       \/ Refused("pod") /\ Discard({"config", "secret"}) /\ Goto(s, "undo")
    /\ UNCHANGED <<row, worktree, reg>> /\ KeepOthers

\* waitForPodReady, then Get for the pod's address, whose failure leaves the
\* three objects behind.
WaitForPodReady(s) ==
    /\ At(s, "ready")
    /\ \/ Goto(s, "connect") /\ UNCHANGED <<object, sess, lapse>> /\ NoFault
       \/ Goto(s, "undo") /\ Discard(Object) /\ Fault
       \/ Goto(s, "undo") /\ lapse' = TRUE /\ Fault /\ UNCHANGED <<object, sess>>
    /\ UNCHANGED <<row, worktree, reg>> /\ KeepOthers

\* Mutant: a session that cannot be opened leaves its pod.
ConnectLeavesPod(s) ==
    /\ At(s, "connect")
    /\ \/ /\ object["pod"] = s
          /\ sess' = [sess EXCEPT ![s] = "up"] /\ Goto(s, "register")
       \/ UNCHANGED sess /\ Goto(s, "undo")
    /\ UNCHANGED <<object, lapse>> /\ NoFault
    /\ UNCHANGED <<row, worktree, reg>> /\ KeepOthers

\* The session is opened to the pod; if it cannot be, the pod is killed.
Connect(s) ==
    /\ At(s, "connect")
    /\ \/ /\ object["pod"] = s
          /\ sess' = [sess EXCEPT ![s] = "up"] /\ Goto(s, "register")
          /\ UNCHANGED <<object, lapse>> /\ NoFault
       \/ KillStreamPod(TRUE) /\ Goto(s, "undo")
    /\ UNCHANGED <<row, worktree, reg>> /\ KeepOthers

SpawnUndo(s) ==
    /\ At(s, "undo")
    /\ worktree' = FALSE /\ Goto(s, "over")
    /\ UNCHANGED <<row, reg, sess, object, faults, lapse>> /\ KeepOthers

Register(s) ==
    /\ At(s, "register")
    /\ reg' = s /\ Goto(s, "record")
    /\ UNCHANGED <<row, worktree, sess, object, faults, lapse>> /\ KeepOthers

\* RecordAgentStarted: refused when the name is taken or the cap is reached.
Record(s) ==
    /\ At(s, "record")
    /\ \/ /\ row = NoAgentRow
          /\ row' = [status |-> "Running", of |-> s]
          /\ Goto(s, "over")
          /\ watcher' = [watcher EXCEPT ![s] = "send"]
       \/ UNCHANGED <<row, watcher>> /\ Goto(s, "close")
    /\ UNCHANGED <<worktree, reg, sess, object, say, kill, reaping, faults, lapse>> /\ KeepRun

\* Not recorded: Close, then the pod.
SpawnClose(s) ==
    /\ At(s, "close") /\ sess[s] = "up"
    /\ Close(s) /\ Goto(s, "close")
    /\ UNCHANGED <<row, worktree, reg, object, faults, lapse>> /\ KeepOthers

SpawnCleanup(s) ==
    /\ At(s, "close") /\ sess[s] = "gone"
    /\ KillStreamPod(TRUE)
    /\ Goto(s, "remove")
    /\ UNCHANGED <<row, worktree, reg>> /\ KeepOthers

SpawnRemove(s) ==
    /\ At(s, "remove")
    /\ reg' = NoSpawn /\ Goto(s, "undo")
    /\ UNCHANGED <<row, worktree, sess, object, faults, lapse>> /\ KeepOthers

SpawnStep(s) ==
    \/ SpawnWorkspace(s) \/ StartLocal(s) \/ CreateConfigMap(s) \/ CreateSecret(s)
    \/ CreatePod(s) \/ WaitForPodReady(s) \/ Connect(s) \/ SpawnUndo(s)
    \/ Register(s) \/ Record(s) \/ SpawnClose(s) \/ SpawnCleanup(s) \/ SpawnRemove(s)

------------------------------------------------------------------------------
(* collectStreamInit and the exit watcher *)

Watching(s, p) == watcher[s] = p
Watch(s, p) == watcher' = [watcher EXCEPT ![s] = p]
KeepCalls == UNCHANGED <<spawn, say, kill, reaping, worktree>> /\ KeepRun

\* Mutant: a session that failed its first prompt is not closed.
InitSendUnclosed(s) ==
    /\ Watching(s, "send")
    /\ \/ sess[s] = "up" /\ Watch(s, "idle")
       \/ Watch(s, "cleanup")
    /\ UNCHANGED <<row, reg, sess, object, faults, lapse>> /\ KeepCalls

\* The first prompt is answered, or fails (always when the session is gone).
InitSend(s) ==
    /\ Watching(s, "send")
    /\ \/ sess[s] = "up" /\ Watch(s, "idle")
       \/ Watch(s, "close")
    /\ UNCHANGED <<row, reg, sess, object, faults, lapse>> /\ KeepCalls

InitClose(s) ==
    /\ Watching(s, "close")
    /\ Close(s) /\ Watch(s, "cleanup")
    /\ UNCHANGED <<row, reg, object, faults, lapse>> /\ KeepCalls

InitCleanup(s) ==
    /\ Watching(s, "cleanup")
    /\ KillStreamPod(FALSE)
    /\ Watch(s, "fail")
    /\ UNCHANGED <<row, reg>> /\ KeepCalls

\* registry.Remove and transitionAgentToTerminal.
InitFail(s) ==
    /\ Watching(s, "fail")
    /\ reg' = NoSpawn
    /\ MarkIf(Live, "Failed") /\ Watch(s, "over")
    /\ UNCHANGED <<sess, object, faults, lapse>> /\ KeepCalls

\* MarkIdle, then the watcher.  ResumeToken waits for the mutex of a Send.
InitIdle(s) ==
    /\ Watching(s, "idle") /\ ~(say.at = "send" /\ say.of = s)
    /\ MarkIf({"Running"}, "Idle") /\ Watch(s, "watch")
    /\ UNCHANGED <<reg, sess, object, faults, lapse>> /\ KeepCalls

SessionDone(s) ==
    /\ Watching(s, "watch") /\ sess[s] = "gone"
    /\ reg' = NoSpawn /\ Watch(s, "exit")
    /\ UNCHANGED <<row, sess, object, faults, lapse>> /\ KeepCalls

WatcherCleanup(s) ==
    /\ Watching(s, "exit")
    /\ KillStreamPod(row = NoAgentRow)
    /\ Watch(s, "mark")
    /\ UNCHANGED <<row, reg>> /\ KeepCalls

\* Mutant: only a busy agent is marked.
WatcherMarkRunning(s) ==
    /\ Watching(s, "mark")
    /\ MarkIf({"Running"}, "Failed") /\ Watch(s, "over")
    /\ UNCHANGED <<reg, sess, object, faults, lapse>> /\ KeepCalls

WatcherMark(s) ==
    /\ Watching(s, "mark")
    /\ MarkIf(Live, "Failed") /\ Watch(s, "over")
    /\ UNCHANGED <<reg, sess, object, faults, lapse>> /\ KeepCalls

WatcherStep(s) ==
    \/ InitSend(s) \/ InitClose(s) \/ InitCleanup(s) \/ InitFail(s)
    \/ InitIdle(s) \/ SessionDone(s) \/ WatcherCleanup(s) \/ WatcherMark(s)

\* The observer sees a fatal line while a Send reads.
FatalLine(s) ==
    /\ sess[s] = "up" /\ (Watching(s, "send") \/ (say.at = "send" /\ say.of = s))
    /\ row.status \in Live
    /\ MarkIf(Live, "Failed")
    /\ UNCHANGED <<reg, sess, object, watcher, faults, lapse>> /\ KeepCalls

------------------------------------------------------------------------------
(* SayStreamAsync *)

Say(p) == say' = [say EXCEPT !.at = p]
KeepAgents == UNCHANGED <<worktree, reg, sess, object, spawn, watcher, kill, reaping,
                          faults>> /\ KeepRun

SayGet ==
    /\ say.at = "idle" /\ reg # NoSpawn
    /\ say' = [at |-> "find", of |-> reg]
    /\ UNCHANGED <<row, lapse>> /\ KeepAgents

SayFindStream ==
    /\ say.at = "find"
    /\ say' = IF row = NoAgentRow \/ row.status = "Running" THEN Quiet ELSE [say EXCEPT !.at = "mark"]
    /\ UNCHANGED <<row, lapse>> /\ KeepAgents

\* UpdateAgentStatus does not look at the status: a row that ended meanwhile is
\* Running again, and no watcher is left to end it.
SayMarkStream ==
    /\ say.at = "mark"
    /\ Overwrite("Running")
    /\ say' = IF row = NoAgentRow THEN Quiet ELSE [say EXCEPT !.at = "send"]
    /\ UNCHANGED lapse /\ KeepAgents

\* Send: the session's mutex is free once the first prompt is through.
SaySend ==
    /\ say.at = "send" /\ ~Watching(say.of, "send")
    /\ \/ sess[say.of] = "up" /\ Say("answered")
       \/ Say("failed")
    /\ UNCHANGED <<row, lapse>> /\ KeepAgents

\* updateAgentResult writes Idle or Failed, again whatever the row says; Idle
\* over a row whose watcher has ended is not made up for.
SayWrite ==
    /\ say.at \in {"answered", "failed"}
    /\ Overwrite(IF say.at = "answered" THEN "Idle" ELSE "Failed")
    /\ lapse' = (lapse \/ (say.at = "answered" /\ row # NoAgentRow
                           /\ watcher[row.of] \in {"fail", "mark", "over"}))
    /\ say' = Quiet
    /\ KeepAgents

SayStep == SayFindStream \/ SayMarkStream \/ SaySend \/ SayWrite

------------------------------------------------------------------------------
(* LocalControlPlaneClient.Kill and Orchestrator.Kill *)

Kill(p) == kill' = [kill EXCEPT !.at = p]
KeepBut == UNCHANGED <<spawn, watcher, say, reaping>> /\ KeepRun

KillGet ==
    /\ kill.at = "idle" /\ (reg # NoSpawn \/ row # NoAgentRow)
    /\ kill' = IF reg = NoSpawn THEN [at |-> "find", of |-> NoSpawn] ELSE [at |-> "close", of |-> reg]
    /\ UNCHANGED <<row, worktree, reg, sess, object, faults, lapse>> /\ KeepBut

\* Close returns when the session is gone.
KillClose ==
    /\ kill.at = "close"
    /\ Close(kill.of) /\ Kill("find")
    /\ UNCHANGED <<row, worktree, reg, object, faults, lapse>> /\ KeepBut

\* registry.Remove if there was a handle, then FindAgent.
KillFindStream ==
    /\ kill.at = "find"
    /\ reg' = IF kill.of = NoSpawn THEN reg ELSE NoSpawn
    /\ kill' = IF row = NoAgentRow THEN Quiet ELSE [at |-> "pod", of |-> NoSpawn]
    /\ UNCHANGED <<row, worktree, sess, object, faults, lapse>> /\ KeepBut

\* Running, Idle and terminal stream agents all have their pod killed; after
\* this the row goes, and with it the backstop.
KillPod ==
    /\ kill.at = "pod"
    /\ KillStreamPod(TRUE)
    /\ Kill("cleanup")
    /\ UNCHANGED <<row, worktree, reg>> /\ KeepBut

\* The row is marked Stopped, and cleanupAgent removes it with the mailbox and
\* the workspace.
KillCleanup ==
    /\ kill.at = "cleanup"
    /\ row' = NoAgentRow /\ worktree' = FALSE /\ kill' = Quiet
    /\ UNCHANGED <<reg, sess, object, faults, lapse>> /\ KeepBut

KillStep == KillClose \/ KillFindStream \/ KillPod \/ KillCleanup

------------------------------------------------------------------------------
(* The reaper, on Kubernetes: without a stream backend it only logs *)

KeepReap == UNCHANGED <<worktree, reg, spawn, watcher, say, kill>> /\ KeepRun

\* A pass over the state it loaded: an aged agent, or a failed one past its grace.
ReapAged ==
    /\ K8s /\ reaping = "idle" /\ row.status \in Live
    /\ reaping' = "kill"
    /\ UNCHANGED <<row, sess, object, faults, lapse>> /\ KeepReap

ReapKillStream ==
    /\ reaping = "kill"
    /\ \/ Deleted(Object) /\ SessionsWithout(Object) /\ NoFault /\ reaping' = "mark"
       \/ Fault /\ UNCHANGED <<object, sess>> /\ reaping' = "idle"
    /\ UNCHANGED <<row, lapse>> /\ KeepReap

ReapMarkStream ==
    /\ reaping = "mark"
    /\ MarkIf(Live, "Stopped") /\ reaping' = "idle"
    /\ UNCHANGED <<sess, object, faults, lapse>> /\ KeepReap

FailedStreams ==
    /\ K8s /\ reaping = "idle" /\ row.status = "Failed" /\ (\E o \in Object : Exists(o))
    /\ reaping' = "backstop"
    /\ UNCHANGED <<row, sess, object, faults, lapse>> /\ KeepReap

Backstop ==
    /\ reaping = "backstop"
    /\ KillStreamPod(FALSE) /\ reaping' = "idle"
    /\ UNCHANGED row /\ KeepReap

ReapStep == ReapKillStream \/ ReapMarkStream \/ FailedStreams \/ Backstop

------------------------------------------------------------------------------
(* Faults *)

\* The host process ends, or the connection to the pod breaks.
HostEnds(s) ==
    /\ sess[s] = "up"
    /\ Close(s)
    /\ UNCHANGED <<row, worktree, reg, object, spawn, watcher, say, kill, reaping,
                   faults, lapse>> /\ KeepRun

\* The control plane restarts: registry and goroutines are gone, local sessions
\* end with it, pods and rows stay.  What was half made by a spawn or taken
\* down by a kill stays behind, and so does a row nobody watches locally.
StreamRestart ==
    /\ Fault /\ restarted' = TRUE
    /\ reg' = NoSpawn
    /\ sess' = [s \in Spawn |-> IF sess[s] = "up" THEN "gone" ELSE sess[s]]
    /\ lapse' = (lapse \/ (~K8s /\ row # NoAgentRow)
                       \/ (row = NoAgentRow /\ \E o \in Object : Exists(o))
                       \/ (row.status = "Stopped" /\ \E o \in Object : Exists(o)))
    /\ spawn' = [s \in Spawn |-> IF spawn[s] = "idle" THEN "idle" ELSE "over"]
    /\ watcher' = [s \in Spawn |-> IF watcher[s] = "none" THEN "none" ELSE "over"]
    /\ say' = Quiet /\ kill' = Quiet /\ reaping' = "idle"
    /\ UNCHANGED <<backend, row, worktree, object>>

\* A lapse ends the behaviour: nothing is claimed after it.
StreamNext ==
    /\ ~lapse
    /\ \/ \E s \in Spawn : \/ ResolveFails(s) \/ SpawnCheck(s) \/ SpawnStep(s) \/ WatcherStep(s)
                          \/ FatalLine(s) \/ HostEnds(s)
       \/ SayGet \/ SayStep
       \/ KillGet \/ KillStep
       \/ ReapAged \/ ReapStep
       \/ StreamRestart

\* Goroutines are scheduled and the reaper ticks.  Age only counts after a
\* restart, when max_age is all that is left to end an agent.  sync.Mutex does
\* not starve ResumeToken behind a row of follow-ups, hence SF.
StreamFairness ==
    /\ \A s \in Spawn : WF_streamVars(SpawnStep(s)) /\ SF_streamVars(WatcherStep(s))
    /\ WF_streamVars(SayStep) /\ WF_streamVars(KillStep) /\ WF_streamVars(ReapStep)
    /\ WF_streamVars(restarted /\ ReapAged)

StreamSpec == StreamInit /\ [][StreamNext]_streamVars /\ StreamFairness

------------------------------------------------------------------------------
(* Properties *)

\* A session is never lost sight of: as long as it is up, the registry has it,
\* its spawn is still at work, or its goroutine will close it or waits for its
\* end.  And the registry never hands out the session of another agent than
\* the row's.
NoStraySession ==
    \A s \in Spawn :
        /\ sess[s] = "up" =>
              reg = s \/ spawn[s] # "over" \/ watcher[s] \in {"send", "idle", "watch", "close"}
        /\ reg = s /\ row.status \in Live => row.of = s

\* When a session has ended or a spawn failed before it had one, no agent is
\* shown as Running or Idle for it for ever, and its pod, ConfigMap and Secret
\* do not stay, even when a call to Kubernetes fails or the control plane
\* restarts on the way.  Excepted are the cases recorded as lapse.
StreamSettles ==
    <>[](\A s \in Spawn :
        sess[s] # "up" /\ spawn[s] = "over" =>
            \/ lapse
            \/ /\ ~(row.of = s /\ row.status \in Live)
               /\ \A o \in Object : object[o] # s)
===============================================================================
