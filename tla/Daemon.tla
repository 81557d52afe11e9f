------------------------------- MODULE Daemon -------------------------------
(***************************************************************************)
(* The processes of one project: `controlplane start`, which builds the    *)
(* control plane, binds the API port, supervises the gateway subprocess    *)
(* and writes its PID file last; `controlplane stop` and `status`; and the *)
(* commands that start a daemon when none runs (ensureDaemonRunning).      *)
(* They share nothing but the PID file, two TCP ports and signals.         *)
(*                                                                         *)
(* Ports and signals are the operating system's: a port has one owner and  *)
(* is free when its process is gone; SIGTERM ends a process that has not   *)
(* asked for it at once, without its deferred calls.  PIDs are not reused. *)
(***************************************************************************)
EXTENDS Naturals, FiniteSets

CONSTANTS
    Daemon,       \* processes of `controlplane start`: numbers, in the order of
                  \* their start
    MaxCrash      \* bound: spontaneous exits of gateways

ASSUME DaemonAssumption == Daemon \subseteq Nat \ {0} /\ MaxCrash \in Nat

VARIABLES
    pidfile,      \* the process the PID file names, or NoPid
    proc,         \* where each daemon stands
    open,         \* the stores it has open
    reaping,      \* its reaper runs
    api,          \* owner of the API port
    watched,      \* a client holds a watch stream of the API
    gw,           \* the gateway subprocess of each daemon
    gwsig,        \* the signal sent to it
    gport,        \* the daemon whose gateway has the gateway port
    sup,          \* where its supervisor stands
    cancelled,    \* the supervisor's context is cancelled
    crashes,
    client,       \* ensureDaemonRunning, or status
    stopper,      \* `controlplane stop`
    killed,       \* daemons that ended without their deferred calls
    unlinked      \* a stale PID file was removed when it was no longer stale

daemonVars == <<pidfile, proc, open, reaping, api, watched, gw, gwsig, gport, sup,
                cancelled, crashes, client, stopper, killed, unlinked>>

NoPid == 0
Store == {"store", "registry", "queue"}
Starting == {"check", "unlink", "store", "registry", "queue", "api", "gateway",
             "health", "pid"}
Stopping == {"remove", "gateway stop", "api stop", "close reaper", "close"}
Alive(d) == proc[d] \in Starting \cup {"ready"} \cup Stopping
Busy(at, d) == [at |-> at, of |-> d]
Rest == Busy("idle", NoPid)

DaemonTypeOK ==
    /\ pidfile \in Daemon \cup {NoPid}
    /\ proc \in [Daemon -> {"none", "gone", "ready"} \cup Starting \cup Stopping]
    /\ open \in [Daemon -> SUBSET Store]
    /\ reaping \in [Daemon -> BOOLEAN]
    /\ api \in Daemon \cup {NoPid} /\ watched \in BOOLEAN
    /\ gw \in [Daemon -> {"none", "booting", "serving", "exited"}]
    /\ gwsig \in [Daemon -> {"none", "term", "kill"}]
    /\ gport \in Daemon \cup {NoPid}
    /\ sup \in [Daemon -> {"none", "watch", "backoff", "restart", "health", "drain",
                           "reap", "done"}]
    /\ cancelled \in [Daemon -> BOOLEAN]
    /\ crashes \in 0..MaxCrash
    /\ client \in {"idle", "unlink", "spawn"}
    /\ stopper \in [at : {"idle", "signal", "poll", "unlink"}, of : Daemon \cup {NoPid}]
    /\ killed \subseteq Daemon /\ unlinked \in BOOLEAN

DaemonInit ==
    /\ pidfile = NoPid
    /\ proc = [d \in Daemon |-> "none"]
    /\ open = [d \in Daemon |-> {}]
    /\ reaping = [d \in Daemon |-> FALSE]
    /\ api = NoPid /\ watched = FALSE
    /\ gw = [d \in Daemon |-> "none"] /\ gwsig = [d \in Daemon |-> "none"]
    /\ gport = NoPid
    /\ sup = [d \in Daemon |-> "none"] /\ cancelled = [d \in Daemon |-> FALSE]
    /\ crashes = 0
    /\ client = "idle" /\ stopper = Rest
    /\ killed = {} /\ unlinked = FALSE

At(d, p) == proc[d] = p
Go(d, p) == proc' = [proc EXCEPT ![d] = p]
KeepCommands == UNCHANGED <<client, stopper, killed, unlinked>>
KeepGateway == UNCHANGED <<gw, gwsig, gport, sup, cancelled, crashes>>
KeepPlane == UNCHANGED <<open, reaping, api, watched>>

------------------------------------------------------------------------------
(* The PID file *)

\* readPIDFile and isProcessRunning, which is one look; removing a stale file
\* is another, and removes whatever is there by then.
Running == pidfile # NoPid /\ Alive(pidfile)
Stale == pidfile # NoPid /\ ~Alive(pidfile)

RemovePidFile ==
    /\ pidfile' = NoPid
    /\ unlinked' = (unlinked \/ Running)

WritePidFile(d) == pidfile' = d

------------------------------------------------------------------------------
(* controlplane start *)

NotStarted(d) == At(d, "none") /\ \A e \in Daemon : e < d => ~At(e, "none")

LookForDaemon(d) ==
    /\ Go(d, IF Running THEN "gone" ELSE IF Stale THEN "unlink" ELSE "store")
    /\ UNCHANGED pidfile /\ KeepPlane /\ KeepGateway /\ KeepCommands

\* Started by hand, or by ensureDaemonRunning.
Begin(d) == NotStarted(d) /\ LookForDaemon(d)
IsDaemonRunning(d) == At(d, "check") /\ LookForDaemon(d)

UnlinkStale(d) ==
    /\ At(d, "unlink") /\ Go(d, "store")
    /\ RemovePidFile
    /\ KeepPlane /\ KeepGateway /\ UNCHANGED <<client, stopper, killed>>

\* Opens s, or fails and closes what was opened before.
Acquire(d, s, next) ==
    /\ At(d, s)
    /\ \/ Go(d, next) /\ open' = [open EXCEPT ![d] = @ \cup {s}]
       \/ Go(d, "gone") /\ open' = [open EXCEPT ![d] = {}]
    /\ UNCHANGED <<pidfile, api, watched>> /\ KeepGateway /\ KeepCommands

BuildStore(d) == Acquire(d, "store", "registry") /\ UNCHANGED reaping
BuildRegistryStore(d) == Acquire(d, "registry", "queue") /\ UNCHANGED reaping

\* With the queue everything is there that the reaper uses; it runs from here on.
BuildQueue(d) ==
    /\ Acquire(d, "queue", "api")
    /\ reaping' = [reaping EXCEPT ![d] = (open'[d] # {})]

\* Mutant: the PID file is written before the port is bound.
StartAPIAfterPid(d) ==
    /\ At(d, "api")
    /\ \/ api = NoPid /\ api' = d /\ Go(d, "gateway") /\ pidfile' = d
       \/ Go(d, "close reaper") /\ pidfile' = NoPid /\ UNCHANGED api
    /\ UNCHANGED <<open, reaping, watched>> /\ KeepGateway /\ KeepCommands

\* HTTPServer.Start returns once the listener is bound.
Bind(d) == api = NoPid /\ api' = d

\* A second daemon fails here, and its deferred cp.Close runs.
StartAPI(d) ==
    /\ At(d, "api")
    /\ \/ Bind(d) /\ Go(d, "gateway")
       \/ Go(d, "close reaper") /\ UNCHANGED api
    /\ UNCHANGED <<pidfile, open, reaping, watched>> /\ KeepGateway /\ KeepCommands

\* gatewaySupervisor.Start: the subprocess, in a process group of its own.
StartGateway(d) ==
    /\ At(d, "gateway")
    /\ \/ Go(d, "health") /\ gw' = [gw EXCEPT ![d] = "booting"] /\ UNCHANGED sup
       \/ Go(d, "pid") /\ sup' = [sup EXCEPT ![d] = "done"] /\ UNCHANGED gw
    /\ UNCHANGED <<pidfile, gwsig, gport, cancelled, crashes>> /\ KeepPlane /\ KeepCommands

\* The port answers, whoever serves it; or the time is up, and the subprocess
\* is killed and reaped: no gateway from then on.
WaitHealthy(d) ==
    /\ At(d, "health")
    /\ \/ /\ gport # NoPid
          /\ Go(d, "pid") /\ sup' = [sup EXCEPT ![d] = "watch"]
          /\ UNCHANGED <<gw, gwsig, gport>>
       \/ /\ Go(d, "pid") /\ sup' = [sup EXCEPT ![d] = "done"]
          /\ gw' = [gw EXCEPT ![d] = "none"]
          /\ gport' = IF gport = d THEN NoPid ELSE gport
          /\ UNCHANGED gwsig
    /\ UNCHANGED <<pidfile, cancelled, crashes>> /\ KeepPlane /\ KeepCommands

\* Last of all the PID file; then SIGTERM is asked for.  Without it the start
\* has failed.
Ready(d) ==
    /\ At(d, "pid")
    /\ \/ Go(d, "ready") /\ WritePidFile(d)
       \/ Go(d, "gateway stop") /\ UNCHANGED pidfile
    /\ KeepPlane /\ KeepGateway /\ KeepCommands

------------------------------------------------------------------------------
(* The deferred calls of a daemon that was told to end *)

RemoveOwnPidFile(d) ==
    /\ At(d, "remove") /\ Go(d, "gateway stop")
    /\ pidfile' = NoPid
    /\ KeepPlane /\ KeepGateway /\ KeepCommands

\* Mutant: Stop signals the gateway and does not keep it from being restarted.
StopGatewayUncancelled(d) ==
    /\ At(d, "gateway stop") /\ gwsig[d] = "none" /\ gw[d] \in {"booting", "serving"}
    /\ gwsig' = [gwsig EXCEPT ![d] = "term"]
    /\ UNCHANGED <<pidfile, proc, gw, gport, sup, cancelled, crashes>> /\ KeepPlane /\ KeepCommands

\* gatewaySupervisor.Stop: cancel, SIGTERM, wait for done.  Not deferred when
\* the gateway could not be started.
StopGateway(d) ==
    /\ At(d, "gateway stop") /\ ~cancelled[d] /\ sup[d] # "done"
    /\ cancelled' = [cancelled EXCEPT ![d] = TRUE]
    /\ gwsig' = [gwsig EXCEPT ![d] = IF gw[d] \in {"booting", "serving"} /\ @ = "none" THEN "term" ELSE @]
    /\ UNCHANGED <<pidfile, proc, gw, gport, sup, crashes>> /\ KeepPlane /\ KeepCommands

\* workerCancel follows and does not wait for the workers.
GatewayStopped(d) ==
    /\ At(d, "gateway stop") /\ sup[d] = "done" /\ Go(d, "api stop")
    /\ UNCHANGED pidfile /\ KeepPlane /\ KeepGateway /\ KeepCommands

\* Shutdown waits for the requests in progress, without a deadline: a watch
\* stream keeps it waiting.
ShutdownAPI(d) ==
    /\ At(d, "api stop") /\ ~watched /\ Go(d, "close reaper")
    /\ api' = NoPid
    /\ UNCHANGED <<pidfile, open, reaping, watched>> /\ KeepGateway /\ KeepCommands

\* Mutant: the reaper is told to stop and not waited for.
CloseReaperUnawaited(d) ==
    /\ At(d, "close reaper") /\ Go(d, "close")
    /\ UNCHANGED <<pidfile, open, reaping, api, watched>> /\ KeepGateway /\ KeepCommands

\* cp.Close: the admission controller is only told to stop, the reaper is
\* waited for, then queue, registry and store are closed.
CloseReaper(d) ==
    /\ At(d, "close reaper") /\ Go(d, "close")
    /\ reaping' = [reaping EXCEPT ![d] = FALSE]
    /\ UNCHANGED <<pidfile, open, api, watched>> /\ KeepGateway /\ KeepCommands

CloseStores(d) ==
    /\ At(d, "close")
    /\ IF open[d] = {} THEN Go(d, "gone") /\ UNCHANGED open
       ELSE open' = [open EXCEPT ![d] = {}] /\ UNCHANGED proc
    /\ UNCHANGED <<pidfile, reaping, api, watched>> /\ KeepGateway /\ KeepCommands

------------------------------------------------------------------------------
(* The supervisor goroutine and the gateway process *)

Sup(d, p) == sup' = [sup EXCEPT ![d] = p]
KeepDaemon == UNCHANGED <<pidfile, proc>> /\ KeepPlane /\ KeepCommands

\* The gateway binds its port, or exits because it is taken.
GatewayBoots(d) ==
    /\ gw[d] = "booting"
    /\ IF gport = NoPid THEN gw' = [gw EXCEPT ![d] = "serving"] /\ gport' = d
                        ELSE gw' = [gw EXCEPT ![d] = "exited"] /\ UNCHANGED gport
    /\ UNCHANGED <<gwsig, sup, cancelled, crashes>> /\ KeepDaemon

GatewayGone(d) ==
    /\ gw[d] \in {"booting", "serving"}
    /\ gw' = [gw EXCEPT ![d] = "exited"]
    /\ gport' = IF gport = d THEN NoPid ELSE gport
    /\ gwsig' = [gwsig EXCEPT ![d] = "none"]

GatewayCrashes(d) ==
    /\ gwsig[d] = "none" /\ crashes < MaxCrash /\ crashes' = crashes + 1
    /\ GatewayGone(d)
    /\ UNCHANGED <<sup, cancelled>> /\ KeepDaemon

\* A gateway gives its requests 30 seconds.
GatewayObeys(d) ==
    /\ gwsig[d] # "none" /\ GatewayGone(d)
    /\ UNCHANGED <<sup, cancelled, crashes>> /\ KeepDaemon

\* supervise: the process exited, or the context is done.
SuperviseExit(d) ==
    /\ sup[d] = "watch" /\ gw[d] = "exited"
    /\ Sup(d, IF cancelled[d] THEN "done" ELSE "backoff")
    /\ UNCHANGED <<gw, gwsig, gport, cancelled, crashes>> /\ KeepDaemon

SuperviseStop(d) ==
    /\ cancelled[d]
    /\ \/ sup[d] = "watch" /\ Sup(d, "drain")
       \/ sup[d] = "backoff" /\ Sup(d, "done")
    /\ UNCHANGED <<gw, gwsig, gport, cancelled, crashes>> /\ KeepDaemon

Backoff(d) ==
    /\ sup[d] = "backoff" /\ Sup(d, "restart")
    /\ UNCHANGED <<gw, gwsig, gport, cancelled, crashes>> /\ KeepDaemon

\* Mutant: the supervisor goes back to waiting for the old process.
RestartWithoutStart(d) ==
    /\ sup[d] = "restart" /\ Sup(d, "health")
    /\ UNCHANGED <<gw, gwsig, gport, cancelled, crashes>> /\ KeepDaemon

\* A restart that fails ends the supervision.
Restart(d) ==
    /\ sup[d] = "restart"
    /\ \/ Sup(d, "health") /\ gw' = [gw EXCEPT ![d] = "booting"] /\ gwsig' = [gwsig EXCEPT ![d] = "none"]
       \/ Sup(d, "done") /\ UNCHANGED <<gw, gwsig>>
    /\ UNCHANGED <<gport, cancelled, crashes>> /\ KeepDaemon

\* Healthy; or not in time, or cancelled: SIGKILL, Wait, and no more restarts.
RestartHealthy(d) ==
    /\ sup[d] = "health"
    /\ \/ gport # NoPid /\ ~cancelled[d] /\ Sup(d, "watch") /\ UNCHANGED gwsig
       \/ Sup(d, "reap") /\ gwsig' = [gwsig EXCEPT ![d] = "kill"]
    /\ UNCHANGED <<gw, gport, cancelled, crashes>> /\ KeepDaemon

\* Shutdown: five seconds, then SIGKILL.
Drain(d) ==
    /\ sup[d] = "drain"
    /\ \/ gw[d] = "exited" /\ Sup(d, "done") /\ UNCHANGED gwsig
       \/ gw[d] # "exited" /\ Sup(d, "reap") /\ gwsig' = [gwsig EXCEPT ![d] = "kill"]
    /\ UNCHANGED <<gw, gport, cancelled, crashes>> /\ KeepDaemon

Reaped(d) ==
    /\ sup[d] = "reap" /\ gw[d] = "exited" /\ Sup(d, "done")
    /\ UNCHANGED <<gw, gwsig, gport, cancelled, crashes>> /\ KeepDaemon

Supervise(d) ==
    Alive(d) /\ (SuperviseExit(d) \/ SuperviseStop(d) \/ Backoff(d) \/ Restart(d)
                 \/ RestartHealthy(d) \/ Drain(d) \/ Reaped(d))

------------------------------------------------------------------------------
(* Signals *)

\* Without deferred calls: the PID file and the gateway stay.
Dies(d) ==
    /\ Go(d, "gone")
    /\ open' = [open EXCEPT ![d] = {}] /\ reaping' = [reaping EXCEPT ![d] = FALSE]
    /\ api' = IF api = d THEN NoPid ELSE api
    /\ watched' = (watched /\ api # d)
    /\ sup' = [sup EXCEPT ![d] = "done"] /\ cancelled' = [cancelled EXCEPT ![d] = TRUE]
    /\ killed' = killed \cup {d}

\* The first SIGTERM of a ready daemon begins its deferred calls; one before
\* or after that ends it where it stands.
Sigterm(d) ==
    IF At(d, "ready") THEN Go(d, "remove") /\ UNCHANGED <<open, reaping, api, watched, sup, cancelled, killed>>
    ELSE Dies(d)

\* Somebody else's kill, a terminal that is closed, the out-of-memory killer.
Signalled(d) ==
    /\ Alive(d)
    /\ Sigterm(d) \/ Dies(d)
    /\ UNCHANGED <<pidfile, gw, gwsig, gport, crashes, client, stopper, unlinked>>

------------------------------------------------------------------------------
(* controlplane stop, and the commands that need a daemon *)

KeepOthers == UNCHANGED <<gw, gwsig, gport, crashes, client>>
KeepProcs == UNCHANGED <<proc, open, reaping, api, watched, sup, cancelled, killed>>

StopRead ==
    /\ stopper.at = "idle" /\ pidfile # NoPid
    /\ stopper' = Busy(IF Running THEN "signal" ELSE "unlink", pidfile)
    /\ UNCHANGED <<pidfile, unlinked>> /\ KeepProcs /\ KeepOthers

StopSignal ==
    /\ stopper.at = "signal"
    /\ IF Alive(stopper.of) THEN Sigterm(stopper.of) /\ stopper' = [stopper EXCEPT !.at = "poll"]
                            ELSE KeepProcs /\ stopper' = Rest
    /\ UNCHANGED <<pidfile, unlinked>> /\ KeepOthers

\* Three seconds; then SIGKILL, however far the deferred calls are.
StopPoll ==
    /\ stopper.at = "poll"
    /\ stopper' = [stopper EXCEPT !.at = "unlink"]
    /\ IF Alive(stopper.of) THEN Dies(stopper.of) ELSE KeepProcs
    /\ UNCHANGED <<pidfile, unlinked>> /\ KeepOthers

StopUnlink ==
    /\ stopper.at = "unlink" /\ stopper' = Rest
    /\ RemovePidFile
    /\ KeepProcs /\ KeepOthers

StopStep == StopSignal \/ StopPoll \/ StopUnlink

KeepAll == UNCHANGED <<open, reaping, api, killed, watched, stopper>> /\ KeepGateway

\* ensureDaemonRunning (status does no more than the first two steps).
EnsureRead ==
    /\ client = "idle" /\ ~Running
    /\ client' = IF Stale THEN "unlink" ELSE "spawn"
    /\ UNCHANGED <<pidfile, proc, unlinked>> /\ KeepAll

EnsureUnlink ==
    /\ client = "unlink" /\ client' = "spawn"
    /\ RemovePidFile
    /\ UNCHANGED proc /\ KeepAll

\* The child is not waited for.  From here on the command only asks the API
\* port, of whichever daemon, for its health.
EnsureSpawn ==
    /\ client = "spawn" /\ client' = "idle"
    /\ \E d \in Daemon : NotStarted(d) /\ Go(d, "check")
    /\ UNCHANGED <<pidfile, unlinked>> /\ KeepAll

\* A watch stream is opened, unless Shutdown has closed the listener, and ends
\* when its client or the daemon does.
Watch ==
    /\ IF watched THEN watched' = FALSE
       ELSE \E d \in Daemon : api = d /\ ~At(d, "api stop") /\ watched' = TRUE
    /\ UNCHANGED <<pidfile, proc, open, reaping, api>> /\ KeepGateway /\ KeepCommands

------------------------------------------------------------------------------
DaemonStep(d) ==
    \/ IsDaemonRunning(d) \/ UnlinkStale(d)
    \/ BuildStore(d) \/ BuildRegistryStore(d) \/ BuildQueue(d)
    \/ StartAPI(d) \/ StartGateway(d) \/ WaitHealthy(d) \/ Ready(d)
    \/ RemoveOwnPidFile(d) \/ StopGateway(d) \/ GatewayStopped(d)
    \/ ShutdownAPI(d) \/ CloseReaper(d) \/ CloseStores(d)

GatewayStep(d) == GatewayBoots(d) \/ GatewayObeys(d)

DaemonNext ==
    \/ \E d \in Daemon : \/ Begin(d) \/ DaemonStep(d) \/ Supervise(d)
                         \/ GatewayStep(d) \/ GatewayCrashes(d) \/ Signalled(d)
    \/ StopRead \/ StopStep
    \/ EnsureRead \/ EnsureUnlink \/ EnsureSpawn
    \/ Watch

\* Processes and goroutines are scheduled, and a gateway that got a signal
\* exits; nobody is obliged to end a watch stream.
DaemonFairness ==
    /\ \A d \in Daemon : /\ WF_daemonVars(DaemonStep(d)) /\ WF_daemonVars(Supervise(d))
                         /\ WF_daemonVars(GatewayStep(d))
    /\ WF_daemonVars(StopStep)

DaemonSpec == DaemonInit /\ [][DaemonNext]_daemonVars /\ DaemonFairness

------------------------------------------------------------------------------
(* Properties *)

\* However many start, status, stop and auto-starting commands race, a daemon
\* that is up can be found and stopped: the PID file names it.  The exception
\* is the stale file that was replaced between a look at it and its removal
\* (controlplane.go:136), recorded in unlinked.
KnownDaemon ==
    \A d \in Daemon : At(d, "ready") => pidfile = d \/ unlinked

\* Nothing that a daemon serves or sweeps with outlives what it uses: the API's
\* requests and the reaper only run while all stores are open, in whichever
\* place the start fails or the stop interrupts it.
StoresOutliveUsers ==
    \A d \in Daemon : api = d \/ reaping[d] => open[d] = Store

\* A daemon that was told to stop ends, and its gateway with it, unless it was
\* killed before it could tell the gateway, or a watch stream holds it and no
\* stop command is there to kill it.
StopCompletes ==
    <>[](\A d \in Daemon :
        /\ proc[d] \in Stopping => At(d, "api stop") /\ watched
        /\ At(d, "gone") => gw[d] \in {"none", "exited"} \/ (d \in killed /\ gwsig[d] = "none"))

\* A gateway that exited is served again as long as its daemon stays, unless
\* the supervisor gave up or a gateway of another daemon has the port.
GatewayComesBack ==
    <>[](\A d \in Daemon :
        At(d, "ready") /\ sup[d] # "done" => gw[d] = "serving" \/ gport \notin {d, NoPid})

\* What the other processes rely on (runForeground): the file names the daemon
\* and what serves has its stores.
DaemonSound == KnownDaemon /\ StoresOutliveUsers

\* What waits for the daemon is answered: a stop ends it, and a gateway that
\* exited is started again (Supervisor, stopDaemon).
DaemonResponds == StopCompletes /\ GatewayComesBack
=============================================================================
