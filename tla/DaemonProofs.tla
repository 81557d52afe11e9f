---------------------------- MODULE DaemonProofs ----------------------------
(***************************************************************************)
(* A daemon that is up is named by the PID file, and what it serves or     *)
(* sweeps with has its stores open: for any number of daemons, gateways    *)
(* that crash, and commands that start, look and stop at once.  In the     *)
(* gateway no denied tool is called and the visible set is current once a  *)
(* pass has seen the registry, for any servers, tools, agents and faults.  *)
(***************************************************************************)
EXTENDS Daemon, ToolGateway, TLAPS

\* Where a daemon owns the API port, and where it has every store open.
Holding    == {"gateway", "health", "pid", "ready", "remove", "gateway stop", "api stop"}
StoresOpen == Holding \cup {"api", "close reaper"}

\* The port has the owner that stands where it is held, and no other.
PortOwned == \A d \in Daemon : api = d <=> proc[d] \in Holding

\* What is open where a daemon stands (runForeground's order of opening).
StoresInOrder ==
    \A d \in Daemon :
        /\ proc[d] \in {"none", "check", "unlink", "store"} => open[d] = {}
        /\ proc[d] = "registry" => open[d] = {"store"}
        /\ proc[d] = "queue"    => open[d] = {"store", "registry"}
        /\ proc[d] \in StoresOpen => open[d] = Store

\* The reaper's goroutine lives from NewReaper to the wait in cp.Close.
ReapsWhileBuilt == \A d \in Daemon : reaping[d] => proc[d] \in StoresOpen

\* A stop command remembers the process it read.
StopperKnows == stopper.at # "idle" => stopper.of \in Daemon

DaemonInv == DaemonTypeOK /\ PortOwned /\ StoresInOrder /\ ReapsWhileBuilt
             /\ StopperKnows /\ KnownDaemon

Places == {"none", "gone", "ready"} \cup Starting \cup Stopping

\* No place is two places of a start or a stop.
LEMMA Apart ==
    /\ StoresOpen \subseteq Places /\ Holding \subseteq StoresOpen
    /\ "none" \notin StoresOpen /\ "gone" \notin StoresOpen /\ "check" \notin StoresOpen
    /\ "unlink" \notin StoresOpen /\ "store" \notin StoresOpen /\ "registry" \notin StoresOpen
    /\ "queue" \notin StoresOpen /\ "close" \notin StoresOpen
    /\ "api" \notin Holding /\ "close reaper" \notin Holding
    BY DEF StoresOpen, Holding, Places, Starting, Stopping

\* A daemon is a process, never the absent PID.
LEMMA DaemonsAreProcesses == NoPid \notin Daemon
    BY DaemonAssumption DEF NoPid

\* The daemon the port or the PID file stands for is unique: two ready daemons
\* would both own the port.
LEMMA OneHolder ==
    ASSUME DaemonInv, NEW d \in Daemon, NEW e \in Daemon,
           proc[d] \in Holding, proc[e] \in Holding
    PROVE  d = e
    BY DEF DaemonInv, PortOwned

\* A step of one daemon that opens or closes stores, or moves along, keeps the
\* invariant when the place it reaches fits what it left (runForeground).
LEMMA Moves ==
    ASSUME DaemonInv, NEW d \in Daemon, NEW p \in Places,
           proc' = [proc EXCEPT ![d] = p],
           DaemonTypeOK', StopperKnows',
           \A e \in Daemon \ {d} : open'[e] = open[e] /\ reaping'[e] = reaping[e],
           \A e \in Daemon \ {d} : api' = e <=> api = e,
           api' = d <=> p \in Holding,
           p \in {"none", "check", "unlink", "store"} => open'[d] = {},
           p = "registry" => open'[d] = {"store"},
           p = "queue" => open'[d] = {"store", "registry"},
           p \in StoresOpen => open'[d] = Store,
           reaping'[d] => p \in StoresOpen,
           KnownDaemon'
    PROVE  DaemonInv'
<1>. DEFINE Same == \A e \in Daemon \ {d} : proc'[e] = proc[e]
<1>1. proc'[d] = p /\ Same
    BY DEF DaemonInv, DaemonTypeOK
<1>2. PortOwned'
    BY <1>1 DEF DaemonInv, PortOwned
<1>3. StoresInOrder'
    <2>. SUFFICES ASSUME NEW e \in Daemon
                  PROVE  /\ proc'[e] \in {"none", "check", "unlink", "store"} => open'[e] = {}
                         /\ proc'[e] = "registry" => open'[e] = {"store"}
                         /\ proc'[e] = "queue"    => open'[e] = {"store", "registry"}
                         /\ proc'[e] \in StoresOpen => open'[e] = Store
        BY DEF StoresInOrder
    <2>1. CASE e = d
        BY <1>1, <2>1
    <2>2. CASE e # d
        BY <1>1, <2>2 DEF DaemonInv, StoresInOrder
    <2>. QED
        BY <2>1, <2>2
<1>4. ReapsWhileBuilt'
    BY <1>1 DEF DaemonInv, ReapsWhileBuilt
<1>. QED
    BY <1>2, <1>3, <1>4 DEF DaemonInv

\* Removing the PID file is harmless, or it is recorded that it was not.
LEMMA RemovalIsRecorded ==
    ASSUME DaemonInv, RemovePidFile,
           \A e \in Daemon : proc'[e] = "ready" => proc[e] = "ready"
    PROVE  KnownDaemon'
<1>. SUFFICES ASSUME NEW e \in Daemon, proc'[e] = "ready" PROVE unlinked'
    BY DEF KnownDaemon, At
<1>1. pidfile = e \/ unlinked
    BY DEF DaemonInv, KnownDaemon, At
<1>2. ASSUME pidfile = e PROVE Running
    BY <1>2, DaemonsAreProcesses DEF Running, Alive
<1>. QED
    BY <1>1, <1>2, Zenon DEF RemovePidFile

\* Keeping the PID file and making no daemon ready keeps it known.
LEMMA KnownKept ==
    ASSUME DaemonInv, pidfile' = pidfile, unlinked' = unlinked,
           \A e \in Daemon : proc'[e] = "ready" => proc[e] = "ready"
    PROVE  KnownDaemon'
    BY DEF DaemonInv, KnownDaemon, At

\* A process that ends without its deferred calls leaves its port, its stores
\* and its goroutines to the operating system.
LEMMA DyingKeeps ==
    ASSUME DaemonInv, NEW d \in Daemon, Dies(d), DaemonTypeOK', StopperKnows', KnownDaemon'
    PROVE  DaemonInv'
<1>1. "gone" \in Places
    BY DEF Places
<1>2. /\ proc' = [proc EXCEPT ![d] = "gone"]
      /\ open'[d] = {} /\ ~reaping'[d]
      /\ \A e \in Daemon \ {d} : open'[e] = open[e] /\ reaping'[e] = reaping[e]
    BY DEF Dies, Go, DaemonInv, DaemonTypeOK
<1>3. api' = (IF api = d THEN NoPid ELSE api)
    BY DEF Dies
<1>4. api' # d /\ \A e \in Daemon \ {d} : api' = e <=> api = e
    BY <1>3, DaemonsAreProcesses
<1>. QED
    BY <1>1, <1>2, <1>4, Apart, Moves

\* The bound on the gateways' spontaneous exits.
LEMMA OneMoreCrash ==
    ASSUME crashes \in 0..MaxCrash, crashes < MaxCrash
    PROVE  crashes + 1 \in 0..MaxCrash
    BY DaemonAssumption

\* Type correctness, and the stop command's memory of whom it stops: every
\* process, port, signal and goroutine is in a state the code has.
THEOREM DaemonTypeCorrect == DaemonSpec => [](DaemonTypeOK /\ StopperKnows)
<1>. USE DEF Go, At, Sup, KeepPlane, KeepGateway, KeepCommands, KeepDaemon, Starting, Stopping
<1>1. DaemonInit => DaemonTypeOK /\ StopperKnows
  <2>. SUFFICES ASSUME DaemonInit PROVE DaemonTypeOK /\ StopperKnows
    OBVIOUS
  <2>1. stopper \in [at : {"idle", "signal", "poll", "unlink"}, of : Daemon \cup {NoPid}] /\ StopperKnows
    BY DEF DaemonInit, Rest, Busy, StopperKnows
  <2>2. watched \in BOOLEAN /\ unlinked \in BOOLEAN
    BY Zenon DEF DaemonInit
  <2>3. /\ reaping \in [Daemon -> BOOLEAN] /\ cancelled \in [Daemon -> BOOLEAN]
        /\ open \in [Daemon -> SUBSET Store]
    BY DEF DaemonInit
  <2>4. crashes \in 0..MaxCrash
    BY DaemonAssumption DEF DaemonInit
  <2>. QED
    BY <2>1, <2>2, <2>3, <2>4 DEF DaemonInit, DaemonTypeOK
<1>2. DaemonTypeOK /\ StopperKnows /\ [DaemonNext]_daemonVars => DaemonTypeOK' /\ StopperKnows'
  <2>. SUFFICES ASSUME DaemonTypeOK, StopperKnows, [DaemonNext]_daemonVars
                PROVE  DaemonTypeOK' /\ StopperKnows'
    OBVIOUS
  <2>. USE DEF DaemonTypeOK, StopperKnows, Store
  <2>0. RemovePidFile => pidfile' = NoPid /\ unlinked' \in BOOLEAN
    BY Zenon DEF RemovePidFile, Running
  <2>0a. ASSUME NEW d \in Daemon, NEW s \in Store, NEW p \in {"registry", "queue", "api"},
                Acquire(d, s, p)
         PROVE  proc' \in [Daemon -> Places] /\ open' \in [Daemon -> SUBSET Store]
    <3>1. \A q \in {p, "gone"} : [proc EXCEPT ![d] = q] \in [Daemon -> Places]
      BY DEF Places
    <3>2. /\ [open EXCEPT ![d] = open[d] \cup {s}] \in [Daemon -> SUBSET Store]
          /\ [open EXCEPT ![d] = {}] \in [Daemon -> SUBSET Store]
      OBVIOUS
    <3>. QED
      BY <2>0a, <3>1, <3>2, ZenonT(60) DEF Acquire
  <2>1. ASSUME NEW d \in Daemon, LookForDaemon(d) PROVE DaemonTypeOK' /\ StopperKnows'
    BY <2>0, <2>1, DaemonAssumption, ZenonT(60) DEF LookForDaemon
  <2>2. ASSUME NEW d \in Daemon, UnlinkStale(d) PROVE DaemonTypeOK' /\ StopperKnows'
    BY <2>0, <2>2, DaemonAssumption, ZenonT(60) DEF UnlinkStale
  <2>3. ASSUME NEW d \in Daemon, BuildStore(d) PROVE DaemonTypeOK' /\ StopperKnows'
    <3>1. proc' \in [Daemon -> Places] /\ open' \in [Daemon -> SUBSET Store]
      BY <2>0a, <2>3 DEF BuildStore
    <3>. QED
      BY <2>3, <3>1 DEF BuildStore, Acquire, Places
  <2>4. ASSUME NEW d \in Daemon, BuildRegistryStore(d) PROVE DaemonTypeOK' /\ StopperKnows'
    <3>1. proc' \in [Daemon -> Places] /\ open' \in [Daemon -> SUBSET Store]
      BY <2>0a, <2>4 DEF BuildRegistryStore
    <3>. QED
      BY <2>4, <3>1 DEF BuildRegistryStore, Acquire, Places
  <2>5. ASSUME NEW d \in Daemon, BuildQueue(d) PROVE DaemonTypeOK' /\ StopperKnows'
    <3>1. proc' \in [Daemon -> Places] /\ open' \in [Daemon -> SUBSET Store]
      BY <2>0a, <2>5 DEF BuildQueue
    <3>2. (open'[d] # {}) \in BOOLEAN
      OBVIOUS
    <3>3. reaping' \in [Daemon -> BOOLEAN]
      BY <2>5, <3>2 DEF BuildQueue
    <3>. QED
      BY <2>5, <3>1, <3>3 DEF BuildQueue, Acquire, Places
  <2>6. ASSUME NEW d \in Daemon, StartAPI(d) PROVE DaemonTypeOK' /\ StopperKnows'
    BY <2>0, <2>6, DaemonAssumption, ZenonT(60) DEF StartAPI, Bind
  <2>7. ASSUME NEW d \in Daemon, StartGateway(d) PROVE DaemonTypeOK' /\ StopperKnows'
    <3>1. CASE Go(d, "health")
      BY <2>7, <3>1, ZenonT(60) DEF StartGateway
    <3>2. CASE Go(d, "pid")
      BY <2>7, <3>2, ZenonT(60) DEF StartGateway
    <3>. QED
      BY <2>7, <3>1, <3>2 DEF StartGateway
  <2>8. ASSUME NEW d \in Daemon, WaitHealthy(d) PROVE DaemonTypeOK' /\ StopperKnows'
    BY <2>0, <2>8, DaemonAssumption, ZenonT(60) DEF WaitHealthy
  <2>9. ASSUME NEW d \in Daemon, Ready(d) PROVE DaemonTypeOK' /\ StopperKnows'
    BY <2>0, <2>9, DaemonAssumption, ZenonT(60) DEF Ready, WritePidFile
  <2>10. ASSUME NEW d \in Daemon, RemoveOwnPidFile(d) PROVE DaemonTypeOK' /\ StopperKnows'
    BY <2>0, <2>10, DaemonAssumption, ZenonT(60) DEF RemoveOwnPidFile
  <2>11. ASSUME NEW d \in Daemon, StopGateway(d) PROVE DaemonTypeOK' /\ StopperKnows'
    BY <2>0, <2>11, DaemonAssumption, ZenonT(60) DEF StopGateway
  <2>12. ASSUME NEW d \in Daemon, GatewayStopped(d) PROVE DaemonTypeOK' /\ StopperKnows'
    BY <2>0, <2>12, DaemonAssumption, ZenonT(60) DEF GatewayStopped
  <2>13. ASSUME NEW d \in Daemon, ShutdownAPI(d) PROVE DaemonTypeOK' /\ StopperKnows'
    BY <2>0, <2>13, DaemonAssumption, ZenonT(60) DEF ShutdownAPI
  <2>14. ASSUME NEW d \in Daemon, CloseReaper(d) PROVE DaemonTypeOK' /\ StopperKnows'
    BY <2>0, <2>14, DaemonAssumption, ZenonT(60) DEF CloseReaper
  <2>15. ASSUME NEW d \in Daemon, CloseStores(d) PROVE DaemonTypeOK' /\ StopperKnows'
    BY <2>0, <2>15, DaemonAssumption, ZenonT(60) DEF CloseStores
  <2>16. ASSUME NEW d \in Daemon, SuperviseExit(d) PROVE DaemonTypeOK' /\ StopperKnows'
    BY <2>0, <2>16, DaemonAssumption, ZenonT(60) DEF SuperviseExit
  <2>17. ASSUME NEW d \in Daemon, SuperviseStop(d) PROVE DaemonTypeOK' /\ StopperKnows'
    BY <2>0, <2>17, DaemonAssumption, ZenonT(60) DEF SuperviseStop
  <2>18. ASSUME NEW d \in Daemon, Backoff(d) PROVE DaemonTypeOK' /\ StopperKnows'
    BY <2>0, <2>18, DaemonAssumption, ZenonT(60) DEF Backoff
  <2>19. ASSUME NEW d \in Daemon, Restart(d) PROVE DaemonTypeOK' /\ StopperKnows'
    BY <2>0, <2>19, DaemonAssumption, ZenonT(60) DEF Restart
  <2>20. ASSUME NEW d \in Daemon, RestartHealthy(d) PROVE DaemonTypeOK' /\ StopperKnows'
    BY <2>0, <2>20, DaemonAssumption, ZenonT(60) DEF RestartHealthy
  <2>21. ASSUME NEW d \in Daemon, Drain(d) PROVE DaemonTypeOK' /\ StopperKnows'
    BY <2>0, <2>21, DaemonAssumption, ZenonT(60) DEF Drain
  <2>22. ASSUME NEW d \in Daemon, Reaped(d) PROVE DaemonTypeOK' /\ StopperKnows'
    BY <2>0, <2>22, DaemonAssumption, ZenonT(60) DEF Reaped
  <2>23. ASSUME NEW d \in Daemon, GatewayBoots(d) PROVE DaemonTypeOK' /\ StopperKnows'
    BY <2>0, <2>23, DaemonAssumption, ZenonT(60) DEF GatewayBoots
  <2>24. ASSUME NEW d \in Daemon, GatewayObeys(d) PROVE DaemonTypeOK' /\ StopperKnows'
    BY <2>0, <2>24, DaemonAssumption, ZenonT(60) DEF GatewayObeys, GatewayGone
  <2>25. ASSUME NEW d \in Daemon, GatewayCrashes(d) PROVE DaemonTypeOK' /\ StopperKnows'
    <3>1. crashes' \in 0..MaxCrash
      BY <2>25, OneMoreCrash DEF GatewayCrashes
    <3>. QED
      BY <2>25, <3>1 DEF GatewayCrashes, GatewayGone
  <2>26. ASSUME NEW d \in Daemon, Signalled(d) PROVE DaemonTypeOK' /\ StopperKnows'
    BY <2>0, <2>26, DaemonAssumption, ZenonT(60) DEF Signalled, Sigterm, Dies
  <2>27. CASE StopRead
    BY <2>0, <2>27 DEF StopRead, Running, KeepProcs, KeepOthers, Busy
  <2>28. CASE StopSignal
    <3>0. /\ stopper.of \in Daemon
          /\ stopper' = Rest \/ stopper' = [stopper EXCEPT !.at = "poll"]
      BY <2>28 DEF StopSignal
    <3>1. /\ stopper' \in [at : {"idle", "signal", "poll", "unlink"}, of : Daemon \cup {NoPid}]
          /\ StopperKnows'
      <4>1. CASE stopper' = Rest
        BY <4>1 DEF Rest, Busy
      <4>2. CASE stopper' = [stopper EXCEPT !.at = "poll"]
        BY <3>0, <4>2
      <4>. QED
        BY <3>0, <4>1, <4>2
    <3>2. CASE Dies(stopper.of)
      BY <2>28, <3>0, <3>1, <3>2 DEF StopSignal, Dies, KeepOthers
    <3>3. CASE Go(stopper.of, "remove") /\ UNCHANGED <<open, reaping, api, watched, sup, cancelled, killed>>
      BY <2>28, <3>0, <3>1, <3>3 DEF StopSignal, KeepOthers
    <3>4. CASE KeepProcs
      BY <2>28, <3>1, <3>4 DEF StopSignal, KeepProcs, KeepOthers
    <3>. QED
      BY <2>28, <3>2, <3>3, <3>4 DEF StopSignal, Sigterm
  <2>29. CASE StopPoll
    <3>0. stopper.of \in Daemon /\ stopper' = [stopper EXCEPT !.at = "unlink"]
      BY <2>29 DEF StopPoll
    <3>1. /\ stopper' \in [at : {"idle", "signal", "poll", "unlink"}, of : Daemon \cup {NoPid}]
          /\ StopperKnows'
      BY <3>0
    <3>2. CASE Dies(stopper.of)
      BY <2>29, <3>0, <3>1, <3>2 DEF StopPoll, Dies, KeepOthers
    <3>3. CASE KeepProcs
      BY <2>29, <3>1, <3>3 DEF StopPoll, KeepProcs, KeepOthers
    <3>. QED
      BY <2>29, <3>2, <3>3 DEF StopPoll
  <2>30. CASE StopUnlink
    BY <2>0, <2>30 DEF StopUnlink, KeepProcs, KeepOthers, Rest, Busy
  <2>31. CASE EnsureRead
    BY <2>0, <2>31 DEF EnsureRead, KeepAll
  <2>32. CASE EnsureUnlink
    BY <2>0, <2>32 DEF EnsureUnlink, KeepAll
  <2>33. CASE EnsureSpawn
    BY <2>0, <2>33 DEF EnsureSpawn, KeepAll
  <2>34. CASE Watch
    BY <2>0, <2>34 DEF Watch
  <2>35. CASE UNCHANGED daemonVars
    BY <2>0, <2>35, ZenonT(60) DEF daemonVars
  <2>. QED
    BY <2>1, <2>2, <2>3, <2>4, <2>5, <2>6, <2>7, <2>8, <2>9, <2>10, <2>11, <2>12, <2>13, <2>14, <2>15, <2>16, <2>17, <2>18, <2>19, <2>20, <2>21, <2>22, <2>23, <2>24, <2>25, <2>26, <2>27, <2>28, <2>29, <2>30, <2>31, <2>32, <2>33, <2>34, <2>35
       DEF DaemonNext, DaemonStep, Supervise, GatewayStep, StopStep, Begin, IsDaemonRunning
<1>. QED
  BY <1>1, <1>2, PTL DEF DaemonSpec

\* The steps that leave the places, the port, the stores, the PID file and the
\* stop command alone: the gateway and its supervisor.
LEMMA GatewayKeeps ==
    ASSUME DaemonInv, DaemonTypeOK', StopperKnows',
           UNCHANGED <<proc, api, open, reaping, pidfile, unlinked>>
    PROVE  DaemonInv'
    BY DEF DaemonInv, PortOwned, StoresInOrder, ReapsWhileBuilt, KnownDaemon, At

\* Every step keeps the inductive invariant: places, port, stores and reaper
\* fit, and the PID file names the daemon that is ready.
THEOREM DaemonInvariant == DaemonSpec => []DaemonInv
<1>1. DaemonInit => PortOwned /\ StoresInOrder /\ ReapsWhileBuilt /\ KnownDaemon
  <2>. SUFFICES ASSUME DaemonInit PROVE PortOwned /\ StoresInOrder /\ ReapsWhileBuilt /\ KnownDaemon
    OBVIOUS
  <2>1. \A d \in Daemon : /\ proc[d] = "none" /\ open[d] = {} /\ ~reaping[d] /\ api # d
                          /\ proc[d] \notin StoresOpen /\ proc[d] \notin Holding /\ proc[d] # "ready"
    BY DaemonsAreProcesses, Apart DEF DaemonInit
  <2>. QED
    BY <2>1 DEF PortOwned, StoresInOrder, ReapsWhileBuilt, KnownDaemon, At
<1>2. DaemonInv /\ DaemonTypeOK' /\ StopperKnows' /\ [DaemonNext]_daemonVars => DaemonInv'
  <2>. SUFFICES ASSUME DaemonInv, DaemonTypeOK', StopperKnows', [DaemonNext]_daemonVars
                PROVE  DaemonInv'
    OBVIOUS
  <2>0. /\ DaemonTypeOK /\ StopperKnows /\ NoPid \notin Daemon
        /\ {"none", "gone", "check", "unlink", "store", "registry", "queue", "close"} \subseteq Places
        /\ {"api", "close reaper"} \subseteq StoresOpen /\ Holding \subseteq Places /\ StoresOpen \subseteq Places
    BY DaemonsAreProcesses DEF DaemonInv, Places, Holding, StoresOpen, Starting, Stopping
  \* What is known of the daemon that moves.
  <2>1. ASSUME NEW d \in Daemon
        PROVE  /\ api = d <=> proc[d] \in Holding
               /\ proc[d] \in {"none", "check", "unlink", "store"} => open[d] = {}
               /\ proc[d] = "registry" => open[d] = {"store"}
               /\ proc[d] = "queue" => open[d] = {"store", "registry"}
               /\ proc[d] \in StoresOpen => open[d] = Store
               /\ reaping[d] => proc[d] \in StoresOpen
    BY DEF DaemonInv, PortOwned, StoresInOrder, ReapsWhileBuilt
  \* A step of d that touches no other daemon, nor the PID file.
  <2>2. ASSUME NEW d \in Daemon, NEW p \in Places \ {"ready"}, Go(d, p),
               UNCHANGED <<pidfile, unlinked>>
        PROVE  KnownDaemon'
    <3>1. \A e \in Daemon : proc'[e] = "ready" => proc[e] = "ready"
      BY <2>0, <2>2, ZenonT(60) DEF Go, DaemonTypeOK
    <3>. QED
      BY <2>2, <3>1, KnownKept
  <2>3. ASSUME NEW d \in Daemon, NEW p \in Places, Go(d, p), KnownDaemon',
               UNCHANGED <<api, open, reaping>>,
               api = d <=> p \in Holding,
               p \in {"none", "check", "unlink", "store"} => open[d] = {},
               p = "registry" => open[d] = {"store"},
               p = "queue" => open[d] = {"store", "registry"},
               p \in StoresOpen => open[d] = Store,
               reaping[d] => p \in StoresOpen
        PROVE  DaemonInv'
    BY <2>3, Moves DEF Go
  <2>4. ASSUME NEW d \in Daemon, LookForDaemon(d), proc[d] \in {"none", "check"} PROVE DaemonInv'
    <3>. DEFINE p == IF Running THEN "gone" ELSE IF Stale THEN "unlink" ELSE "store"
    <3>1. p \in {"gone", "unlink", "store"} /\ Go(d, p)
      BY <2>4, Zenon DEF LookForDaemon
    <3>2. UNCHANGED <<pidfile, unlinked, api, open, reaping>>
      BY <2>4 DEF LookForDaemon, KeepPlane, KeepCommands
    <3>3. api # d /\ open[d] = {} /\ ~reaping[d]
      BY <2>1, <2>4, Apart
    <3>. HIDE DEF p
    <3>4. p \in Places \ {"ready"} /\ p \notin StoresOpen /\ p \notin Holding /\ p \notin {"registry", "queue"}
      BY <3>1, <2>0, Apart DEF StoresOpen, Holding
    <3>5. KnownDaemon'
      BY <2>2, <3>1, <3>2, <3>4
    <3>. QED
      BY <2>3, <3>1, <3>2, <3>3, <3>4, <3>5
  <2>5. ASSUME NEW d \in Daemon, UnlinkStale(d) PROVE DaemonInv'
    <3>1. /\ proc[d] = "unlink" /\ Go(d, "store") /\ RemovePidFile
          /\ UNCHANGED <<api, open, reaping>>
      BY <2>5 DEF UnlinkStale, At, KeepPlane
    <3>2. KnownDaemon'
      <4>1. \A e \in Daemon : proc'[e] = "ready" => proc[e] = "ready"
        BY <2>0, <3>1, ZenonT(60) DEF Go, DaemonTypeOK
      <4>. QED
        BY <3>1, <4>1, RemovalIsRecorded
    <3>3. api # d /\ open[d] = {} /\ ~reaping[d]
      BY <2>1, <3>1, Apart
    <3>. QED
      BY <2>0, <2>3, <3>1, <3>2, <3>3, Apart
  <2>6. ASSUME NEW d \in Daemon, NEW s \in Store, NEW p \in {"registry", "queue", "api"},
               Acquire(d, s, p), proc[d] \notin StoresOpen, proc[d] # "ready",
               p = "registry" => open[d] \cup {s} = {"store"},
               p = "queue" => open[d] \cup {s} = {"store", "registry"},
               p = "api" => open[d] \cup {s} = Store,
               \A e \in Daemon \ {d} : reaping'[e] = reaping[e],
               reaping'[d] => p = "api" /\ open'[d] # {}
        PROVE  DaemonInv'
    <3>1. UNCHANGED <<pidfile, unlinked, api>> /\ ~reaping[d] /\ api # d
      BY <2>1, <2>6, Apart DEF Acquire, KeepCommands
    <3>2. CASE Go(d, p) /\ open' = [open EXCEPT ![d] = @ \cup {s}]
      <4>1. KnownDaemon'
        BY <2>0, <2>2, <3>1, <3>2
      <4>2. open'[d] = open[d] \cup {s} /\ \A e \in Daemon \ {d} : open'[e] = open[e]
        BY <2>0, <3>2, ZenonT(60) DEF DaemonTypeOK
      <4>3. p \in Places /\ p \notin Holding /\ p \notin {"none", "check", "unlink", "store"}
        BY <2>0, Apart DEF Holding
      <4>4. p \in StoresOpen => p = "api"
        BY Apart
      <4>. QED
        BY <2>0, <2>6, <3>1, <3>2, <4>1, <4>2, <4>3, <4>4, Moves DEF Go
    <3>3. CASE Go(d, "gone") /\ open' = [open EXCEPT ![d] = {}]
      <4>1. KnownDaemon'
        BY <2>0, <2>2, <3>1, <3>3
      <4>2. open'[d] = {} /\ \A e \in Daemon \ {d} : open'[e] = open[e]
        BY <2>0, <3>3, ZenonT(60) DEF DaemonTypeOK
      <4>3. ~reaping'[d]
        BY <2>6, <4>2
      <4>. QED
        BY <2>0, <2>6, <3>1, <3>3, <4>1, <4>2, <4>3, Apart, Moves DEF Go
    <3>. QED
      BY <2>6, <3>2, <3>3 DEF Acquire
  <2>7. ASSUME NEW d \in Daemon, BuildStore(d) PROVE DaemonInv'
    <3>1. Acquire(d, "store", "registry") /\ reaping' = reaping /\ proc[d] = "store"
      BY <2>7 DEF BuildStore, Acquire, At
    <3>2. open[d] = {} /\ ~reaping[d]
      BY <2>1, <3>1, Apart
    <3>. QED
      BY <2>6, <3>1, <3>2, Apart DEF Store
  <2>8. ASSUME NEW d \in Daemon, BuildRegistryStore(d) PROVE DaemonInv'
    <3>1. Acquire(d, "registry", "queue") /\ reaping' = reaping /\ proc[d] = "registry"
      BY <2>8 DEF BuildRegistryStore, Acquire, At
    <3>2. open[d] = {"store"} /\ ~reaping[d]
      BY <2>1, <3>1, Apart
    <3>. QED
      BY <2>6, <3>1, <3>2, Apart DEF Store
  <2>9. ASSUME NEW d \in Daemon, BuildQueue(d) PROVE DaemonInv'
    <3>1. /\ Acquire(d, "queue", "api") /\ proc[d] = "queue"
          /\ reaping' = [reaping EXCEPT ![d] = (open'[d] # {})]
      BY <2>9 DEF BuildQueue, Acquire, At
    <3>2. open[d] \cup {"queue"} = Store
      BY <2>1, <3>1 DEF Store
    <3>3. /\ reaping'[d] => open'[d] # {}
          /\ \A e \in Daemon \ {d} : reaping'[e] = reaping[e]
      BY <2>0, <3>1, ZenonT(60) DEF DaemonTypeOK
    <3>. QED
      BY <2>6, <3>1, <3>2, <3>3, Apart DEF Store
  <2>10. ASSUME NEW d \in Daemon, StartAPI(d) PROVE DaemonInv'
    <3>1. /\ proc[d] = "api" /\ UNCHANGED <<pidfile, unlinked, open, reaping>>
          /\ open[d] = Store /\ api # d
      BY <2>0, <2>1, <2>10, Apart DEF StartAPI, At, KeepCommands
    <3>2. CASE api = NoPid /\ api' = d /\ Go(d, "gateway")
      <4>1. KnownDaemon' /\ "gateway" \in Places /\ "gateway" \in Holding /\ "gateway" \in StoresOpen
        BY <2>0, <2>2, <3>1, <3>2 DEF Holding, StoresOpen
      <4>2. \A e \in Daemon \ {d} : api' = e <=> api = e
        BY <2>0, <3>2
      <4>. QED
        BY <2>0, <3>1, <3>2, <4>1, <4>2, Moves DEF Go
    <3>3. CASE Go(d, "close reaper") /\ api' = api
      <4>1. KnownDaemon' /\ "close reaper" \in Places
        BY <2>0, <2>2, <3>1, <3>3
      <4>. QED
        BY <2>0, <2>3, <3>1, <3>3, <4>1, Apart
    <3>. QED
      BY <2>10, <3>2, <3>3 DEF StartAPI, Bind
  \* From one place where the port is held to the next.
  <2>11. ASSUME NEW d \in Daemon, proc[d] \in Holding, NEW p \in Holding, Go(d, p),
                KnownDaemon', UNCHANGED <<api, open, reaping>>
         PROVE  DaemonInv'
    <3>1. api = d /\ open[d] = Store /\ p \in StoresOpen /\ p \in Places
      BY <2>0, <2>1, <2>11, Apart
    <3>2. p \notin {"none", "check", "unlink", "store", "registry", "queue"}
      BY <3>1, Apart
    <3>. QED
      BY <2>3, <2>11, <3>1, <3>2
  <2>12. ASSUME NEW d \in Daemon,
                StartGateway(d) \/ WaitHealthy(d) \/ GatewayStopped(d)
         PROVE  DaemonInv'
    <3>1. /\ proc[d] \in {"gateway", "health", "gateway stop"}
          /\ Go(d, "health") \/ Go(d, "pid") \/ Go(d, "api stop")
          /\ UNCHANGED <<pidfile, unlinked, api, open, reaping>>
      BY <2>12 DEF StartGateway, WaitHealthy, GatewayStopped, At, KeepPlane, KeepCommands
    <3>2. proc[d] \in Holding /\ {"health", "pid", "api stop"} \subseteq Holding
      BY <3>1 DEF Holding
    <3>. QED
      BY <2>0, <2>2, <2>11, <3>1, <3>2
  <2>13. ASSUME NEW d \in Daemon, Ready(d) PROVE DaemonInv'
    <3>1. /\ proc[d] = "pid" /\ UNCHANGED <<unlinked, api, open, reaping>>
          /\ proc[d] \in Holding /\ {"ready", "gateway stop"} \subseteq Holding
      BY <2>13 DEF Ready, At, KeepPlane, KeepCommands, Holding
    <3>2. CASE Go(d, "ready") /\ pidfile' = d
      <4>1. KnownDaemon'
        <5>1. \A e \in Daemon : proc'[e] = "ready" => e = d \/ proc[e] = "ready"
          BY <2>0, <3>2 DEF Go, DaemonTypeOK
        <5>2. \A e \in Daemon : proc[e] = "ready" => e = d
          BY <3>1, OneHolder
        <5>. QED
          BY <3>2, <5>1, <5>2 DEF KnownDaemon, At
      <4>. QED
        BY <2>11, <3>1, <3>2, <4>1
    <3>3. CASE Go(d, "gateway stop") /\ pidfile' = pidfile
      BY <2>0, <2>2, <2>11, <3>1, <3>3
    <3>. QED
      BY <2>13, <3>2, <3>3 DEF Ready, WritePidFile
  <2>14. ASSUME NEW d \in Daemon, RemoveOwnPidFile(d) PROVE DaemonInv'
    <3>1. /\ proc[d] = "remove" /\ Go(d, "gateway stop") /\ UNCHANGED <<api, open, reaping>>
          /\ proc[d] \in Holding /\ "gateway stop" \in Holding /\ "ready" \in Holding
      BY <2>14 DEF RemoveOwnPidFile, At, KeepPlane, Holding
    <3>2. KnownDaemon'
      <4>1. \A e \in Daemon : proc[e] # "ready"
        BY <3>1, OneHolder
      <4>2. \A e \in Daemon : proc'[e] # "ready"
        BY <2>0, <3>1, <4>1, ZenonT(60) DEF Go, DaemonTypeOK
      <4>. QED
        BY <4>2 DEF KnownDaemon, At
    <3>. QED
      BY <2>11, <3>1, <3>2
  <2>15. ASSUME NEW d \in Daemon, ShutdownAPI(d) PROVE DaemonInv'
    <3>1. /\ proc[d] = "api stop" /\ Go(d, "close reaper") /\ api' = NoPid
          /\ UNCHANGED <<pidfile, unlinked, open, reaping>>
          /\ proc[d] \in Holding /\ proc[d] \in StoresOpen
      BY <2>15 DEF ShutdownAPI, At, KeepCommands, Holding, StoresOpen
    <3>2. api = d /\ open[d] = Store
      BY <2>1, <3>1
    <3>3. KnownDaemon' /\ "close reaper" \in Places
      BY <2>0, <2>2, <3>1
    <3>. QED
      BY <2>0, <3>1, <3>2, <3>3, Apart, Moves DEF Go
  <2>16. ASSUME NEW d \in Daemon, CloseReaper(d) PROVE DaemonInv'
    <3>1. /\ proc[d] = "close reaper" /\ Go(d, "close")
          /\ reaping' = [reaping EXCEPT ![d] = FALSE]
          /\ UNCHANGED <<pidfile, unlinked, open, api>>
      BY <2>16 DEF CloseReaper, At, KeepCommands
    <3>2. ~reaping'[d] /\ \A e \in Daemon \ {d} : reaping'[e] = reaping[e]
      BY <2>0, <3>1, ZenonT(60) DEF DaemonTypeOK
    <3>3. KnownDaemon' /\ api # d
      BY <2>0, <2>1, <2>2, <3>1, Apart
    <3>. QED
      BY <2>0, <3>1, <3>2, <3>3, Apart, Moves DEF Go
  <2>17. ASSUME NEW d \in Daemon, CloseStores(d) PROVE DaemonInv'
    <3>1. /\ proc[d] = "close" /\ UNCHANGED <<pidfile, unlinked, reaping, api>>
          /\ ~reaping[d] /\ api # d
      BY <2>1, <2>17, Apart DEF CloseStores, At, KeepCommands
    <3>2. CASE Go(d, "gone") /\ open' = open
      BY <2>0, <2>2, <2>3, <3>1, <3>2, Apart
    <3>3. CASE open' = [open EXCEPT ![d] = {}] /\ proc' = proc
      <4>1. \A e \in Daemon \ {d} : open'[e] = open[e]
        BY <3>3
      <4>2. KnownDaemon'
        BY <3>1, <3>3, KnownKept
      <4>3. proc' = [proc EXCEPT ![d] = "close"]
        BY <2>0, <3>1, <3>3 DEF DaemonTypeOK
      <4>. QED
        BY <2>0, <3>1, <4>1, <4>2, <4>3, Apart, Moves
    <3>. QED
      BY <2>17, <3>2, <3>3 DEF CloseStores
  <2>18. ASSUME NEW d \in Daemon,
                StopGateway(d) \/ Supervise(d) \/ GatewayStep(d) \/ GatewayCrashes(d)
         PROVE  DaemonInv'
    <3>1. UNCHANGED <<proc, api, open, reaping, pidfile, unlinked>>
      BY <2>18 DEF StopGateway, Supervise, SuperviseExit, SuperviseStop, Backoff, Restart, RestartHealthy,
                   Drain, Reaped, GatewayStep, GatewayBoots, GatewayObeys, GatewayCrashes,
                   KeepDaemon, KeepPlane, KeepCommands
    <3>. QED
      BY <3>1, GatewayKeeps
  <2>19. ASSUME NEW d \in Daemon, Dies(d), UNCHANGED <<pidfile, unlinked>> PROVE DaemonInv'
    BY <2>0, <2>2, <2>19, DyingKeeps DEF Dies
  <2>20. ASSUME NEW d \in Daemon, Sigterm(d), UNCHANGED <<pidfile, unlinked>> PROVE DaemonInv'
    <3>1. CASE proc[d] = "ready" /\ Go(d, "remove") /\ UNCHANGED <<api, open, reaping>>
      <4>1. proc[d] \in Holding /\ "remove" \in Holding
        BY <3>1 DEF Holding
      <4>2. KnownDaemon'
        BY <2>0, <2>2, <2>20, <3>1, <4>1
      <4>. QED
        BY <2>11, <3>1, <4>1, <4>2
    <3>. QED
      BY <2>19, <2>20, <3>1 DEF Sigterm, At
  <2>21. ASSUME NEW d \in Daemon, Signalled(d) PROVE DaemonInv'
    BY <2>19, <2>20, <2>21 DEF Signalled
  <2>22. CASE StopRead
    <3>1. UNCHANGED <<proc, api, open, reaping, pidfile, unlinked>>
      BY <2>22 DEF StopRead, KeepProcs
    <3>. QED
      BY <3>1, GatewayKeeps
  <2>23. CASE StopSignal \/ StopPoll
    <3>1. stopper.of \in Daemon /\ UNCHANGED <<pidfile, unlinked>>
      BY <2>0, <2>23 DEF StopSignal, StopPoll, StopperKnows
    <3>2. Sigterm(stopper.of) \/ Dies(stopper.of) \/ KeepProcs
      BY <2>23 DEF StopSignal, StopPoll
    <3>3. CASE KeepProcs
      BY <3>1, <3>3, GatewayKeeps DEF KeepProcs
    <3>. QED
      BY <2>19, <2>20, <3>1, <3>2, <3>3
  <2>24. CASE StopUnlink \/ EnsureUnlink
    <3>1. RemovePidFile /\ UNCHANGED <<proc, api, open, reaping>>
      BY <2>24 DEF StopUnlink, EnsureUnlink, KeepProcs, KeepAll
    <3>2. KnownDaemon'
      BY <3>1, RemovalIsRecorded
    <3>. QED
      BY <3>1, <3>2 DEF DaemonInv, PortOwned, StoresInOrder, ReapsWhileBuilt
  <2>25. CASE EnsureRead \/ Watch \/ UNCHANGED daemonVars
    <3>1. UNCHANGED <<proc, api, open, reaping, pidfile, unlinked>>
      BY <2>25 DEF EnsureRead, Watch, daemonVars, KeepAll, KeepCommands
    <3>. QED
      BY <3>1, GatewayKeeps
  <2>26. CASE EnsureSpawn
    <3>1. PICK d \in Daemon : NotStarted(d) /\ Go(d, "check")
      BY <2>26 DEF EnsureSpawn
    <3>2. proc[d] = "none" /\ UNCHANGED <<pidfile, unlinked, api, open, reaping>>
      BY <2>26, <3>1 DEF EnsureSpawn, NotStarted, At, KeepAll
    <3>3. api # d /\ open[d] = {} /\ ~reaping[d] /\ KnownDaemon'
      BY <2>0, <2>1, <2>2, <3>1, <3>2, Apart
    <3>. QED
      BY <2>0, <2>3, <3>1, <3>2, <3>3, Apart
  <2>27. ASSUME NEW d \in Daemon, Begin(d) \/ IsDaemonRunning(d) PROVE DaemonInv'
    BY <2>4, <2>27 DEF Begin, IsDaemonRunning, NotStarted, At
  <2>28. ASSUME NEW d \in Daemon, DaemonStep(d) PROVE DaemonInv'
    BY <2>5, <2>7, <2>8, <2>9, <2>10, <2>12, <2>13, <2>14, <2>15, <2>16, <2>17, <2>18, <2>27, <2>28
       DEF DaemonStep
  <2>. QED
    BY <2>18, <2>21, <2>22, <2>23, <2>24, <2>25, <2>26, <2>27, <2>28 DEF DaemonNext, StopStep
<1>. QED
  BY <1>1, <1>2, DaemonTypeCorrect, PTL DEF DaemonSpec, DaemonInv

\* The PID file names the daemon that is ready, and what serves or sweeps has
\* its stores open (runForeground, cp.Close).
THEOREM DaemonIsSound == DaemonSpec => []DaemonSound
<1>1. DaemonInv => DaemonSound
  BY Apart DEF DaemonInv, DaemonSound, StoresOutliveUsers, PortOwned, StoresInOrder, ReapsWhileBuilt
<1>. QED
  BY <1>1, DaemonInvariant, PTL

(***************************************************************************)
(* The gateway                                                             *)
(***************************************************************************)

PoolEntry == [known : BOOLEAN, cfg : Config \union {NoConfig}, state : {"Idle", "Connecting", "Ready", "Failed"},
              tools : SUBSET Tool, entry : Nat]
ServerRow == [owner : {"none", "config", "cli"}, cfg : Config \union {NoConfig}, proxy : BOOLEAN,
              status : {"none", "pending", "active", "failed"}]
Build == [at : {"idle", "read", "write", "done"}, names : SUBSET Tool, set : SUBSET Tool]
Reconciler == [at : RecPlace, todo : SUBSET Server, wanted : [Server -> Config \union {NoConfig}],
               info : [Server -> PoolEntry], tools : SUBSET Tool, adds : SUBSET Tool,
               now : Server \union {RecIdle.now}, one : Tool \union {RecIdle.one}, drift : BOOLEAN]
Operation == [at : {"idle", "forward", "connect", "call"}, tool : Tool \union {AgentIdle.tool}, entry : Nat]

GatewayTypes ==
  /\ row \in [Server -> ServerRow] /\ rtool \in [Tool -> {"absent", "enabled", "disabled"}]
  /\ pool \in [Server -> PoolEntry] /\ backend \in [Server -> SUBSET Tool]
  /\ catalog \in SUBSET Tool /\ visible \in [built : BOOLEAN, set : SUBSET Tool]
  /\ gen \in Builder \union {"none"} /\ build \in [Builder -> Build]
  /\ rec \in Reconciler /\ agent \in [Agent -> Operation]
  /\ called \in SUBSET Tool /\ calm \in BOOLEAN /\ upsets \in [UpsetKind -> Nat]

\* Nothing denied is visible, about to be, or on its way to a backend.
NothingDenied ==
  /\ called \cap Denied = {} /\ visible.set \cap Denied = {}
  /\ \A b \in Builder : build[b].set \cap Denied = {}
  /\ \A a \in Agent : agent[a].at # "idle" => agent[a].tool \in Tool \ Denied

\* A row that is proxied is registered with a configuration; a pool entry has
\* tools of its own server.
RowsFit ==
  /\ \A s \in Server : row[s].proxy => row[s].owner # "none" /\ row[s].cfg # NoConfig
  /\ \A s \in Server : backend[s] \subseteq Of(Tool, s) /\ pool[s].tools \subseteq Of(Tool, s)
  /\ \A s \in Server : pool[s].state = "Ready" => pool[s].known

Unregistering == {"unregister", "unregister_tools", "forget", "disconnect"}
Adding == {"prune", "prune_tools", "tools", "add_tool", "record"}

\* The entries of a pass, one of them or none at work.
Entering ==
  \/ rec.at \in {"entries", "readd", "discover", "persist", "building", "sync"} \union Adding
  \/ rec.at \in Unregistering /\ rec.drift

RecFits ==
  /\ rec.at \notin {"idle", "list", "add", "remove", "entries"} => rec.now \in Server /\ rec.now \notin rec.todo
  /\ rec.at \in {"idle", "list"} => rec.todo = {}
  /\ rec.at = "remove" => ~rec.drift
  /\ rec.at \in {"unregister_tools", "forget", "disconnect"} => Of(catalog, rec.now) = {}
  /\ rec.at \in {"persist"} \union Adding => rec.tools \subseteq Of(Tool, rec.now)
  /\ rec.at \in {"tools", "add_tool", "record"} => rec.adds \subseteq rec.tools
  /\ rec.at \in {"add_tool", "record"} => rec.one \in Of(Tool, rec.now)
  /\ Entering => rec.todo \subseteq Wanted
  /\ rec.at \in {"discover", "persist"} => rec.now \in Wanted

\* Of an operation of an agent that connects, its entry is the last the server
\* had, and no other operation connects it.
ConnectFits ==
  /\ \A a \in Agent : agent[a].at = "connect" =>
        agent[a].entry <= pool[agent[a].tool[1]].entry /\ (SameEntry(a) => pool[agent[a].tool[1]].state = "Connecting")
  /\ \A a, b \in Agent : agent[a].at = "connect" /\ agent[b].at = "connect" /\ SameEntry(a) /\ SameEntry(b)
                           /\ agent[a].tool[1] = agent[b].tool[1] => a = b

\* A server with tools in the catalog is connected, and was when the pass read
\* the pool.
CatalogReady ==
  /\ \A n \in catalog : pool[n[1]].state = "Ready"
  /\ rec.at \in {"persist"} \union Adding => pool[rec.now].state = "Ready"
  /\ Entering => \A n \in catalog : n[1] \in rec.todo => rec.info[n[1]].state = "Ready"

\* What the newest build has or will have of tool n.
MayBeSeen(n) == rtool[n] # "disabled" /\ n \notin Denied
UpToDate(n) ==
  gen # "none" =>
    /\ build[gen].at = "read" => n \in build[gen].names
    /\ build[gen].at = "write" => (n \in build[gen].set <=> MayBeSeen(n))
    /\ build[gen].at \in {"idle", "done"} => (n \in visible.set <=> MayBeSeen(n))

\* The pass has yet to come to server s.
ToCome(s) ==
  \/ rec.at = "add" \/ s \in rec.todo
  \/ rec.at \in {"unregister", "discover", "persist"} /\ s = rec.now
  \/ rec.at \in {"remove"} \union Unregistering /\ ~rec.drift /\ s \in Wanted

Undisturbed == upsets["registry"] = 0 /\ upsets["backend"] = 0

StillRegistered == calm => \A s \in Wanted : row[s].owner # "none"
BuildsFit ==
  /\ \A b \in Builder : build[b].at # "idle" => gen # "none"
  /\ Undisturbed /\ gen # "none" /\ build[gen].at \in {"idle", "done"} => visible.built
Fresh == calm /\ rec.at \notin Adding => \A n \in catalog : UpToDate(n) \/ ToCome(n[1])

\* The inductive invariant behind GatewaySound.
GatewayInv ==
  /\ GatewayTypes /\ NothingDenied /\ RowsFit /\ RecFits /\ StillRegistered /\ BuildsFit
  /\ Undisturbed => ConnectFits /\ CatalogReady /\ Fresh

LEMMA GatewayTyped ==
  ASSUME GatewayTypes
  PROVE  /\ row \in [Server -> ServerRow] /\ rtool \in [Tool -> {"absent", "enabled", "disabled"}]
         /\ pool \in [Server -> PoolEntry] /\ backend \in [Server -> SUBSET Tool] /\ catalog \in SUBSET Tool
         /\ visible \in [built : BOOLEAN, set : SUBSET Tool] /\ gen \in Builder \union {"none"}
         /\ build \in [Builder -> Build] /\ rec \in Reconciler /\ agent \in [Agent -> Operation]
         /\ called \in SUBSET Tool /\ calm \in BOOLEAN /\ upsets \in [UpsetKind -> Nat]
         /\ rec.at \in RecPlace /\ rec.todo \in SUBSET Server /\ rec.wanted \in [Server -> Config \union {NoConfig}]
         /\ rec.info \in [Server -> PoolEntry] /\ rec.tools \in SUBSET Tool /\ rec.adds \in SUBSET Tool
         /\ rec.drift \in BOOLEAN /\ Wanted \in SUBSET Server /\ Known \in SUBSET Server
         /\ \A n \in Tool : n[1] \in Server
         /\ \A n \in catalog : n \in Tool
  BY DEF GatewayTypes, Reconciler, Wanted, Known, Tool

\* The reconciler goes to another place, or back to the entries of its pass.
LEMMA RecGoes ==
  ASSUME GatewayTypes, NEW p \in RecPlace, rec' = [rec EXCEPT !.at = p]
  PROVE  /\ rec' \in Reconciler /\ rec'.at = p /\ rec'.todo = rec.todo /\ rec'.wanted = rec.wanted
         /\ rec'.info = rec.info /\ rec'.tools = rec.tools /\ rec'.adds = rec.adds /\ rec'.now = rec.now
         /\ rec'.one = rec.one /\ rec'.drift = rec.drift /\ Wanted' = Wanted
<1>1. rec \in Reconciler
  BY DEF GatewayTypes
<1>2. /\ rec' \in Reconciler /\ rec'.at = p /\ rec'.todo = rec.todo /\ rec'.wanted = rec.wanted
      /\ rec'.info = rec.info /\ rec'.tools = rec.tools /\ rec'.adds = rec.adds /\ rec'.now = rec.now
      /\ rec'.one = rec.one /\ rec'.drift = rec.drift
  BY <1>1 DEF Reconciler
<1>. QED
  BY <1>2 DEF Wanted

LEMMA RecIdleFacts ==
  /\ RecIdle.at = "idle" /\ RecIdle.todo = {} /\ RecIdle.tools = {} /\ RecIdle.adds = {} /\ RecIdle.drift = FALSE
  /\ RecIdle.wanted = [s \in Server |-> NoConfig] /\ RecIdle \in Reconciler
<1>1. RecIdle = [at |-> "idle", todo |-> {}, wanted |-> [s \in Server |-> NoConfig],
                 info |-> [s \in Server |-> NotKnown], tools |-> {}, adds |-> {},
                 now |-> RecIdle.now, one |-> RecIdle.one, drift |-> FALSE]
  BY DEF RecIdle
<1>2. NotKnown \in PoolEntry
  BY DEF NotKnown, PoolEntry
<1>3. [s \in Server |-> NotKnown] \in [Server -> PoolEntry] /\ [s \in Server |-> NoConfig] \in [Server -> Config \union {NoConfig}]
  BY <1>2
<1>4. PICK now, one : now = RecIdle.now /\ one = RecIdle.one
  OBVIOUS
<1>5. RecIdle = [at |-> "idle", todo |-> {}, wanted |-> [s \in Server |-> NoConfig],
                 info |-> [s \in Server |-> NotKnown], tools |-> {}, adds |-> {},
                 now |-> now, one |-> one, drift |-> FALSE]
  BY <1>1, <1>4
<1>. HIDE DEF RecIdle
<1>6. "idle" \in RecPlace /\ now \in Server \union {RecIdle.now} /\ one \in Tool \union {RecIdle.one}
  BY <1>4 DEF RecPlace
<1>7. RecIdle \in Reconciler
  BY <1>3, <1>5, <1>6 DEF Reconciler
<1>. QED
  BY <1>1, <1>7

LEMMA BackFacts ==
  ASSUME GatewayTypes
  PROVE  /\ Back \in Reconciler /\ Back.at = "entries" /\ Back.todo = rec.todo /\ Back.wanted = rec.wanted
         /\ Back.info = rec.info
<1>1. RecIdle \in Reconciler
  BY RecIdleFacts
<1>. QED
  BY <1>1, GatewayTyped DEF Back, Reconciler, RecPlace

\* Upsets are only counted up.
LEMMA UpsetFacts ==
  ASSUME GatewayTypes, NEW kind \in UpsetKind, Upset(kind) \/ UNCHANGED upsets
  PROVE  /\ upsets' \in [UpsetKind -> Nat] /\ (Undisturbed' => Undisturbed)
         /\ Upset(kind) /\ kind \in {"registry", "backend"} => ~Undisturbed'
<1>1. upsets \in [UpsetKind -> Nat] /\ "registry" \in UpsetKind /\ "backend" \in UpsetKind
  BY DEF GatewayTypes, UpsetKind
<1>2. CASE UNCHANGED upsets
  <2>1. Upset(kind) => FALSE
    <3>1. Upset(kind) => upsets'[kind] = upsets[kind] + 1
      BY <1>1 DEF Upset
    <3>. QED
      BY <1>1, <1>2, <3>1
  <2>. QED
    BY <1>1, <1>2, <2>1 DEF Undisturbed
<1>3. CASE Upset(kind)
  <2>1. upsets' = [upsets EXCEPT ![kind] = @ + 1]
    BY <1>3 DEF Upset
  <2>2. upsets' \in [UpsetKind -> Nat] /\ \A k \in UpsetKind : upsets'[k] = IF k = kind THEN upsets[k] + 1 ELSE upsets[k]
    BY <1>1, <2>1
  <2>. QED
    BY <1>1, <2>2 DEF Undisturbed
<1>. QED
  BY <1>2, <1>3

\* What the newest build has of a tool does not change with the catalog.
LEMMA SameBuilds ==
  ASSUME gen' = gen, build' = build, visible' = visible, rtool' = rtool
  PROVE  /\ \A n : UpToDate(n)' <=> UpToDate(n)
         /\ BuildsFit /\ (Undisturbed' => Undisturbed) => BuildsFit'
  BY DEF UpToDate, MayBeSeen, BuildsFit

\* A step of the operator: a pass that saw the rows from before proves nothing.
LEMMA EditKept ==
  ASSUME GatewayInv, Edit, row' \in [Server -> ServerRow], rtool' \in [Tool -> {"absent", "enabled", "disabled"}],
         \A s \in Server : row'[s].proxy => row'[s].owner # "none" /\ row'[s].cfg # NoConfig
  PROVE  GatewayInv'
<1>1. /\ calm' = FALSE /\ upsets' = upsets
      /\ UNCHANGED <<pool, backend, agent, called, catalog, mcp, visible, gen, build, rec, trigger, graph>>
  BY DEF Edit, Spend, outside, gateway
<1>2. GatewayTypes'
  BY <1>1 DEF GatewayInv, GatewayTypes
<1>3. NothingDenied' /\ RecFits' /\ BuildsFit'
  BY <1>1 DEF GatewayInv, NothingDenied, RecFits, BuildsFit, Undisturbed, Entering, Wanted
<1>4. RowsFit'
  BY <1>1 DEF GatewayInv, RowsFit
<1>5. StillRegistered' /\ Fresh'
  BY <1>1 DEF StillRegistered, Fresh
<1>6. Undisturbed' => ConnectFits' /\ CatalogReady'
  BY <1>1 DEF GatewayInv, ConnectFits, CatalogReady, Undisturbed, SameEntry, Entering
<1>. QED
  BY <1>2, <1>3, <1>4, <1>5, <1>6 DEF GatewayInv

LEMMA EditsKept ==
  ASSUME GatewayInv,
         \/ \E s \in Server : DeleteServer(s) \/ \E c \in Config : RegisterServer(s, c)
         \/ \E n \in Tool, on \in BOOLEAN : SetToolEnabled(n, on)
  PROVE  GatewayInv'
<1>1. GatewayTypes /\ RowsFit
  BY DEF GatewayInv
<1>2. ASSUME NEW s \in Server, NEW c \in Config, RegisterServer(s, c) PROVE GatewayInv'
  <2>1. /\ row' = [row EXCEPT ![s] = [owner |-> IF row[s].owner = "none" THEN "cli" ELSE row[s].owner,
                                      cfg |-> c, proxy |-> TRUE, status |-> "pending"]]
        /\ rtool' = rtool /\ Edit
    BY <1>1, <1>2, GatewayTyped DEF RegisterServer
  <2>2. c # NoConfig
    BY GatewayAssumption
  <2>. QED
    BY <1>1, <2>1, <2>2, GatewayTyped, EditKept DEF ServerRow, RowsFit
<1>3. ASSUME NEW s \in Server, DeleteServer(s) PROVE GatewayInv'
  <2>1. /\ row' = [row EXCEPT ![s] = NoRow] /\ Edit
        /\ rtool' = [n \in Tool |-> IF n[1] = s THEN "absent" ELSE rtool[n]]
    BY <1>3 DEF DeleteServer
  <2>2. NoRow \in ServerRow /\ ~NoRow.proxy
    BY DEF NoRow, ServerRow
  <2>. QED
    BY <1>1, <2>1, <2>2, GatewayTyped, EditKept DEF RowsFit
<1>4. ASSUME NEW n \in Tool, NEW on \in BOOLEAN, SetToolEnabled(n, on) PROVE GatewayInv'
  <2>1. /\ row' = row /\ Edit
        /\ rtool' = [rtool EXCEPT ![n] = IF on THEN "enabled" ELSE "disabled"]
    BY <1>4 DEF SetToolEnabled
  <2>. QED
    BY <1>1, <2>1, GatewayTyped, EditKept DEF RowsFit
<1>. QED
  BY <1>2, <1>3, <1>4

LEMMA OperationFacts ==
  /\ AgentIdle \in Operation /\ AgentIdle.at = "idle"
  /\ \A n \in Tool : LET o == [AgentIdle EXCEPT !.at = "forward", !.tool = n] IN
       o \in Operation /\ o.at = "forward" /\ o.tool = n
<1>1. PICK tool : tool = AgentIdle.tool
  OBVIOUS
<1>2. AgentIdle = [at |-> "idle", tool |-> tool, entry |-> 0]
  BY <1>1 DEF AgentIdle
<1>. HIDE DEF AgentIdle
<1>3. tool \in Tool \union {AgentIdle.tool}
  BY <1>1
<1>. QED
  BY <1>2, <1>3 DEF Operation

\* What connecting does to the pool.
LEMMA PoolFacts ==
  ASSUME GatewayTypes, RowsFit, NEW s \in Server
  PROVE  /\ Connected(s) \in [Server -> PoolEntry] /\ Refused(s) \in [Server -> PoolEntry]
         /\ \A u \in Server \ {s} : Connected(s)[u] = pool[u] /\ Refused(s)[u] = pool[u]
         /\ Connected(s)[s].known /\ Connected(s)[s].state = "Ready" /\ Connected(s)[s].entry = pool[s].entry
         /\ Connected(s)[s].tools = backend[s] /\ backend[s] \subseteq Of(Tool, s)
         /\ Refused(s)[s].known /\ Refused(s)[s].state = "Failed" /\ Refused(s)[s].entry = pool[s].entry
         /\ Refused(s)[s].tools = pool[s].tools
<1>1. /\ pool \in [Server -> PoolEntry] /\ backend \in [Server -> SUBSET Tool]
      /\ backend[s] \in SUBSET Tool /\ pool[s] \in PoolEntry /\ backend[s] \subseteq Of(Tool, s)
  BY DEF GatewayTypes, RowsFit
<1>2. /\ [pool[s] EXCEPT !.known = TRUE, !.state = "Ready", !.tools = backend[s]] \in PoolEntry
      /\ [pool[s] EXCEPT !.known = TRUE, !.state = "Failed"] \in PoolEntry
  BY <1>1 DEF PoolEntry
<1>3. /\ Connected(s) = [pool EXCEPT ![s] = [pool[s] EXCEPT !.known = TRUE, !.state = "Ready", !.tools = backend[s]]]
      /\ Refused(s) = [pool EXCEPT ![s] = [pool[s] EXCEPT !.known = TRUE, !.state = "Failed"]]
  BY <1>1 DEF Connected, Refused, PoolEntry
<1>. QED
  BY <1>1, <1>2, <1>3 DEF PoolEntry

\* A step of an agent or of a staging fetch: no ready server is lost.
LEMMA PoolStepKept ==
  ASSUME GatewayInv, UNCHANGED <<row, rtool, calm, backend, gateway, rec>>,
         pool' \in [Server -> PoolEntry], agent' \in [Agent -> Operation], called' \in SUBSET Tool,
         called' \cap Denied = {}, \A a \in Agent : agent'[a].at # "idle" => agent'[a].tool \in Tool \ Denied,
         \A s \in Server : pool'[s].tools \subseteq Of(Tool, s) /\ (pool'[s].state = "Ready" => pool'[s].known),
         upsets' \in [UpsetKind -> Nat], Undisturbed' => Undisturbed,
         Undisturbed' => ConnectFits',
         Undisturbed' => \A s \in Server : pool[s].state = "Ready" => pool'[s].state = "Ready"
  PROVE  GatewayInv'
<1>0. GatewayTypes
  BY DEF GatewayInv
<1>1. UNCHANGED <<catalog, mcp, visible, gen, build, row, rtool, calm, backend, rec>>
  BY DEF gateway
<1>2. GatewayTypes'
  BY <1>1 DEF GatewayInv, GatewayTypes
<1>3. NothingDenied'
  BY <1>1 DEF GatewayInv, NothingDenied
<1>4. RowsFit' /\ RecFits' /\ StillRegistered'
  <2>1. RowsFit'
    BY <1>1 DEF GatewayInv, RowsFit
  <2>2. RecFits'
    BY <1>1 DEF GatewayInv, RecFits, Entering, Wanted
  <2>3. StillRegistered'
    BY <1>1 DEF GatewayInv, StillRegistered, Wanted
  <2>. QED
    BY <2>1, <2>2, <2>3
<1>5. BuildsFit' /\ \A n : UpToDate(n)' <=> UpToDate(n)
  BY <1>1, SameBuilds DEF GatewayInv
<1>6. ASSUME Undisturbed' PROVE CatalogReady' /\ Fresh'
  <2>1. Fresh'
    BY <1>1, <1>5, <1>6 DEF GatewayInv, Fresh, ToCome, Wanted
  <2>2. CatalogReady /\ rec' = rec /\ catalog' = catalog
    BY <1>1, <1>6 DEF GatewayInv
  <2>3. \A n \in catalog : n[1] \in Server
    BY <1>0, GatewayTyped
  <2>4. rec.at \in {"persist"} \union Adding => rec.now \in Server
    BY DEF GatewayInv, RecFits, Adding
  <2>5. CatalogReady'
    BY <1>6, <2>2, <2>3, <2>4 DEF CatalogReady, Entering
  <2>. QED
    BY <2>1, <2>5
<1>. QED
  BY <1>2, <1>3, <1>4, <1>5, <1>6 DEF GatewayInv

\* An operation that stands still or ends leaves the others' connections.
LEMMA ConnectsKept ==
  ASSUME GatewayInv, Undisturbed, NEW s \in Server,
         \A u \in Server : pool'[u].entry = pool[u].entry /\ (u # s => pool'[u] = pool[u]),
         \A a \in Agent : agent'[a] = agent[a] \/ agent'[a].at # "connect",
         \/ \A u \in Server : pool'[u] = pool[u]
         \/ pool[s].state # "Connecting"
         \/ \E a \in Agent : /\ agent[a].at = "connect" /\ SameEntry(a) /\ agent[a].tool[1] = s
                             /\ agent'[a].at # "connect"
  PROVE  ConnectFits'
<1>1. ConnectFits /\ \A a \in Agent : agent[a].at # "idle" => agent[a].tool[1] \in Server
  BY GatewayTyped DEF GatewayInv, NothingDenied
<1>2. \A a \in Agent : agent'[a].at = "connect" => agent'[a] = agent[a]
  OBVIOUS
<1>3. \A a \in Agent : agent'[a].at = "connect" => (SameEntry(a)' <=> SameEntry(a))
  BY <1>1, <1>2 DEF SameEntry
<1>4. ASSUME NEW a \in Agent, agent'[a].at = "connect"
      PROVE  /\ agent'[a].entry <= pool'[agent'[a].tool[1]].entry
             /\ SameEntry(a)' => pool'[agent'[a].tool[1]].state = "Connecting"
  <2>1. agent'[a] = agent[a] /\ agent[a].at = "connect" /\ agent[a].tool[1] \in Server
    BY <1>1, <1>2, <1>4
  <2>2. agent[a].entry <= pool[agent[a].tool[1]].entry /\ (SameEntry(a) => pool[agent[a].tool[1]].state = "Connecting")
    BY <1>1, <2>1 DEF ConnectFits
  <2>3. SameEntry(a)' /\ agent[a].tool[1] = s => \A u \in Server : pool'[u] = pool[u]
    BY <1>1, <1>3, <1>4, <2>1, <2>2 DEF ConnectFits
  <2>. QED
    BY <1>3, <1>4, <2>1, <2>2, <2>3
<1>5. ASSUME NEW a \in Agent, NEW b \in Agent, agent'[a].at = "connect", agent'[b].at = "connect",
             SameEntry(a)', SameEntry(b)', agent'[a].tool[1] = agent'[b].tool[1]
      PROVE  a = b
  BY <1>1, <1>2, <1>3, <1>5 DEF ConnectFits
<1>. QED
  BY <1>4, <1>5 DEF ConnectFits

\* What has room for one upset keeps count; the rest of an operation leaves
\* the counts alone.
LEMMA MayRefuseFacts ==
  ASSUME GatewayTypes, NEW s \in Server, MayRefuse(s)
  PROVE  upsets' \in [UpsetKind -> Nat] /\ (Undisturbed' => Undisturbed)
<1>1. "backend" \in UpsetKind
  BY DEF UpsetKind
<1>. QED
  BY <1>1, UpsetFacts DEF MayRefuse

LEMMA CallCheckKept ==
  ASSUME GatewayInv, NEW a \in Agent, NEW n \in Tool, CallCheck(a, n)
  PROVE  GatewayInv'
<1>1. /\ GatewayTypes /\ NothingDenied /\ RowsFit /\ agent \in [Agent -> Operation]
      /\ UNCHANGED <<row, rtool, off, calm, backend, gateway, rec, pool, called, upsets>>
      /\ n \in visible.set
  BY DEF GatewayInv, GatewayTypes, CallCheck, Leave, Free, Spend, registry, IsToolVisible
<1>2. PICK o : o = [AgentIdle EXCEPT !.at = "forward", !.tool = n]
  OBVIOUS
<1>3. agent' = [agent EXCEPT ![a] = o] /\ o \in Operation /\ o.at = "forward" /\ o.tool = n
  BY <1>2, OperationFacts DEF CallCheck
<1>4. agent' \in [Agent -> Operation] /\ agent'[a] = o /\ \A b \in Agent : b # a => agent'[b] = agent[b]
  BY <1>1, <1>3
<1>5. n \notin Denied
  BY <1>1 DEF NothingDenied
<1>6. \A b \in Agent : agent'[b].at # "idle" => agent'[b].tool \in Tool \ Denied
  BY <1>1, <1>3, <1>4, <1>5 DEF NothingDenied
<1>7. Undisturbed' => ConnectFits'
  <2>1. n[1] \in Server
    BY <1>1, GatewayTyped
  <2>2. \A b \in Agent : agent'[b] = agent[b] \/ agent'[b].at # "connect"
    BY <1>3, <1>4
  <2>3. \A u \in Server : pool'[u] = pool[u]
    BY <1>1
  <2>4. Undisturbed' => Undisturbed
    BY <1>1 DEF Undisturbed
  <2>. QED
    BY <2>1, <2>2, <2>3, <2>4, ConnectsKept
<1>8. /\ pool' \in [Server -> PoolEntry] /\ called' \in SUBSET Tool /\ called' \cap Denied = {}
      /\ \A s \in Server : pool'[s].tools \subseteq Of(Tool, s) /\ (pool'[s].state = "Ready" => pool'[s].known)
      /\ upsets' \in [UpsetKind -> Nat] /\ (Undisturbed' => Undisturbed)
      /\ \A s \in Server : pool[s].state = "Ready" => pool'[s].state = "Ready"
  BY <1>1 DEF GatewayTypes, NothingDenied, RowsFit, Undisturbed
<1>. QED
  BY <1>1, <1>4, <1>6, <1>7, <1>8, PoolStepKept

LEMMA ForwardKept ==
  ASSUME GatewayInv, NEW a \in Agent, Forward(a)
  PROVE  GatewayInv'
<1>1. /\ GatewayTypes /\ NothingDenied /\ RowsFit /\ agent \in [Agent -> Operation]
      /\ UNCHANGED <<row, rtool, off, calm, backend, gateway, rec, called, upsets>>
      /\ agent[a].at = "forward" /\ agent[a].tool \in Tool \ Denied /\ agent[a] \in Operation
  BY DEF GatewayInv, GatewayTypes, NothingDenied, Forward, Leave, registry
<1>2. PICK s \in Server : s = agent[a].tool[1]
  BY <1>1, GatewayTyped
<1>3. pool \in [Server -> PoolEntry] /\ pool[s] \in PoolEntry
  BY <1>1 DEF GatewayTypes
<1>4. PICK on : on = [agent[a] EXCEPT !.at = "connect", !.entry = pool[s].entry]
  OBVIOUS
<1>5. PICK to : to = [agent[a] EXCEPT !.at = "call", !.entry = pool[s].entry]
  OBVIOUS
<1>6. /\ on \in Operation /\ on.at = "connect" /\ on.tool = agent[a].tool /\ on.entry = pool[s].entry
      /\ to \in Operation /\ to.at = "call" /\ to.tool = agent[a].tool
  BY <1>1, <1>3, <1>4, <1>5 DEF Operation, PoolEntry
<1>7. PICK opened : opened = [pool[s] EXCEPT !.known = TRUE, !.state = "Connecting"]
  OBVIOUS
<1>8. opened \in PoolEntry /\ opened.state = "Connecting" /\ opened.entry = pool[s].entry /\ opened.tools = pool[s].tools
  BY <1>3, <1>7 DEF PoolEntry
<1>9. \/ agent' = [agent EXCEPT ![a] = AgentIdle] /\ pool' = pool
      \/ agent' = [agent EXCEPT ![a] = to] /\ pool' = pool
      \/ agent' = [agent EXCEPT ![a] = on] /\ pool' = [pool EXCEPT ![s] = opened] /\ pool[s].state \in {"Idle", "Failed"}
  BY <1>1, <1>2, <1>3, <1>4, <1>5, <1>7 DEF Forward
<1>10. Undisturbed' => Undisturbed
  BY <1>1 DEF Undisturbed
<1>11. CASE /\ agent' = [agent EXCEPT ![a] = AgentIdle] \/ agent' = [agent EXCEPT ![a] = to]
            /\ pool' = pool
  <2>1. agent' \in [Agent -> Operation] /\ agent'[a].at \in {"idle", "call"} /\ (agent'[a].at # "idle" => agent'[a].tool = agent[a].tool)
    BY <1>1, <1>6, <1>11, OperationFacts
  <2>2. \A b \in Agent : b # a => agent'[b] = agent[b]
    BY <1>1, <1>11
  <2>3. \A b \in Agent : agent'[b].at # "idle" => agent'[b].tool \in Tool \ Denied
    BY <1>1, <2>1, <2>2 DEF NothingDenied
  <2>4. Undisturbed' => ConnectFits'
    <3>1. \A b \in Agent : agent'[b] = agent[b] \/ agent'[b].at # "connect"
      BY <2>1, <2>2
    <3>2. \A u \in Server : pool'[u] = pool[u]
      BY <1>11
    <3>. QED
      BY <1>10, <3>1, <3>2, ConnectsKept
  <2>5. /\ pool' \in [Server -> PoolEntry] /\ called' \in SUBSET Tool /\ called' \cap Denied = {}
        /\ \A u \in Server : pool'[u].tools \subseteq Of(Tool, u) /\ (pool'[u].state = "Ready" => pool'[u].known)
        /\ upsets' \in [UpsetKind -> Nat]
        /\ \A u \in Server : pool[u].state = "Ready" => pool'[u].state = "Ready"
    BY <1>1, <1>11 DEF GatewayTypes, NothingDenied, RowsFit
  <2>. QED
    BY <1>1, <1>10, <2>1, <2>3, <2>4, <2>5, PoolStepKept
<1>12. CASE agent' = [agent EXCEPT ![a] = on] /\ pool' = [pool EXCEPT ![s] = opened] /\ pool[s].state \in {"Idle", "Failed"}
  <2>1. agent' \in [Agent -> Operation] /\ agent'[a] = on /\ \A b \in Agent : b # a => agent'[b] = agent[b]
    BY <1>1, <1>6, <1>12
  <2>2. pool' \in [Server -> PoolEntry] /\ pool'[s] = opened /\ \A u \in Server : u # s => pool'[u] = pool[u]
    BY <1>3, <1>8, <1>12
  <2>3. \A b \in Agent : agent'[b].at # "idle" => agent'[b].tool \in Tool \ Denied
    BY <1>1, <1>6, <2>1 DEF NothingDenied
  <2>4. \A u \in Server : pool'[u].entry = pool[u].entry /\ pool'[u].tools = pool[u].tools
    BY <1>8, <2>2
  <2>5. ASSUME Undisturbed' PROVE ConnectFits'
    <3>1. ConnectFits /\ \A b \in Agent : agent[b].at # "idle" => agent[b].tool[1] \in Server
      BY <1>10, <2>5, GatewayTyped DEF GatewayInv, NothingDenied
    <3>2. \A b \in Agent : b # a /\ agent[b].at = "connect" => (SameEntry(b)' <=> SameEntry(b))
      BY <2>1, <2>4, <3>1 DEF SameEntry
    <3>3. \A b \in Agent : b # a /\ agent[b].at = "connect" /\ SameEntry(b) => agent[b].tool[1] # s
      BY <1>12, <3>1 DEF ConnectFits
    <3>4. ASSUME NEW b \in Agent, agent'[b].at = "connect"
          PROVE  /\ agent'[b].entry <= pool'[agent'[b].tool[1]].entry
                 /\ SameEntry(b)' => pool'[agent'[b].tool[1]].state = "Connecting"
      <4>1. CASE b = a
        <5>1. agent'[b].tool[1] = s /\ agent'[b].entry = pool[s].entry /\ pool[s].entry \in Nat
          BY <1>2, <1>3, <1>6, <2>1, <4>1 DEF PoolEntry
        <5>. QED
          BY <1>8, <2>2, <5>1
      <4>2. CASE b # a
        BY <2>1, <2>2, <2>4, <3>1, <3>2, <3>3, <3>4, <4>2 DEF ConnectFits
      <4>. QED
        BY <4>1, <4>2
    <3>5. ASSUME NEW b \in Agent, NEW c \in Agent, agent'[b].at = "connect", agent'[c].at = "connect",
                 SameEntry(b)', SameEntry(c)', agent'[b].tool[1] = agent'[c].tool[1]
          PROVE  b = c
      BY <1>2, <1>6, <2>1, <3>1, <3>2, <3>3, <3>5 DEF ConnectFits
    <3>. QED
      BY <3>4, <3>5 DEF ConnectFits
  <2>6. /\ called' \in SUBSET Tool /\ called' \cap Denied = {} /\ upsets' \in [UpsetKind -> Nat]
        /\ \A u \in Server : pool'[u].tools \subseteq Of(Tool, u) /\ (pool'[u].state = "Ready" => pool'[u].known)
        /\ \A u \in Server : pool[u].state = "Ready" => pool'[u].state = "Ready"
    <3>1. called' = called /\ called \in SUBSET Tool /\ called \cap Denied = {} /\ upsets' = upsets /\ upsets \in [UpsetKind -> Nat]
      BY <1>1 DEF GatewayTypes, NothingDenied
    <3>2. \A u \in Server : pool'[u].state = "Ready" => u # s
      BY <1>8, <2>2
    <3>3. \A u \in Server : pool[u].state = "Ready" => u # s
      BY <1>12
    <3>. QED
      BY <1>1, <2>2, <2>4, <3>1, <3>2, <3>3 DEF RowsFit
  <2>. QED
    BY <1>1, <1>10, <2>1, <2>2, <2>3, <2>5, <2>6, PoolStepKept
<1>. QED
  BY <1>9, <1>11, <1>12

\* The pool after a connection that ended, or none.
LEMMA ConnectionKept ==
  ASSUME GatewayInv, NEW s \in Server, UNCHANGED <<row, rtool, calm, backend, gateway, rec>>, called' = called,
         upsets' \in [UpsetKind -> Nat], Undisturbed' => Undisturbed,
         \/ pool' = pool
         \/ (pool[s].state # "Ready" \/ ~Undisturbed') /\ (pool' = Connected(s) \/ pool' = Refused(s)),
         agent' \in [Agent -> Operation], \A a \in Agent : agent'[a].at # "idle" => agent'[a].tool \in Tool \ Denied,
         Undisturbed' => \A a \in Agent : agent'[a] = agent[a] \/ agent'[a].at # "connect",
         Undisturbed' => \/ pool' = pool
                         \/ pool[s].state # "Connecting"
                         \/ \E a \in Agent : /\ agent[a].at = "connect" /\ SameEntry(a) /\ agent[a].tool[1] = s
                                             /\ agent'[a].at # "connect"
  PROVE  GatewayInv'
<1>1. GatewayTypes /\ RowsFit /\ NothingDenied
  BY DEF GatewayInv
<1>2. pool \in [Server -> PoolEntry] /\ called \in SUBSET Tool /\ called \cap Denied = {}
  BY <1>1 DEF GatewayTypes, NothingDenied
<1>3. /\ pool' \in [Server -> PoolEntry] /\ \A u \in Server : u # s => pool'[u] = pool[u]
      /\ pool'[s].entry = pool[s].entry
      /\ pool' = pool \/ (pool'[s].known /\ (pool'[s].tools = pool[s].tools \/ pool'[s].tools = backend[s]))
  BY <1>1, <1>2, PoolFacts
<1>4. \A u \in Server : pool'[u].tools \subseteq Of(Tool, u) /\ (pool'[u].state = "Ready" => pool'[u].known)
  BY <1>1, <1>3 DEF RowsFit
<1>5. Undisturbed' => \A u \in Server : pool[u].state = "Ready" => pool'[u].state = "Ready"
  BY <1>3
<1>6. Undisturbed' => ConnectFits'
  BY <1>3, ConnectsKept
<1>. QED
  BY <1>2, <1>3, <1>4, <1>5, <1>6, PoolStepKept

LEMMA ConnectEndKept ==
  ASSUME GatewayInv, NEW a \in Agent, ConnectEnd(a)
  PROVE  GatewayInv'
<1>1. /\ GatewayTypes /\ NothingDenied /\ RowsFit /\ agent \in [Agent -> Operation]
      /\ UNCHANGED <<row, rtool, calm, backend, gateway, rec>> /\ called' = called
      /\ agent[a].at = "connect" /\ agent[a].tool \in Tool \ Denied /\ agent[a] \in Operation
      /\ upsets \in [UpsetKind -> Nat]
  BY DEF GatewayInv, GatewayTypes, NothingDenied, ConnectEnd, Leave, registry
<1>2. PICK s \in Server : s = agent[a].tool[1]
  BY <1>1, GatewayTyped
<1>3. PICK to : to = [agent[a] EXCEPT !.at = "call"]
  OBVIOUS
<1>4. to \in Operation /\ to.at = "call" /\ to.tool = agent[a].tool
  BY <1>1, <1>3 DEF Operation
<1>5. /\ \/ agent' = [agent EXCEPT ![a] = to] /\ pool' = (IF SameEntry(a) THEN Connected(s) ELSE pool) /\ upsets' = upsets
         \/ agent' = [agent EXCEPT ![a] = AgentIdle] /\ pool' = (IF SameEntry(a) THEN Refused(s) ELSE pool) /\ MayRefuse(s)
  BY <1>1, <1>2, <1>3 DEF ConnectEnd
<1>6. agent' = [agent EXCEPT ![a] = to] \/ agent' = [agent EXCEPT ![a] = AgentIdle]
  BY <1>5
<1>7. /\ agent' \in [Agent -> Operation] /\ \A b \in Agent : b # a => agent'[b] = agent[b]
      /\ agent'[a].at \in {"call", "idle"} /\ (agent'[a].at = "call" => agent'[a].tool = agent[a].tool)
  BY <1>1, <1>4, <1>6, OperationFacts
<1>8. \A b \in Agent : agent'[b].at # "idle" => agent'[b].tool \in Tool \ Denied
  BY <1>1, <1>7 DEF NothingDenied
<1>9. upsets' \in [UpsetKind -> Nat] /\ (Undisturbed' => Undisturbed)
  BY <1>1, <1>5, MayRefuseFacts DEF Undisturbed
<1>10. SameEntry(a) /\ Undisturbed => pool[s].state = "Connecting"
  BY <1>1, <1>2 DEF GatewayInv, ConnectFits
<1>11. pool' = pool \/ (SameEntry(a) /\ (pool' = Connected(s) \/ pool' = Refused(s)))
  BY <1>5
<1>12. \A b \in Agent : agent'[b] = agent[b] \/ agent'[b].at # "connect"
  BY <1>7
<1>13. \/ pool' = pool
       \/ (pool[s].state # "Ready" \/ ~Undisturbed') /\ (pool' = Connected(s) \/ pool' = Refused(s))
  BY <1>9, <1>10, <1>11
<1>14. \/ pool' = pool
       \/ \E b \in Agent : agent[b].at = "connect" /\ SameEntry(b) /\ agent[b].tool[1] = s /\ agent'[b].at # "connect"
  BY <1>1, <1>2, <1>7, <1>11
<1>. QED
  BY <1>1, <1>7, <1>8, <1>9, <1>12, <1>13, <1>14, ConnectionKept

LEMMA CallKept ==
  ASSUME GatewayInv, NEW a \in Agent, Call(a)
  PROVE  GatewayInv'
<1>1. /\ GatewayTypes /\ NothingDenied /\ RowsFit /\ agent \in [Agent -> Operation] /\ pool \in [Server -> PoolEntry]
      /\ UNCHANGED <<row, rtool, calm, backend, gateway, rec>>
      /\ agent[a].at = "call" /\ agent[a].tool \in Tool \ Denied
      /\ agent' = [agent EXCEPT ![a] = AgentIdle]
      /\ upsets \in [UpsetKind -> Nat]
  BY DEF GatewayInv, GatewayTypes, NothingDenied, Call, Leave, registry
<1>2. PICK s \in Server : s = agent[a].tool[1]
  BY <1>1, GatewayTyped
<1>3. PICK marked : marked = [pool[s] EXCEPT !.state = "Failed"]
  OBVIOUS
<1>4. marked \in PoolEntry /\ marked.state = "Failed" /\ marked.tools = pool[s].tools /\ marked.entry = pool[s].entry
  BY <1>1, <1>3 DEF PoolEntry
<1>5. /\ called' = called \/ called' = called \union {agent[a].tool}
      /\ \/ pool' = pool /\ upsets' = upsets
         \/ Upset("backend") /\ (pool' = [pool EXCEPT ![s] = marked] \/ pool' = pool)
  BY <1>1, <1>2, <1>3 DEF Call
<1>6. "backend" \in UpsetKind
  BY DEF UpsetKind
<1>7. /\ upsets' \in [UpsetKind -> Nat] /\ (Undisturbed' => Undisturbed)
      /\ Undisturbed' => pool' = pool
  <2>1. Upset("backend") => upsets' \in [UpsetKind -> Nat] /\ (Undisturbed' => Undisturbed) /\ ~Undisturbed'
    BY <1>1, <1>6, UpsetFacts
  <2>2. upsets' = upsets => upsets' \in [UpsetKind -> Nat] /\ (Undisturbed' => Undisturbed)
    BY <1>1 DEF Undisturbed
  <2>. QED
    BY <1>5, <2>1, <2>2
<1>8. agent' \in [Agent -> Operation] /\ agent'[a].at = "idle" /\ \A b \in Agent : b # a => agent'[b] = agent[b]
  BY <1>1, OperationFacts
<1>9. \A b \in Agent : agent'[b].at # "idle" => agent'[b].tool \in Tool \ Denied
  BY <1>1, <1>8 DEF NothingDenied
<1>10. called' \in SUBSET Tool /\ called' \cap Denied = {}
  BY <1>1, <1>5 DEF GatewayTypes, NothingDenied
<1>11. /\ pool' \in [Server -> PoolEntry]
       /\ \A u \in Server : pool'[u].tools \subseteq Of(Tool, u) /\ (pool'[u].state = "Ready" => pool'[u].known)
  <2>1. CASE pool' = pool
    BY <1>1, <2>1 DEF RowsFit
  <2>2. CASE pool' = [pool EXCEPT ![s] = marked]
    <3>1. pool' \in [Server -> PoolEntry] /\ pool'[s] = marked /\ \A u \in Server : u # s => pool'[u] = pool[u]
      BY <1>1, <1>4, <2>2
    <3>. QED
      BY <1>1, <1>4, <3>1 DEF RowsFit
  <2>. QED
    BY <1>5, <2>1, <2>2
<1>12. Undisturbed' => \A u \in Server : pool[u].state = "Ready" => pool'[u].state = "Ready"
  BY <1>7
<1>13. Undisturbed' => ConnectFits'
  <2>1. \A b \in Agent : agent'[b] = agent[b] \/ agent'[b].at # "connect"
    BY <1>8
  <2>2. Undisturbed' => \A u \in Server : pool'[u] = pool[u]
    BY <1>7
  <2>. QED
    BY <1>7, <2>1, <2>2, ConnectsKept
<1>. QED
  BY <1>1, <1>7, <1>8, <1>9, <1>10, <1>11, <1>12, <1>13, PoolStepKept

LEMMA FetchKept ==
  ASSUME GatewayInv, NEW s \in Server, Fetch(s)
  PROVE  GatewayInv'
<1>1. /\ GatewayTypes /\ NothingDenied /\ agent \in [Agent -> Operation] /\ upsets \in [UpsetKind -> Nat]
      /\ UNCHANGED <<row, rtool, calm, backend, gateway, rec>> /\ called' = called /\ agent' = agent
      /\ pool[s].state \in {"Idle", "Failed"}
  BY DEF GatewayInv, GatewayTypes, Fetch, Leave, registry
<1>2. upsets' \in [UpsetKind -> Nat] /\ (Undisturbed' => Undisturbed)
  BY <1>1, MayRefuseFacts DEF Fetch, Undisturbed
<1>3. pool' = Connected(s) \/ pool' = Refused(s)
  BY DEF Fetch
<1>4. \A a \in Agent : agent'[a].at # "idle" => agent'[a].tool \in Tool \ Denied
  BY <1>1 DEF NothingDenied
<1>5. pool[s].state # "Ready" /\ pool[s].state # "Connecting"
  BY <1>1
<1>. QED
  BY <1>1, <1>2, <1>3, <1>4, <1>5, ConnectionKept

\* A backend's tools change: nothing of the gateway does.
LEMMA ChangeToolsKept ==
  ASSUME GatewayInv, NEW s \in Server, ChangeTools(s)
  PROVE  GatewayInv'
<1>1. /\ UNCHANGED <<row, rtool, calm, pool, catalog, visible, gen, build, rec, agent, called>>
      /\ Upset("change")
      /\ \E T \in SUBSET ({s} \X ToolName) : backend' = [backend EXCEPT ![s] = T]
  BY DEF ChangeTools, registry, gateway
<1>2. "change" \in UpsetKind
  BY DEF UpsetKind
<1>3. GatewayTypes
  BY DEF GatewayInv
<1>4. upsets' \in [UpsetKind -> Nat] /\ (Undisturbed' => Undisturbed)
  BY <1>1, <1>2, <1>3, UpsetFacts
<1>5. PICK T \in SUBSET ({s} \X ToolName) : backend' = [backend EXCEPT ![s] = T]
  BY <1>1
<1>6. T \subseteq Of(Tool, s)
  BY DEF Of, Tool
<1>7. backend' \in [Server -> SUBSET Tool] /\ backend'[s] = T /\ \A u \in Server : u # s => backend'[u] = backend[u]
  BY <1>3, <1>5, <1>6 DEF GatewayTypes, Of
<1>8. GatewayTypes' /\ RowsFit'
  <2>1. RowsFit'
    BY <1>1, <1>6, <1>7 DEF GatewayInv, RowsFit
  <2>2. GatewayTypes'
    BY <1>1, <1>3, <1>4, <1>7 DEF GatewayTypes
  <2>. QED
    BY <2>1, <2>2
<1>9. NothingDenied' /\ RecFits' /\ StillRegistered' /\ BuildsFit'
  BY <1>1, <1>4 DEF GatewayInv, NothingDenied, RecFits, Entering, Wanted, StillRegistered, BuildsFit
<1>10. \A n : UpToDate(n)' <=> UpToDate(n)
  BY <1>1, SameBuilds
<1>11. Undisturbed' => ConnectFits' /\ CatalogReady'
  BY <1>1, <1>4 DEF GatewayInv, ConnectFits, CatalogReady, SameEntry, Entering
<1>12. Undisturbed' => Fresh'
  BY <1>1, <1>4, <1>10 DEF GatewayInv, Fresh, ToCome, Wanted
<1>. QED
  BY <1>8, <1>9, <1>11, <1>12 DEF GatewayInv

\* Writing the health of a server leaves what is registered.
SameRegistry == /\ row' \in [Server -> ServerRow]
                /\ \A s \in Server : /\ row'[s].owner = row[s].owner /\ row'[s].cfg = row[s].cfg
                                     /\ row'[s].proxy = row[s].proxy

LEMMA HealthFacts ==
  ASSUME GatewayTypes, row' = row \/ \E s \in Server, status \in {"pending", "active", "failed"} : Health(s, status)
  PROVE  SameRegistry
<1>1. row \in [Server -> ServerRow]
  BY DEF GatewayTypes
<1>2. CASE row' = row
  BY <1>1, <1>2 DEF SameRegistry
<1>3. ASSUME NEW s \in Server, NEW status \in {"pending", "active", "failed"}, Health(s, status)
      PROVE  SameRegistry
  <2>1. PICK r : r = [row[s] EXCEPT !.status = status]
    OBVIOUS
  <2>2. r \in ServerRow /\ r.owner = row[s].owner /\ r.cfg = row[s].cfg /\ r.proxy = row[s].proxy
    BY <1>1, <2>1 DEF ServerRow
  <2>3. row' = row \/ row' = [row EXCEPT ![s] = r]
    BY <1>1, <1>3, <2>1 DEF Health
  <2>. QED
    BY <1>1, <1>2, <2>2, <2>3 DEF SameRegistry
<1>. QED
  BY <1>2, <1>3

\* A step of the reconciler or of a build: agents and backends stand still,
\* and no server is registered or forgotten.
LEMMA StepKept ==
  ASSUME GatewayInv, UNCHANGED <<backend, agent, called>>, SameRegistry,
         rtool' \in [Tool -> {"absent", "enabled", "disabled"}],
         pool' \in [Server -> PoolEntry], catalog' \in SUBSET Tool,
         \A s \in Server : pool'[s].tools \subseteq Of(Tool, s) /\ (pool'[s].state = "Ready" => pool'[s].known),
         visible' \in [built : BOOLEAN, set : SUBSET Tool], visible'.set \cap Denied = {},
         gen' \in Builder \union {"none"},
         build' \in [Builder -> Build], \A b \in Builder : build'[b].set \cap Denied = {},
         rec' \in Reconciler, calm' \in BOOLEAN, upsets' \in [UpsetKind -> Nat],
         RecFits', StillRegistered', BuildsFit', Undisturbed' => ConnectFits' /\ CatalogReady' /\ Fresh'
  PROVE  GatewayInv'
<1>1. GatewayTypes /\ NothingDenied /\ RowsFit
  BY DEF GatewayInv
<1>2. GatewayTypes'
  BY <1>1 DEF GatewayTypes, SameRegistry
<1>3. NothingDenied'
  BY <1>1 DEF NothingDenied
<1>4. RowsFit'
  BY <1>1 DEF RowsFit, SameRegistry
<1>. QED
  BY <1>2, <1>3, <1>4 DEF GatewayInv

\* What the conjuncts that a step does not touch give it.
LEMMA StepFacts ==
  ASSUME GatewayInv
  PROVE  /\ GatewayTypes /\ RecFits /\ StillRegistered /\ BuildsFit
         /\ pool \in [Server -> PoolEntry] /\ catalog \in SUBSET Tool /\ rec \in Reconciler /\ calm \in BOOLEAN
         /\ row \in [Server -> ServerRow] /\ rtool \in [Tool -> {"absent", "enabled", "disabled"}]
         /\ \A s \in Server : pool[s].tools \subseteq Of(Tool, s) /\ (pool[s].state = "Ready" => pool[s].known)
         /\ visible \in [built : BOOLEAN, set : SUBSET Tool] /\ visible.set \cap Denied = {}
         /\ gen \in Builder \union {"none"} /\ upsets \in [UpsetKind -> Nat]
         /\ build \in [Builder -> Build] /\ \A b \in Builder : build[b].set \cap Denied = {}
         /\ Undisturbed => ConnectFits /\ CatalogReady /\ Fresh
  BY DEF GatewayInv, GatewayTypes, NothingDenied, RowsFit

\* A step of a build: the reconciler stands still.
LEMMA BuildStepKept ==
  ASSUME GatewayInv, UNCHANGED <<row, rtool, calm, pool, backend, agent, called, catalog, rec>>,
         visible' \in [built : BOOLEAN, set : SUBSET Tool], visible'.set \cap Denied = {},
         gen' \in Builder \union {"none"},
         build' \in [Builder -> Build], \A b \in Builder : build'[b].set \cap Denied = {},
         upsets' \in [UpsetKind -> Nat], Undisturbed' => Undisturbed,
         BuildsFit', Undisturbed' => \A n \in catalog : UpToDate(n) => UpToDate(n)'
  PROVE  GatewayInv'
<1>1. RecFits' /\ StillRegistered'
  BY StepFacts DEF RecFits, StillRegistered, Wanted, Entering
<1>2. Undisturbed' => ConnectFits' /\ CatalogReady'
  BY StepFacts DEF ConnectFits, CatalogReady, SameEntry, Entering
<1>3. Undisturbed' => Fresh'
  BY StepFacts DEF Fresh, ToCome, Wanted
<1>4. SameRegistry
  BY StepFacts DEF SameRegistry
<1>. QED
  BY <1>1, <1>2, <1>3, <1>4, StepFacts, StepKept

\* A build that starts takes the whole catalog.
LEMMA BuildStartFacts ==
  ASSUME GatewayInv, NEW b \in Builder, BuildStart(b)
  PROVE  /\ gen' = b /\ catalog' = catalog /\ visible' = visible
         /\ build' \in [Builder -> Build] /\ \A c \in Builder : build'[c].set \cap Denied = {}
         /\ BuildsFit' /\ \A n \in catalog : UpToDate(n)'
<1>1. build \in [Builder -> Build] /\ catalog \in SUBSET Tool
  BY StepFacts
<1>2. PICK new : new = [at |-> IF catalog = {} THEN "write" ELSE "read", names |-> catalog, set |-> {}]
  OBVIOUS
<1>3. new \in Build /\ new.at \in {"read", "write"} /\ new.names = catalog /\ new.set = {} /\ (new.at = "write" => catalog = {})
  BY <1>1, <1>2 DEF Build
<1>4. gen' = b /\ build' = [build EXCEPT ![b] = new] /\ catalog' = catalog /\ visible' = visible
  BY <1>2 DEF BuildStart
<1>5. build' \in [Builder -> Build] /\ build'[b] = new /\ \A c \in Builder : c # b => build'[c] = build[c]
  BY <1>1, <1>3, <1>4
<1>6. b # "none"
  BY DEF Builder
<1>7. \A c \in Builder : build'[c].set \cap Denied = {}
  BY <1>3, <1>5, StepFacts
<1>8. BuildsFit'
  BY <1>3, <1>4, <1>5, <1>6 DEF BuildsFit
<1>9. \A n \in catalog : UpToDate(n)'
  BY <1>3, <1>4, <1>5 DEF UpToDate
<1>. QED
  BY <1>4, <1>5, <1>7, <1>8, <1>9

LEMMA StartupBuildKept ==
  ASSUME GatewayInv, StartupBuild
  PROVE  GatewayInv'
<1>1. "startup" \in Builder /\ BuildStart("startup")
  BY DEF Builder, StartupBuild
<1>2. UNCHANGED <<row, rtool, calm, pool, backend, agent, called, rec, upsets>>
  BY DEF StartupBuild, registry, outside
<1>3. Undisturbed' => Undisturbed
  BY <1>2 DEF Undisturbed
<1>. QED
  BY <1>1, <1>2, <1>3, BuildStartFacts, BuildStepKept, StepFacts

\* An item of the registry that is read is as it is now.
LEMMA BuildReadKept ==
  ASSUME GatewayInv, NEW b \in Builder, BuildRead(b)
  PROVE  GatewayInv'
<1>1. /\ UNCHANGED <<row, rtool, calm, pool, backend, agent, called, catalog, rec, visible, gen>>
      /\ build[b].at = "read" /\ build \in [Builder -> Build] /\ build[b] \in Build
      /\ upsets \in [UpsetKind -> Nat] /\ GatewayTypes
  BY StepFacts DEF BuildRead, registry, outside
<1>2. gen # "none"
  BY <1>1, StepFacts DEF BuildsFit
<1>3. CASE UNCHANGED upsets /\ build' = [build EXCEPT ![b].at = "write", ![b].set = VisibleOf(build[b].names)]
  <2>1. PICK new : new = [build[b] EXCEPT !.at = "write", !.set = VisibleOf(build[b].names)]
    OBVIOUS
  <2>2. /\ VisibleOf(build[b].names) \in SUBSET Tool /\ VisibleOf(build[b].names) \cap Denied = {}
        /\ \A n \in build[b].names : n \in VisibleOf(build[b].names) <=> MayBeSeen(n)
    BY <1>1 DEF VisibleOf, Build, MayBeSeen
  <2>3. new \in Build /\ new.at = "write" /\ new.set = VisibleOf(build[b].names)
    BY <1>1, <2>1, <2>2 DEF Build
  <2>4. build' = [build EXCEPT ![b] = new]
    BY <1>1, <1>3, <2>1
  <2>5. build' \in [Builder -> Build] /\ build'[b] = new /\ \A c \in Builder : c # b => build'[c] = build[c]
    BY <1>1, <2>3, <2>4
  <2>6. \A c \in Builder : build'[c].set \cap Denied = {}
    BY <2>2, <2>3, <2>5, StepFacts
  <2>7. Undisturbed' => Undisturbed
    BY <1>3 DEF Undisturbed
  <2>8. BuildsFit'
    BY <1>1, <1>2, <2>3, <2>5, <2>7, StepFacts DEF BuildsFit
  <2>9. \A n \in catalog : UpToDate(n) => UpToDate(n)'
    <3>. SUFFICES ASSUME NEW n \in catalog, UpToDate(n) PROVE UpToDate(n)'
      OBVIOUS
    <3>1. MayBeSeen(n)' <=> MayBeSeen(n)
      BY <1>1 DEF MayBeSeen
    <3>2. CASE gen = b
      BY <1>1, <1>2, <2>2, <2>3, <2>5, <3>1, <3>2 DEF UpToDate
    <3>3. CASE gen # b
      BY <1>1, <1>2, <2>5, <3>1, <3>3, StepFacts DEF UpToDate
    <3>. QED
      BY <3>2, <3>3
  <2>. QED
    BY <1>1, <1>3, <2>5, <2>6, <2>7, <2>8, <2>9, StepFacts, BuildStepKept
<1>4. CASE Upset("registry") /\ build' = [build EXCEPT ![b] = Built]
  <2>1. "registry" \in UpsetKind
    BY DEF UpsetKind
  <2>2. upsets' \in [UpsetKind -> Nat] /\ ~Undisturbed'
    BY <1>1, <1>4, <2>1, UpsetFacts
  <2>3. Built \in Build /\ Built.at = "done" /\ Built.set = {}
    BY DEF Built, NoBuild, Build
  <2>4. build' \in [Builder -> Build] /\ build'[b] = Built /\ \A c \in Builder : c # b => build'[c] = build[c]
    BY <1>1, <1>4, <2>3
  <2>5. \A c \in Builder : build'[c].set \cap Denied = {}
    BY <2>3, <2>4, StepFacts
  <2>6. BuildsFit'
    BY <1>1, <1>2, <2>2 DEF BuildsFit
  <2>. QED
    BY <1>1, <2>2, <2>4, <2>5, <2>6, StepFacts, BuildStepKept
<1>. QED
  BY <1>3, <1>4 DEF BuildRead

\* Only the newest build writes, and it writes what it read.
LEMMA BuildWriteKept ==
  ASSUME GatewayInv, NEW b \in Builder, BuildWrite(b)
  PROVE  GatewayInv'
<1>1. /\ UNCHANGED <<row, rtool, calm, pool, backend, agent, called, catalog, rec, gen, upsets>>
      /\ build[b].at = "write" /\ build \in [Builder -> Build] /\ build[b] \in Build
      /\ build' = [build EXCEPT ![b] = Built]
      /\ visible' = IF gen = b THEN [built |-> TRUE, set |-> build[b].set] ELSE visible
  BY StepFacts DEF BuildWrite, registry, outside
<1>2. gen # "none"
  BY <1>1, StepFacts DEF BuildsFit
<1>3. Built \in Build /\ Built.at = "done" /\ Built.set = {}
  BY DEF Built, NoBuild, Build
<1>4. build' \in [Builder -> Build] /\ build'[b] = Built /\ \A c \in Builder : c # b => build'[c] = build[c]
  BY <1>1, <1>3
<1>5. \A c \in Builder : build'[c].set \cap Denied = {}
  BY <1>3, <1>4, StepFacts
<1>6. /\ gen = b => visible'.built /\ visible'.set = build[b].set
      /\ gen # b => visible' = visible
      /\ visible' \in [built : BOOLEAN, set : SUBSET Tool]
  BY <1>1, StepFacts DEF Build
<1>7. visible'.set \cap Denied = {}
  BY <1>6, StepFacts
<1>8. Undisturbed' => Undisturbed
  BY <1>1 DEF Undisturbed
<1>9. BuildsFit'
  BY <1>1, <1>2, <1>3, <1>4, <1>6, <1>8, StepFacts DEF BuildsFit
<1>10. \A n \in catalog : UpToDate(n) => UpToDate(n)'
  <2>. SUFFICES ASSUME NEW n \in catalog, UpToDate(n) PROVE UpToDate(n)'
    OBVIOUS
  <2>1. MayBeSeen(n)' <=> MayBeSeen(n)
    BY <1>1 DEF MayBeSeen
  <2>2. CASE gen = b
    BY <1>1, <1>2, <1>3, <1>4, <1>6, <2>1, <2>2 DEF UpToDate
  <2>3. CASE gen # b
    BY <1>1, <1>2, <1>4, <1>6, <2>1, <2>3, StepFacts DEF UpToDate
  <2>. QED
    BY <2>2, <2>3
<1>. QED
  BY <1>1, <1>4, <1>5, <1>6, <1>7, <1>8, <1>9, <1>10, StepFacts, BuildStepKept

\* A step of the reconciler that leaves the pool and the gateway alone, but
\* for what the MCP server lists.
LEMMA RecStepKept ==
  ASSUME GatewayInv, UNCHANGED <<rtool, calm, pool, backend, agent, called, catalog, visible, gen, build>>,
         SameRegistry, rec' \in Reconciler, RecFits', StillRegistered',
         upsets' \in [UpsetKind -> Nat], Undisturbed' => Undisturbed, Undisturbed' => CatalogReady',
         Undisturbed' /\ calm /\ rec'.at \notin Adding =>
           rec.at \notin Adding /\ \A n \in catalog : ToCome(n[1]) => UpToDate(n) \/ ToCome(n[1])'
  PROVE  GatewayInv'
<1>1. BuildsFit' /\ \A n : UpToDate(n)' <=> UpToDate(n)
  BY SameBuilds, StepFacts
<1>2. Undisturbed' => ConnectFits'
  BY StepFacts DEF ConnectFits, SameEntry
<1>3. Undisturbed' => Fresh'
  BY <1>1, StepFacts DEF Fresh
<1>. QED
  BY <1>1, <1>2, <1>3, StepFacts, StepKept

LEMMA TickKept ==
  ASSUME GatewayInv, Tick
  PROVE  GatewayInv'
<1>1. /\ UNCHANGED <<row, rtool, calm, pool, backend, agent, called, catalog, visible, gen, build, upsets>>
      /\ rec.at = "idle" /\ rec' = [rec EXCEPT !.at = "list"] /\ "list" \in RecPlace
  BY DEF Tick, RecAt, registry, outside, gateway, RecPlace
<1>2. /\ rec' \in Reconciler /\ rec'.at = "list" /\ rec'.todo = rec.todo /\ rec'.now = rec.now /\ Wanted' = Wanted
      /\ rec'.drift = rec.drift
  BY <1>1, RecGoes, StepFacts
<1>3. rec.todo = {} /\ (Undisturbed' => Undisturbed)
  BY <1>1, StepFacts DEF RecFits, Undisturbed
<1>4. RecFits'
  BY <1>2, <1>3 DEF RecFits, Entering, Unregistering, Adding
<1>5. StillRegistered' /\ SameRegistry
  BY <1>1, <1>2, StepFacts DEF StillRegistered, SameRegistry
<1>6. Undisturbed' => CatalogReady'
  BY <1>1, <1>2, <1>3, StepFacts DEF CatalogReady, Entering, Unregistering, Adding
<1>7. rec.at \notin Adding /\ \A s : ~ToCome(s)
  BY <1>1, <1>3 DEF ToCome, Unregistering, Adding
<1>. QED
  BY <1>1, <1>2, <1>3, <1>4, <1>5, <1>6, <1>7, StepFacts, RecStepKept

\* The pass has yet to come to every server; what it wants is registered.
LEMMA ListServersKept ==
  ASSUME GatewayInv, ListServers
  PROVE  GatewayInv'
<1>1. /\ UNCHANGED <<row, rtool, pool, backend, agent, called, catalog, visible, gen, build, upsets>>
      /\ rec.at = "list" /\ calm' = TRUE
      /\ rec' = [rec EXCEPT !.at = "add", !.wanted = [s \in Server |-> IF row[s].proxy THEN row[s].cfg ELSE NoConfig]]
  BY DEF ListServers, RecAt, outside, gateway
<1>2. PICK w : w = [s \in Server |-> IF row[s].proxy THEN row[s].cfg ELSE NoConfig]
  OBVIOUS
<1>3. w \in [Server -> Config \union {NoConfig}]
  BY <1>2, StepFacts DEF ServerRow
<1>4. "add" \in RecPlace /\ rec \in Reconciler
  BY StepFacts DEF RecPlace
<1>5. /\ rec' \in Reconciler /\ rec'.at = "add" /\ rec'.wanted = w /\ rec'.todo = rec.todo /\ rec'.now = rec.now
      /\ rec'.drift = rec.drift
  BY <1>1, <1>2, <1>3, <1>4 DEF Reconciler
<1>6. RecFits'
  BY <1>5 DEF RecFits, Entering, Unregistering, Adding
<1>7. StillRegistered' /\ SameRegistry
  <2>1. \A s \in Server : row[s].proxy => row[s].owner # "none"
    BY DEF GatewayInv, RowsFit
  <2>2. \A s \in Server : w[s] # NoConfig => row[s].proxy
    BY <1>2
  <2>. QED
    BY <1>1, <1>5, <2>1, <2>2, StepFacts DEF StillRegistered, SameRegistry, Wanted
<1>8. Undisturbed' => Undisturbed
  BY <1>1 DEF Undisturbed
<1>9. Undisturbed' => ConnectFits' /\ CatalogReady'
  BY <1>1, <1>5, <1>8, StepFacts DEF ConnectFits, SameEntry, CatalogReady, Entering, Unregistering, Adding
<1>10. Fresh' /\ BuildsFit'
  BY <1>1, <1>5, <1>8, StepFacts, SameBuilds DEF Fresh, ToCome
<1>. QED
  BY <1>1, <1>5, <1>6, <1>7, <1>9, <1>10, StepFacts, StepKept

LEMMA NextRemovalKept ==
  ASSUME GatewayInv, NextRemoval
  PROVE  GatewayInv'
<1>1. /\ UNCHANGED <<row, rtool, calm, pool, backend, agent, called, catalog, visible, gen, build, upsets>>
      /\ rec.at = "remove" /\ rec \in Reconciler /\ rec.todo \in SUBSET Server /\ ~rec.drift
      /\ GatewayTypes /\ (Undisturbed' => Undisturbed)
  BY StepFacts, GatewayTyped DEF NextRemoval, RecAt, registry, outside, gateway, RecFits, Undisturbed
<1>2. SameRegistry
  BY <1>1, StepFacts DEF SameRegistry
<1>3. ASSUME NEW s \in rec.todo, rec' = [rec EXCEPT !.at = "unregister", !.now = s, !.todo = @ \ {s}]
      PROVE  GatewayInv'
  <2>1. "unregister" \in RecPlace /\ s \in Server
    BY <1>1 DEF RecPlace
  <2>2. /\ rec' \in Reconciler /\ rec'.at = "unregister" /\ rec'.now = s /\ rec'.todo = rec.todo \ {s}
        /\ rec'.wanted = rec.wanted /\ rec'.drift = rec.drift
    BY <1>1, <1>3, <2>1 DEF Reconciler
  <2>3. RecFits'
    BY <1>1, <2>1, <2>2 DEF RecFits, Entering, Unregistering, Adding
  <2>4. StillRegistered'
    BY <1>1, <2>2, StepFacts DEF StillRegistered, Wanted
  <2>5. Undisturbed' => CatalogReady'
    BY <1>1, <2>2, StepFacts DEF CatalogReady, Entering, Unregistering, Adding
  <2>6. rec.at \notin Adding /\ \A u : ToCome(u) => ToCome(u)'
    BY <1>1, <2>2 DEF ToCome, Adding, Unregistering, Wanted
  <2>. QED
    BY <1>1, <1>2, <2>2, <2>3, <2>4, <2>5, <2>6, StepFacts, RecStepKept
<1>4. ASSUME rec.todo = {}, rec' = [rec EXCEPT !.at = "entries", !.info = pool, !.todo = Known \cap Wanted]
      PROVE  GatewayInv'
  <2>1. "entries" \in RecPlace /\ pool \in [Server -> PoolEntry] /\ Known \cap Wanted \in SUBSET Server
    BY <1>1, StepFacts, GatewayTyped DEF RecPlace
  <2>2. /\ rec' \in Reconciler /\ rec'.at = "entries" /\ rec'.info = pool /\ rec'.todo = Known \cap Wanted
        /\ rec'.wanted = rec.wanted
    BY <1>1, <1>4, <2>1 DEF Reconciler
  <2>3. RecFits'
    BY <2>2 DEF RecFits, Entering, Unregistering, Adding, Wanted
  <2>4. StillRegistered'
    BY <1>1, <2>2, StepFacts DEF StillRegistered, Wanted
  <2>5. Undisturbed' => CatalogReady'
    BY <1>1, <2>2, StepFacts DEF CatalogReady, Entering, Unregistering, Adding
  <2>6. rec.at \notin Adding
    BY <1>1 DEF Adding
  <2>7. Undisturbed' => \A n \in catalog : ToCome(n[1]) => ToCome(n[1])'
    <3>1. Undisturbed' => \A n \in catalog : n[1] \in Server /\ pool[n[1]].known
      BY <1>1, StepFacts, GatewayTyped DEF CatalogReady
    <3>2. \A u \in Server : pool[u].known => u \in Known
      BY DEF Known
    <3>. QED
      BY <1>1, <1>4, <2>2, <3>1, <3>2 DEF ToCome, Unregistering
  <2>. QED
    BY <1>1, <1>2, <2>2, <2>3, <2>4, <2>5, <2>6, <2>7, StepFacts, RecStepKept
<1>. QED
  BY <1>3, <1>4 DEF NextRemoval

\* The next entry: what is skipped has no tools in the catalog.
LEMMA NextEntryKept ==
  ASSUME GatewayInv, NextEntry
  PROVE  GatewayInv'
<1>1. /\ UNCHANGED <<rtool, calm, pool, backend, agent, called, catalog, visible, gen, build, upsets>>
      /\ rec.at = "entries" /\ rec \in Reconciler /\ rec.todo \in SUBSET Server
      /\ GatewayTypes /\ (Undisturbed' => Undisturbed)
  BY StepFacts, GatewayTyped DEF NextEntry, RecAt, outside, gateway, Undisturbed
<1>2. rec.at \notin Adding /\ rec.todo \subseteq Wanted /\ \A u : ToCome(u) <=> u \in rec.todo
  BY <1>1, StepFacts DEF ToCome, Adding, Unregistering, RecFits, Entering
<1>3. CASE rec.todo = {} /\ rec' = RecIdle /\ UNCHANGED row
  <2>1. rec' \in Reconciler /\ rec'.at = "idle" /\ rec'.todo = {} /\ rec'.wanted = [s \in Server |-> NoConfig]
    BY <1>3, RecIdleFacts
  <2>2. RecFits' /\ Wanted' = {}
    BY <2>1 DEF RecFits, Entering, Unregistering, Adding, Wanted
  <2>3. StillRegistered' /\ SameRegistry
    BY <1>3, <2>2, StepFacts DEF StillRegistered, SameRegistry
  <2>4. Undisturbed' => CatalogReady'
    BY <1>1, <2>1, StepFacts DEF CatalogReady, Entering, Unregistering, Adding
  <2>. QED
    BY <1>1, <1>2, <1>3, <2>1, <2>2, <2>3, <2>4, StepFacts, RecStepKept
<1>4. ASSUME NEW s \in rec.todo, NEW place \in {"unregister", "entries", "discover"},
             rec' = [rec EXCEPT !.at = place, !.now = s, !.todo = @ \ {s}, !.drift = Drifted(s)],
             place = "unregister" => Drifted(s), place = "entries" => rec.info[s].state = "Connecting",
             row' = row \/ Health(s, "pending")
      PROVE  GatewayInv'
  <2>1. place \in RecPlace /\ s \in Server /\ Drifted(s) \in BOOLEAN
    BY <1>1 DEF RecPlace, Drifted
  <2>2. /\ rec' \in Reconciler /\ rec'.at = place /\ rec'.now = s /\ rec'.todo = rec.todo \ {s}
        /\ rec'.wanted = rec.wanted /\ rec'.drift = Drifted(s) /\ rec'.info = rec.info
    BY <1>1, <1>4, <2>1 DEF Reconciler
  <2>3. Wanted' = Wanted
    BY <2>2 DEF Wanted
  <2>4. RecFits'
    BY <1>2, <1>4, <2>1, <2>2, <2>3 DEF RecFits, Entering, Unregistering, Adding
  <2>5. SameRegistry
    BY <1>1, <1>4, <2>1, HealthFacts
  <2>6. StillRegistered'
    BY <1>1, <2>3, <2>5, StepFacts, GatewayTyped DEF StillRegistered, SameRegistry
  <2>7. Undisturbed' => CatalogReady'
    BY <1>1, <2>2, StepFacts DEF CatalogReady, Entering, Unregistering, Adding
  <2>8. Undisturbed' => \A n \in catalog : ToCome(n[1]) => ToCome(n[1])'
    <3>1. Undisturbed' => \A n \in catalog : n[1] \in rec.todo => rec.info[n[1]].state = "Ready"
      BY <1>1, StepFacts DEF CatalogReady, Entering
    <3>2. place # "entries" => place \in {"unregister", "discover"}
      BY <1>4
    <3>. QED
      BY <1>2, <1>4, <2>2, <3>1, <3>2 DEF ToCome
  <2>. QED
    BY <1>1, <1>2, <2>2, <2>4, <2>5, <2>6, <2>7, <2>8, StepFacts, RecStepKept
<1>. QED
  BY <1>3, <1>4, ZenonT(60) DEF NextEntry

\* The steps that only move the reconciler on while it unregisters a server
\* or brings its tools up to date.
LEMMA MovesKept ==
  ASSUME GatewayInv, UnregisterTools \/ Forget \/ PruneTools \/ AddTool \/ SyncGraph \/ \E n \in Tool : NextTool(n)
  PROVE  GatewayInv'
<1>1. /\ UNCHANGED <<rtool, calm, pool, backend, agent, called, catalog, visible, gen, build>>
      /\ rec \in Reconciler /\ GatewayTypes
  BY StepFacts DEF UnregisterTools, Forget, PruneTools, AddTool, SyncGraph, NextTool, registry, outside, gateway
<1>2. /\ upsets' \in [UpsetKind -> Nat] /\ (Undisturbed' => Undisturbed)
  <2>1. "graph" \in UpsetKind
    BY DEF UpsetKind
  <2>2. Upset("graph") \/ UNCHANGED upsets
    BY DEF UnregisterTools, Forget, PruneTools, AddTool, SyncGraph, NextTool
  <2>. QED
    BY <1>1, <2>1, <2>2, UpsetFacts
<1>3. RecFits /\ (rec.at \notin {"idle", "list", "add", "remove", "entries"} => rec.now \in Server)
  BY StepFacts DEF RecFits
<1>4. CASE UnregisterTools \/ Forget
  <2>1. PICK p \in {"forget", "disconnect"} :
           /\ rec' = [rec EXCEPT !.at = p] /\ row' = row /\ rec.at \in {"unregister_tools", "forget"}
    BY <1>4 DEF UnregisterTools, Forget, RecAt, registry
  <2>2. p \in RecPlace
    BY DEF RecPlace
  <2>3. /\ rec' \in Reconciler /\ rec'.at = p /\ rec'.todo = rec.todo /\ rec'.now = rec.now /\ rec'.info = rec.info
        /\ rec'.drift = rec.drift /\ Wanted' = Wanted
    BY <1>1, <2>1, <2>2, RecGoes
  <2>4. RecFits'
    BY <1>1, <1>3, <2>1, <2>3 DEF RecFits, Entering, Unregistering, Adding
  <2>5. SameRegistry /\ StillRegistered'
    BY <1>1, <2>1, <2>3, StepFacts DEF SameRegistry, StillRegistered
  <2>6. Undisturbed' => CatalogReady'
    BY <1>1, <1>2, <2>1, <2>3, StepFacts DEF CatalogReady, Entering, Unregistering, Adding
  <2>7. rec.at \notin Adding /\ \A u : ToCome(u) => ToCome(u)'
    BY <2>1, <2>3 DEF ToCome, Adding, Unregistering
  <2>. QED
    BY <1>1, <1>2, <2>3, <2>4, <2>5, <2>6, <2>7, StepFacts, RecStepKept
<1>5. CASE PruneTools \/ AddTool \/ \E n \in Tool : NextTool(n)
  <2>1. row' = row /\ rec.at \in {"prune_tools", "add_tool", "tools"}
    BY <1>5 DEF PruneTools, AddTool, NextTool, RecAt, registry
  <2>2. /\ rec' \in Reconciler /\ rec'.at \in {"tools", "record", "add_tool"} /\ rec'.todo = rec.todo /\ rec'.now = rec.now
        /\ rec'.info = rec.info /\ rec'.wanted = rec.wanted /\ rec'.drift = rec.drift /\ rec'.tools = rec.tools
        /\ rec'.adds \subseteq rec.tools /\ (rec'.at \in {"add_tool", "record"} => rec'.one \in Of(Tool, rec.now))
    <3>1. /\ {"tools", "record", "add_tool"} \subseteq RecPlace
          /\ rec.tools \subseteq Of(Tool, rec.now) /\ rec.tools \in SUBSET Tool
          /\ rec.at \in {"add_tool", "tools"} => rec.adds \subseteq rec.tools
          /\ rec.at = "add_tool" => rec.one \in Of(Tool, rec.now)
      BY <1>1, <1>3, <2>1 DEF RecFits, Adding, RecPlace, Reconciler
    <3>2. CASE PruneTools
      <4>1. rec' = [rec EXCEPT !.at = "tools", !.adds = rec.tools]
        BY <3>2 DEF PruneTools
      <4>. QED
        BY <1>1, <3>1, <4>1 DEF Reconciler
    <3>3. CASE AddTool
      <4>1. rec' = [rec EXCEPT !.at = "record"] /\ rec.at = "add_tool"
        BY <3>3 DEF AddTool, RecAt
      <4>. QED
        BY <1>1, <3>1, <4>1 DEF Reconciler
    <3>4. ASSUME NEW n \in Tool, NextTool(n)
          PROVE  rec' = [rec EXCEPT !.at = "add_tool", !.one = n, !.adds = @ \ {n}] /\ n \in rec.adds /\ rec.at = "tools"
      BY <3>4 DEF NextTool, RecAt
    <3>5. CASE \E n \in Tool : NextTool(n)
      <4>1. PICK n \in Tool : rec' = [rec EXCEPT !.at = "add_tool", !.one = n, !.adds = @ \ {n}] /\ n \in rec.adds /\ rec.at = "tools"
        BY <3>4, <3>5
      <4>. QED
        BY <1>1, <3>1, <4>1 DEF Reconciler
    <3>. QED
      BY <1>5, <3>2, <3>3, <3>5
  <2>3. Wanted' = Wanted
    BY <2>2 DEF Wanted
  <2>4. RecFits'
    BY <1>1, <1>3, <2>1, <2>2, <2>3 DEF RecFits, Entering, Unregistering, Adding
  <2>5. SameRegistry /\ StillRegistered'
    BY <1>1, <2>1, <2>3, StepFacts DEF SameRegistry, StillRegistered
  <2>6. Undisturbed' => CatalogReady'
    BY <1>1, <1>2, <2>1, <2>2, StepFacts DEF CatalogReady, Entering, Unregistering, Adding
  <2>7. rec'.at \in Adding
    BY <2>2 DEF Adding
  <2>. QED
    BY <1>1, <1>2, <2>2, <2>4, <2>5, <2>6, <2>7, StepFacts, RecStepKept
<1>6. CASE SyncGraph
  <2>1. rec.at = "sync" /\ rec' = Back /\ Health(rec.now, "active")
    BY <1>6 DEF SyncGraph, RecAt
  <2>2. rec' \in Reconciler /\ rec'.at = "entries" /\ rec'.todo = rec.todo /\ rec'.wanted = rec.wanted /\ rec'.info = rec.info
    BY <1>1, <2>1, BackFacts
  <2>3. Wanted' = Wanted
    BY <2>2 DEF Wanted
  <2>4. RecFits'
    BY <1>1, <1>3, <2>1, <2>2, <2>3 DEF RecFits, Entering, Unregistering, Adding
  <2>5. SameRegistry
    BY <1>1, <1>3, <2>1, HealthFacts
  <2>6. StillRegistered'
    BY <1>1, <2>3, <2>5, StepFacts, GatewayTyped DEF SameRegistry, StillRegistered
  <2>7. Undisturbed' => CatalogReady'
    BY <1>1, <1>2, <2>1, <2>2, StepFacts DEF CatalogReady, Entering, Unregistering, Adding
  <2>8. rec.at \notin Adding /\ \A u : ToCome(u) => ToCome(u)'
    BY <2>1, <2>2 DEF ToCome, Adding, Unregistering
  <2>. QED
    BY <1>1, <1>2, <2>2, <2>4, <2>5, <2>6, <2>7, <2>8, StepFacts, RecStepKept
<1>. QED
  BY <1>4, <1>5, <1>6

\* Steps that change the catalog: one of its tools that stays is as fresh as
\* before.
LEMMA CatalogKept ==
  ASSUME GatewayInv, Unregister \/ Prune \/ RecordTool
  PROVE  GatewayInv'
<1>1. /\ UNCHANGED <<row, rtool, calm, pool, backend, agent, called, visible, gen, build, upsets>>
      /\ rec \in Reconciler /\ GatewayTypes /\ (Undisturbed' => Undisturbed)
      /\ rec.at \in {"unregister", "prune", "record"}
  BY StepFacts DEF Unregister, Prune, RecordTool, registry, outside, RecAt, Undisturbed
<1>2. PICK p \in {"unregister_tools", "prune_tools", "tools"} :
         /\ rec' = [rec EXCEPT !.at = p]
         /\ p = "unregister_tools" => rec.at = "unregister" /\ catalog' = catalog \ Of(catalog, rec.now)
         /\ p = "prune_tools" => rec.at = "prune" /\ catalog' \subseteq catalog
         /\ p = "tools" => rec.at = "record" /\ catalog' = catalog \union {rec.one}
  BY DEF Unregister, Prune, RecordTool, RecAt
<1>3. p \in RecPlace
  BY DEF RecPlace
<1>4. /\ rec' \in Reconciler /\ rec'.at = p /\ rec'.todo = rec.todo /\ rec'.now = rec.now /\ rec'.info = rec.info
      /\ rec'.tools = rec.tools /\ rec'.adds = rec.adds /\ rec'.one = rec.one
      /\ rec'.drift = rec.drift /\ Wanted' = Wanted
  BY <1>1, <1>2, <1>3, RecGoes
<1>5. RecFits /\ rec.now \in Server /\ rec.now \notin rec.todo /\ (p = "tools" => rec.one \in Of(Tool, rec.now))
  BY <1>1, <1>2, StepFacts DEF RecFits
<1>6. catalog \in SUBSET Tool /\ catalog' \in SUBSET Tool
      /\ (p # "tools" => catalog' \subseteq catalog)
      /\ (p = "unregister_tools" => \A n \in catalog' : n \in catalog /\ n[1] # rec.now)
  BY <1>2, <1>5, StepFacts DEF Of
<1>7. RecFits'
  <2>1. p = "unregister_tools" => Of(catalog', rec.now) = {}
    BY <1>6 DEF Of
  <2>. QED
    BY <1>1, <1>2, <1>4, <1>5, <2>1 DEF RecFits, Entering, Unregistering, Adding
<1>8. StillRegistered' /\ SameRegistry /\ BuildsFit' /\ \A n : UpToDate(n)' <=> UpToDate(n)
  BY <1>1, <1>4, StepFacts, SameBuilds DEF StillRegistered, SameRegistry
<1>9. ASSUME Undisturbed' PROVE ConnectFits' /\ CatalogReady' /\ Fresh'
  <2>1. ConnectFits /\ CatalogReady /\ Fresh
    BY <1>1, <1>9, StepFacts
  <2>2. ConnectFits'
    BY <1>1, <2>1 DEF ConnectFits, SameEntry
  <2>3. ASSUME NEW n \in catalog'
        PROVE  /\ pool'[n[1]].state = "Ready"
               /\ Entering' /\ n[1] \in rec'.todo => rec'.info[n[1]].state = "Ready"
    <3>1. CASE n \in catalog
      BY <1>1, <1>2, <1>4, <2>1, <3>1 DEF CatalogReady, Entering, Unregistering, Adding
    <3>2. CASE n \notin catalog
      <4>1. p = "tools" /\ n = rec.one
        BY <1>2, <1>6, <2>3, <3>2
      <4>2. n[1] = rec.now
        BY <1>5, <4>1 DEF Of
      <4>. QED
        BY <1>1, <1>2, <1>4, <1>5, <2>1, <4>1, <4>2 DEF CatalogReady, Adding
    <3>. QED
      BY <3>1, <3>2
  <2>4. rec'.at \in {"persist"} \union Adding => pool'[rec'.now].state = "Ready"
    BY <1>1, <1>2, <1>4, <2>1 DEF CatalogReady, Adding
  <2>5. CatalogReady'
    BY <2>3, <2>4 DEF CatalogReady
  <2>6. Fresh'
    <3>1. CASE p = "unregister_tools"
      <4>1. \A n \in catalog' : ToCome(n[1]) => ToCome(n[1])'
        BY <1>2, <1>4, <1>6, <3>1 DEF ToCome, Unregistering
      <4>. QED
        BY <1>1, <1>2, <1>6, <1>8, <2>1, <3>1, <4>1 DEF Fresh, Adding
    <3>2. CASE p # "unregister_tools"
      BY <1>2, <1>4, <3>2 DEF Fresh, Adding
    <3>. QED
      BY <3>1, <3>2
  <2>. QED
    BY <2>2, <2>5, <2>6
<1>. QED
  BY <1>1, <1>4, <1>6, <1>7, <1>8, <1>9, StepFacts, StepKept

\* The discovered tools are stored, or the server is left as it is: without
\* its row, a registry command came after the pass began.
LEMMA PersistKept ==
  ASSUME GatewayInv, Persist
  PROVE  GatewayInv'
<1>1. /\ UNCHANGED <<calm, pool, backend, agent, called, catalog, visible, gen, build>>
      /\ rec \in Reconciler /\ GatewayTypes /\ rec.at = "persist" /\ upsets \in [UpsetKind -> Nat]
      /\ "registry" \in UpsetKind
  BY StepFacts DEF Persist, outside, gateway, RecAt, UpsetKind
<1>2. RecFits /\ rec.now \in Wanted /\ rec.now \in Server
  BY <1>1, StepFacts DEF RecFits
<1>3. SameRegistry
  BY <1>1, <1>2, HealthFacts DEF Persist
<1>4. CASE /\ row[rec.now].owner # "none" /\ rtool' = Replaced(rec.now, rec.tools)
           /\ rec' = [rec EXCEPT !.at = "prune"] /\ UNCHANGED upsets
  <2>1. "prune" \in RecPlace
    BY DEF RecPlace
  <2>2. /\ rec' \in Reconciler /\ rec'.at = "prune" /\ rec'.todo = rec.todo /\ rec'.now = rec.now /\ rec'.info = rec.info
        /\ rec'.tools = rec.tools /\ rec'.drift = rec.drift /\ Wanted' = Wanted
    BY <1>1, <1>4, <2>1, RecGoes
  <2>3. RecFits'
    BY <1>1, <1>2, <2>2 DEF RecFits, Entering, Unregistering, Adding
  <2>4. StillRegistered'
    BY <1>1, <1>3, <2>2, StepFacts, GatewayTyped DEF SameRegistry, StillRegistered
  <2>5. rtool' \in [Tool -> {"absent", "enabled", "disabled"}]
    <3>1. \A n \in Tool : rtool[n] \in {"absent", "enabled", "disabled"}
      BY StepFacts
    <3>. QED
      BY <1>4, <3>1 DEF Replaced
  <2>6. Undisturbed' => Undisturbed
    BY <1>4 DEF Undisturbed
  <2>7. BuildsFit'
    BY <1>1, <2>6, StepFacts DEF BuildsFit
  <2>8. Undisturbed' => ConnectFits' /\ CatalogReady'
    BY <1>1, <2>2, <2>6, StepFacts DEF ConnectFits, SameEntry, CatalogReady, Entering, Unregistering, Adding
  <2>9. Fresh'
    BY <2>2 DEF Fresh, Adding
  <2>. QED
    BY <1>1, <1>3, <1>4, <2>2, <2>3, <2>4, <2>5, <2>7, <2>8, <2>9, StepFacts, StepKept
<1>5. CASE /\ (row[rec.now].owner = "none" /\ UNCHANGED upsets) \/ Upset("registry")
           /\ rec' = Back /\ UNCHANGED rtool
  <2>1. rec' \in Reconciler /\ rec'.at = "entries" /\ rec'.todo = rec.todo /\ rec'.wanted = rec.wanted /\ rec'.info = rec.info
    BY <1>1, <1>5, BackFacts
  <2>2. Wanted' = Wanted
    BY <2>1 DEF Wanted
  <2>3. RecFits'
    BY <1>1, <1>2, <2>1, <2>2 DEF RecFits, Entering, Unregistering, Adding
  <2>4. StillRegistered'
    BY <1>1, <1>3, <2>2, StepFacts, GatewayTyped DEF SameRegistry, StillRegistered
  <2>5. /\ upsets' \in [UpsetKind -> Nat] /\ (Undisturbed' => Undisturbed)
        /\ Undisturbed' => row[rec.now].owner = "none"
    BY <1>1, <1>5, UpsetFacts DEF Undisturbed
  <2>6. Undisturbed' => ~calm
    BY <1>2, <2>5, StepFacts DEF StillRegistered
  <2>7. Undisturbed' => CatalogReady'
    BY <1>1, <2>1, <2>5, StepFacts DEF CatalogReady, Entering, Unregistering, Adding
  <2>. QED
    BY <1>1, <1>3, <1>5, <2>1, <2>3, <2>4, <2>5, <2>6, <2>7, RecStepKept
<1>. QED
  BY <1>4, <1>5 DEF Persist

\* A step of the reconciler that changes the pool: no ready server is lost
\* that has tools in the catalog.
LEMMA PoolRecKept ==
  ASSUME GatewayInv, UNCHANGED <<rtool, calm, backend, agent, called, catalog, visible, gen, build>>,
         SameRegistry, pool' \in [Server -> PoolEntry],
         \A s \in Server : pool'[s].tools \subseteq Of(Tool, s) /\ (pool'[s].state = "Ready" => pool'[s].known),
         rec' \in Reconciler, RecFits', StillRegistered',
         upsets' \in [UpsetKind -> Nat], Undisturbed' => Undisturbed, Undisturbed' => ConnectFits' /\ CatalogReady',
         rec.at \notin Adding, Undisturbed' => \A n \in catalog : ToCome(n[1]) => ToCome(n[1])'
  PROVE  GatewayInv'
<1>1. BuildsFit' /\ \A n : UpToDate(n)' <=> UpToDate(n)
  BY SameBuilds, StepFacts
<1>2. Undisturbed' => Fresh'
  BY <1>1, StepFacts DEF Fresh
<1>. QED
  BY <1>1, <1>2, StepFacts, StepKept

\* A server that is added keeps the entry it has.
PoolGains == /\ pool' \in [Server -> PoolEntry]
             /\ \A s \in Server : /\ pool'[s].state = pool[s].state /\ pool'[s].tools = pool[s].tools
                                  /\ pool'[s].entry = pool[s].entry /\ (pool[s].known => pool'[s].known)

LEMMA AddedFacts ==
  ASSUME GatewayInv, NEW s \in Server, NEW c \in Config \union {NoConfig}
  PROVE  LET p == Added(pool, s, c) IN
         /\ p \in [Server -> PoolEntry] /\ \A u \in Server : u # s => p[u] = pool[u]
         /\ p[s].state = pool[s].state /\ p[s].tools = pool[s].tools /\ p[s].entry = pool[s].entry /\ p[s].known
<1>1. pool \in [Server -> PoolEntry] /\ pool[s] \in PoolEntry
  BY StepFacts
<1>2. PICK e : e = [pool[s] EXCEPT !.cfg = c, !.known = TRUE]
  OBVIOUS
<1>3. e \in PoolEntry /\ e.state = pool[s].state /\ e.tools = pool[s].tools /\ e.entry = pool[s].entry /\ e.known
  BY <1>1, <1>2 DEF PoolEntry
<1>4. Added(pool, s, c) = [pool EXCEPT ![s] = e]
  BY <1>1, <1>2 DEF Added
<1>. QED
  BY <1>1, <1>3, <1>4

LEMMA GainsFit ==
  ASSUME GatewayInv, PoolGains, agent' = agent
  PROVE  /\ \A s \in Server : pool'[s].tools \subseteq Of(Tool, s) /\ (pool'[s].state = "Ready" => pool'[s].known)
         /\ Undisturbed => ConnectFits'
         /\ Undisturbed => \A n \in catalog : pool'[n[1]].state = "Ready"
<1>1. \A s \in Server : pool'[s].tools \subseteq Of(Tool, s) /\ (pool'[s].state = "Ready" => pool'[s].known)
  BY StepFacts DEF PoolGains
<1>2. \A a \in Agent : agent[a].at # "idle" => agent[a].tool[1] \in Server
  BY StepFacts, GatewayTyped DEF GatewayInv, NothingDenied
<1>3. \A a \in Agent : agent[a].at = "connect" => (SameEntry(a)' <=> SameEntry(a))
  BY <1>2 DEF SameEntry, PoolGains
<1>4. Undisturbed => ConnectFits'
  BY <1>2, <1>3, StepFacts DEF ConnectFits, PoolGains
<1>5. \A n \in catalog : n[1] \in Server
  BY StepFacts, GatewayTyped
<1>6. Undisturbed => \A n \in catalog : pool'[n[1]].state = "Ready"
  BY <1>5, StepFacts DEF CatalogReady, PoolGains
<1>. QED
  BY <1>1, <1>4, <1>6

LEMMA AddMissingKept ==
  ASSUME GatewayInv, AddMissing
  PROVE  GatewayInv'
<1>1. /\ UNCHANGED <<row, rtool, calm, backend, agent, called, catalog, visible, gen, build, upsets>>
      /\ rec.at = "add" /\ rec \in Reconciler /\ GatewayTypes /\ (Undisturbed' => Undisturbed)
      /\ Wanted \in SUBSET Server /\ Known \in SUBSET Server
      /\ rec' = [rec EXCEPT !.at = "remove", !.todo = Known \ Wanted, !.drift = FALSE]
      /\ pool' = [s \in Server |-> IF s \in Wanted \ Known THEN Added(pool, s, rec.wanted[s])[s] ELSE pool[s]]
  BY StepFacts, GatewayTyped DEF AddMissing, RecAt, registry, outside, gateway, Undisturbed
<1>2. "remove" \in RecPlace
  BY DEF RecPlace
<1>3. /\ rec' \in Reconciler /\ rec'.at = "remove" /\ rec'.todo = Known \ Wanted /\ rec'.drift = FALSE
      /\ rec'.wanted = rec.wanted
  BY <1>1, <1>2 DEF Reconciler
<1>4. Wanted' = Wanted
  BY <1>3 DEF Wanted
<1>5. PoolGains
  <2>1. ASSUME NEW s \in Server
        PROVE  /\ pool'[s] \in PoolEntry /\ pool'[s].state = pool[s].state /\ pool'[s].tools = pool[s].tools
               /\ pool'[s].entry = pool[s].entry /\ (pool[s].known => pool'[s].known)
    <3>1. rec.wanted[s] \in Config \union {NoConfig} /\ pool[s] \in PoolEntry
      BY <1>1, StepFacts, GatewayTyped
    <3>2. PICK p : p = Added(pool, s, rec.wanted[s])
      OBVIOUS
    <3>3. /\ p \in [Server -> PoolEntry] /\ p[s].state = pool[s].state /\ p[s].tools = pool[s].tools
          /\ p[s].entry = pool[s].entry /\ p[s].known
      BY <3>1, <3>2, AddedFacts
    <3>4. pool'[s] = p[s] \/ pool'[s] = pool[s]
      BY <1>1, <3>2
    <3>. QED
      BY <3>1, <3>3, <3>4
  <2>. QED
    BY <1>1, <2>1 DEF PoolGains
<1>6. RecFits'
  BY <1>3 DEF RecFits, Entering, Unregistering, Adding
<1>7. SameRegistry /\ StillRegistered'
  BY <1>1, <1>4, StepFacts DEF SameRegistry, StillRegistered
<1>8. Undisturbed' => CatalogReady' /\ ConnectFits'
  BY <1>1, <1>3, <1>5, GainsFit DEF CatalogReady, Entering, Unregistering, Adding
<1>9. rec.at \notin Adding
  BY <1>1 DEF Adding
<1>10. Undisturbed' => \A n \in catalog : ToCome(n[1]) => ToCome(n[1])'
  <2>1. Undisturbed' => \A n \in catalog : n[1] \in Server /\ pool[n[1]].known
    BY <1>1, StepFacts, GatewayTyped DEF CatalogReady
  <2>2. Undisturbed' => \A n \in catalog : n[1] \in Known
    BY <2>1 DEF Known
  <2>. QED
    BY <1>3, <1>4, <2>1, <2>2 DEF ToCome
<1>. QED
  BY <1>1, <1>3, <1>5, <1>6, <1>7, <1>8, <1>9, <1>10, StepFacts, GainsFit, PoolRecKept DEF PoolGains

\* A request for one server: a pass of that server alone, or it is added.
LEMMA TakeTriggerKept ==
  ASSUME GatewayInv, TakeTrigger, trigger \in Seq(Server)
  PROVE  GatewayInv'
<1>1. /\ UNCHANGED <<row, rtool, calm, backend, agent, called, catalog, visible, gen, build, upsets>>
      /\ rec.at = "idle" /\ rec \in Reconciler /\ GatewayTypes /\ (Undisturbed' => Undisturbed)
      /\ SameRegistry /\ trigger # <<>> /\ rec.at \notin Adding
  BY StepFacts DEF TakeTrigger, RecAt, registry, outside, gateway, Undisturbed, SameRegistry, Adding
<1>2. PICK s \in Server : s = Head(trigger)
  BY <1>1
<1>3. /\ row[s].cfg \in Config \union {NoConfig} /\ pool \in [Server -> PoolEntry]
      /\ row[s].proxy => row[s].owner # "none" /\ row[s].cfg # NoConfig
  BY StepFacts DEF ServerRow, GatewayInv, RowsFit
<1>4. rec.todo = {} /\ \A u : ~ToCome(u)
  BY <1>1, StepFacts DEF RecFits, ToCome, Unregistering
<1>5. CASE pool' = pool /\ rec' = rec
  <2>1. RecFits' /\ StillRegistered'
    BY <1>1, <1>5, StepFacts DEF RecFits, StillRegistered, Entering, Wanted
  <2>2. Undisturbed' => CatalogReady'
    BY <1>1, <1>5, StepFacts DEF CatalogReady, Entering
  <2>. QED
    BY <1>1, <1>4, <1>5, <2>1, <2>2, StepFacts, RecStepKept
<1>6. CASE /\ row[s].proxy /\ pool' = pool
           /\ rec' = [rec EXCEPT !.at = "entries", !.info = pool, !.todo = {s},
                                 !.wanted = [RecIdle.wanted EXCEPT ![s] = row[s].cfg]]
  <2>1. PICK w : w = [RecIdle.wanted EXCEPT ![s] = row[s].cfg]
    OBVIOUS
  <2>2. RecIdle.wanted = [u \in Server |-> NoConfig]
    BY RecIdleFacts
  <2>3. w \in [Server -> Config \union {NoConfig}] /\ w[s] = row[s].cfg /\ \A u \in Server : u # s => w[u] = NoConfig
    BY <1>3, <2>1, <2>2
  <2>4. "entries" \in RecPlace
    BY DEF RecPlace
  <2>5. rec' \in Reconciler /\ rec'.at = "entries" /\ rec'.info = pool /\ rec'.todo = {s} /\ rec'.wanted = w
    BY <1>1, <1>3, <1>6, <2>1, <2>3, <2>4 DEF Reconciler
  <2>6. Wanted' = {s}
    BY <1>3, <1>6, <2>3, <2>5 DEF Wanted
  <2>7. RecFits'
    BY <2>5, <2>6 DEF RecFits, Entering, Unregistering, Adding
  <2>8. StillRegistered'
    BY <1>1, <1>3, <1>6, <2>6 DEF StillRegistered
  <2>9. Undisturbed' => CatalogReady'
    BY <1>1, <1>6, <2>5, StepFacts DEF CatalogReady, Entering, Unregistering, Adding
  <2>. QED
    BY <1>1, <1>4, <1>6, <2>5, <2>7, <2>8, <2>9, StepFacts, RecStepKept
<1>7. CASE pool' = Added(pool, s, row[s].cfg) /\ rec' = rec
  <2>1. PoolGains
    BY <1>3, <1>7, AddedFacts DEF PoolGains
  <2>2. RecFits' /\ StillRegistered'
    BY <1>1, <1>7, StepFacts DEF RecFits, StillRegistered, Entering, Wanted
  <2>3. Undisturbed' => ConnectFits' /\ CatalogReady'
    BY <1>1, <1>7, <2>1, GainsFit DEF CatalogReady, Entering, Unregistering, Adding
  <2>. QED
    BY <1>1, <1>4, <1>7, <2>1, <2>2, <2>3, StepFacts, GainsFit, PoolRecKept DEF PoolGains
<1>. QED
  BY <1>1, <1>2, <1>5, <1>6, <1>7 DEF TakeTrigger

\* The entry a drift or a removal ends has no tools in the catalog.
LEMMA DisconnectKept ==
  ASSUME GatewayInv, Disconnect
  PROVE  GatewayInv'
<1>1. /\ UNCHANGED <<row, rtool, calm, backend, agent, called, catalog, visible, gen, build, upsets>>
      /\ rec.at = "disconnect" /\ rec \in Reconciler /\ GatewayTypes /\ (Undisturbed' => Undisturbed)
      /\ SameRegistry /\ rec.at \notin Adding
  BY StepFacts DEF Disconnect, RecAt, registry, outside, gateway, Undisturbed, SameRegistry, Adding
<1>2. RecFits /\ rec.now \in Server /\ Of(catalog, rec.now) = {} /\ rec.drift \in BOOLEAN
  BY <1>1, StepFacts, GatewayTyped DEF RecFits
<1>3. pool \in [Server -> PoolEntry] /\ pool[rec.now].entry \in Nat
  BY <1>2, StepFacts DEF PoolEntry
<1>4. PICK e : e = [NotKnown EXCEPT !.entry = pool[rec.now].entry + 1]
  OBVIOUS
<1>5. e \in PoolEntry /\ e.state = "Idle" /\ e.tools = {} /\ e.entry = pool[rec.now].entry + 1
  <2>1. PICK next \in Nat : next = pool[rec.now].entry + 1
    BY <1>3
  <2>2. e = [known |-> FALSE, cfg |-> NoConfig, state |-> "Idle", tools |-> {}, entry |-> next]
    BY <1>4, <2>1 DEF NotKnown
  <2>. QED
    BY <2>1, <2>2 DEF PoolEntry
<1>6. pool' = [pool EXCEPT ![rec.now] = e]
  BY <1>4 DEF Disconnect
<1>7. pool' \in [Server -> PoolEntry] /\ pool'[rec.now] = e /\ \A u \in Server : u # rec.now => pool'[u] = pool[u]
  BY <1>2, <1>3, <1>5, <1>6
<1>8. PICK p \in {"readd", "remove"} : p = (IF rec.drift THEN "readd" ELSE "remove") /\ rec' = [rec EXCEPT !.at = p]
  BY DEF Disconnect
<1>9. p \in RecPlace
  BY DEF RecPlace
<1>10. /\ rec' \in Reconciler /\ rec'.at = p /\ rec'.todo = rec.todo /\ rec'.now = rec.now /\ rec'.info = rec.info
       /\ rec'.drift = rec.drift /\ Wanted' = Wanted
  BY <1>1, <1>8, <1>9, RecGoes
<1>11. RecFits'
  BY <1>1, <1>2, <1>8, <1>10 DEF RecFits, Entering, Unregistering, Adding
<1>12. StillRegistered'
  BY <1>1, <1>10, StepFacts DEF StillRegistered
<1>13. \A n \in catalog : n[1] \in Server /\ n[1] # rec.now
  BY <1>1, <1>2, GatewayTyped DEF Of
<1>14. Undisturbed' => CatalogReady'
  BY <1>1, <1>7, <1>8, <1>10, <1>13, StepFacts DEF CatalogReady, Entering, Unregistering, Adding
<1>15. ASSUME Undisturbed' PROVE ConnectFits'
  <2>1. ConnectFits /\ \A a \in Agent : agent[a].at # "idle" => agent[a].tool[1] \in Server
    BY <1>1, <1>15, StepFacts, GatewayTyped DEF GatewayInv, NothingDenied
  <2>2. \A a \in Agent : agent[a].at = "connect" => agent[a].entry \in Nat
    BY <1>1 DEF GatewayTypes, Operation
  <2>3. \A a \in Agent : agent[a].at = "connect" /\ agent[a].tool[1] = rec.now => ~SameEntry(a)'
    BY <1>1, <1>3, <1>5, <1>7, <2>1, <2>2 DEF ConnectFits, SameEntry
  <2>4. \A a \in Agent : agent[a].at = "connect" /\ agent[a].tool[1] # rec.now => (SameEntry(a)' <=> SameEntry(a))
    BY <1>1, <1>7, <2>1 DEF SameEntry
  <2>5. ASSUME NEW a \in Agent, agent'[a].at = "connect"
        PROVE  /\ agent'[a].entry <= pool'[agent'[a].tool[1]].entry
               /\ SameEntry(a)' => pool'[agent'[a].tool[1]].state = "Connecting"
    <3>1. CASE agent[a].tool[1] = rec.now
      BY <1>1, <1>3, <1>5, <1>7, <2>1, <2>2, <2>3, <2>5, <3>1 DEF ConnectFits
    <3>2. CASE agent[a].tool[1] # rec.now
      BY <1>1, <1>7, <2>1, <2>4, <2>5, <3>2 DEF ConnectFits
    <3>. QED
      BY <3>1, <3>2
  <2>6. ASSUME NEW a \in Agent, NEW b \in Agent, agent'[a].at = "connect", agent'[b].at = "connect",
               SameEntry(a)', SameEntry(b)', agent'[a].tool[1] = agent'[b].tool[1]
        PROVE  a = b
    BY <1>1, <2>1, <2>3, <2>4, <2>6 DEF ConnectFits
  <2>. QED
    BY <2>5, <2>6 DEF ConnectFits
<1>16. \A u \in Server : pool'[u].tools \subseteq Of(Tool, u) /\ (pool'[u].state = "Ready" => pool'[u].known)
  BY <1>5, <1>7, StepFacts
<1>17. \A u : ToCome(u) => ToCome(u)'
  BY <1>1, <1>2, <1>8, <1>10 DEF ToCome, Unregistering
<1>. QED
  BY <1>1, <1>7, <1>10, <1>11, <1>12, <1>14, <1>15, <1>16, <1>17, StepFacts, PoolRecKept

\* After a drift the server is added again, with the row the pass read.
LEMMA ReaddKept ==
  ASSUME GatewayInv, Readd
  PROVE  GatewayInv'
<1>1. /\ UNCHANGED <<rtool, calm, backend, agent, called, catalog, visible, gen, build, upsets>>
      /\ rec.at = "readd" /\ rec \in Reconciler /\ GatewayTypes /\ (Undisturbed' => Undisturbed)
      /\ rec.at \notin Adding /\ rec' = Back
  BY StepFacts DEF Readd, RecAt, outside, gateway, Undisturbed, Adding
<1>2. RecFits /\ rec.now \in Server /\ rec.wanted[rec.now] \in Config \union {NoConfig}
  BY <1>1, StepFacts, GatewayTyped DEF RecFits
<1>3. SameRegistry
  BY <1>1, <1>2, HealthFacts DEF Readd
<1>4. pool' = Added(pool, rec.now, rec.wanted[rec.now])
  BY DEF Readd
<1>5. PoolGains
  BY <1>2, <1>4, AddedFacts DEF PoolGains
<1>6. rec' \in Reconciler /\ rec'.at = "entries" /\ rec'.todo = rec.todo /\ rec'.wanted = rec.wanted /\ rec'.info = rec.info
  BY <1>1, BackFacts
<1>7. Wanted' = Wanted
  BY <1>6 DEF Wanted
<1>8. RecFits'
  BY <1>1, <1>2, <1>6, <1>7 DEF RecFits, Entering, Unregistering, Adding
<1>9. StillRegistered'
  BY <1>1, <1>3, <1>7, StepFacts, GatewayTyped DEF SameRegistry, StillRegistered
<1>10. Undisturbed' => ConnectFits' /\ CatalogReady'
  <2>1. Undisturbed' => CatalogReady
    BY <1>1, StepFacts
  <2>. QED
    BY <1>1, <1>5, <1>6, <2>1, GainsFit DEF CatalogReady, Entering, Unregistering, Adding
<1>11. \A u : ToCome(u) => ToCome(u)'
  BY <1>1, <1>6 DEF ToCome, Unregistering
<1>. QED
  BY <1>1, <1>3, <1>5, <1>6, <1>8, <1>9, <1>10, <1>11, StepFacts, GainsFit, PoolRecKept DEF PoolGains

\* The tools of a ready server are taken from the pool, another is connected.
LEMMA DiscoverKept ==
  ASSUME GatewayInv, Discover
  PROVE  GatewayInv'
<1>1. /\ UNCHANGED <<rtool, calm, backend, agent, called, catalog, visible, gen, build>>
      /\ rec.at = "discover" /\ rec \in Reconciler /\ GatewayTypes /\ RowsFit /\ rec.at \notin Adding
      /\ pool[rec.now].state # "Connecting" /\ upsets \in [UpsetKind -> Nat]
  BY StepFacts DEF Discover, RecAt, outside, gateway, Adding, GatewayInv
<1>2. RecFits /\ rec.now \in Server /\ rec.now \in Wanted
  BY <1>1, StepFacts DEF RecFits
<1>3. /\ pool \in [Server -> PoolEntry] /\ pool[rec.now].tools \subseteq Of(Tool, rec.now)
      /\ backend[rec.now] \subseteq Of(Tool, rec.now)
  BY <1>1, <1>2, StepFacts DEF RowsFit
<1>4. UNCHANGED upsets \/ MayRefuse(rec.now)
  BY DEF Discover
<1>5. upsets' \in [UpsetKind -> Nat] /\ (Undisturbed' => Undisturbed)
  BY <1>1, <1>2, <1>4, MayRefuseFacts DEF Undisturbed
<1>6. /\ pool' \in [Server -> PoolEntry] /\ \A u \in Server : u # rec.now => pool'[u] = pool[u]
      /\ pool'[rec.now].entry = pool[rec.now].entry
      /\ \A u \in Server : pool'[u].tools \subseteq Of(Tool, u) /\ (pool'[u].state = "Ready" => pool'[u].known)
      /\ pool[rec.now].state = "Ready" => pool' = pool
  <2>1. CASE pool' = pool
    BY <1>3, <2>1, StepFacts
  <2>2. CASE pool[rec.now].state # "Ready" /\ (pool' = Connected(rec.now) \/ pool' = Refused(rec.now))
    <3>1. /\ pool' \in [Server -> PoolEntry] /\ \A u \in Server : u # rec.now => pool'[u] = pool[u]
          /\ pool'[rec.now].entry = pool[rec.now].entry /\ pool'[rec.now].known
          /\ pool'[rec.now].tools \subseteq Of(Tool, rec.now)
      BY <1>1, <1>2, <1>3, <2>2, PoolFacts
    <3>. QED
      BY <2>2, <3>1, StepFacts
  <2>3. pool' = pool \/ (pool[rec.now].state # "Ready" /\ (pool' = Connected(rec.now) \/ pool' = Refused(rec.now)))
    BY DEF Discover
  <2>. QED
    BY <2>1, <2>2, <2>3
<1>7. Undisturbed' => ConnectFits'
  <2>1. \A a \in Agent : agent'[a] = agent[a]
    BY <1>1
  <2>2. \A u \in Server : pool'[u].entry = pool[u].entry /\ (u # rec.now => pool'[u] = pool[u])
    BY <1>6
  <2>. QED
    BY <1>1, <1>2, <1>5, <2>1, <2>2, ConnectsKept
<1>8. \A n \in catalog : n[1] \in Server
  BY <1>1, GatewayTyped
<1>9. Undisturbed' => \A n \in catalog : pool'[n[1]].state = "Ready"
  BY <1>5, <1>6, <1>8, StepFacts DEF CatalogReady
<1>10. CASE /\ \E T \in {pool[rec.now].tools, backend[rec.now]} : rec' = [rec EXCEPT !.at = "persist", !.tools = T]
            /\ row' = row /\ pool'[rec.now].state = "Ready"
  <2>1. PICK T \in SUBSET Of(Tool, rec.now) : rec' = [rec EXCEPT !.at = "persist", !.tools = T]
    BY <1>3, <1>10
  <2>2. T \in SUBSET Tool /\ "persist" \in RecPlace
    BY <2>1 DEF Of, RecPlace
  <2>3. /\ rec' \in Reconciler /\ rec'.at = "persist" /\ rec'.tools = T /\ rec'.todo = rec.todo /\ rec'.now = rec.now
        /\ rec'.info = rec.info /\ rec'.wanted = rec.wanted
    BY <1>1, <2>1, <2>2 DEF Reconciler
  <2>4. Wanted' = Wanted
    BY <2>3 DEF Wanted
  <2>5. RecFits'
    BY <1>1, <1>2, <2>1, <2>3, <2>4 DEF RecFits, Entering, Unregistering, Adding
  <2>6. SameRegistry /\ StillRegistered'
    BY <1>1, <1>10, <2>4, StepFacts DEF SameRegistry, StillRegistered
  <2>7. Undisturbed' => CatalogReady'
    BY <1>1, <1>5, <1>9, <1>10, <2>3, StepFacts DEF CatalogReady, Entering, Unregistering, Adding
  <2>8. \A u : ToCome(u) => ToCome(u)'
    BY <1>1, <2>3 DEF ToCome, Unregistering
  <2>. QED
    BY <1>1, <1>5, <1>6, <1>7, <2>3, <2>5, <2>6, <2>7, <2>8, StepFacts, PoolRecKept
<1>11. CASE pool[rec.now].state # "Ready" /\ rec' = Back /\ Health(rec.now, "failed")
  <2>1. rec' \in Reconciler /\ rec'.at = "entries" /\ rec'.todo = rec.todo /\ rec'.wanted = rec.wanted /\ rec'.info = rec.info
    BY <1>1, <1>11, BackFacts
  <2>2. Wanted' = Wanted
    BY <2>1 DEF Wanted
  <2>3. RecFits'
    BY <1>1, <1>2, <2>1, <2>2 DEF RecFits, Entering, Unregistering, Adding
  <2>4. SameRegistry
    BY <1>1, <1>2, <1>11, HealthFacts
  <2>5. StillRegistered'
    BY <1>1, <2>2, <2>4, StepFacts, GatewayTyped DEF SameRegistry, StillRegistered
  <2>6. Undisturbed' => CatalogReady'
    BY <1>1, <1>5, <1>9, <2>1, StepFacts DEF CatalogReady, Entering, Unregistering, Adding
  <2>7. Undisturbed' => \A n \in catalog : n[1] # rec.now
    BY <1>5, <1>11, StepFacts DEF CatalogReady
  <2>8. \A u : u # rec.now /\ ToCome(u) => ToCome(u)'
    BY <1>1, <2>1 DEF ToCome, Unregistering
  <2>. QED
    BY <1>1, <1>5, <1>6, <1>7, <2>1, <2>3, <2>4, <2>5, <2>6, <2>7, <2>8, StepFacts, PoolRecKept
<1>12. \/ pool[rec.now].state = "Ready" /\ rec' = [rec EXCEPT !.at = "persist", !.tools = pool[rec.now].tools] /\ UNCHANGED <<row, pool>>
       \/ pool' = Connected(rec.now) /\ rec' = [rec EXCEPT !.at = "persist", !.tools = backend[rec.now]] /\ row' = row
       \/ pool[rec.now].state # "Ready" /\ rec' = Back /\ Health(rec.now, "failed")
  BY DEF Discover
<1>13. pool' = Connected(rec.now) => pool'[rec.now].state = "Ready"
  BY <1>1, <1>2, PoolFacts
<1>. QED
  BY <1>10, <1>11, <1>12, <1>13

\* The reconciler builds the visible set from the tools it has now.
LEMMA RebuildKept ==
  ASSUME GatewayInv, Rebuild \/ Rebuilt
  PROVE  GatewayInv'
<1>1. /\ UNCHANGED <<row, rtool, calm, pool, backend, agent, called, upsets>>
      /\ rec \in Reconciler /\ GatewayTypes /\ (Undisturbed' => Undisturbed) /\ rec.at \in {"tools", "building"}
      /\ "reconciler" \in Builder
  BY StepFacts DEF Rebuild, Rebuilt, RecAt, registry, outside, Undisturbed, Builder
<1>2. PICK p \in {"building", "sync"} : rec' = [rec EXCEPT !.at = p]
  BY DEF Rebuild, Rebuilt
<1>3. p \in RecPlace
  BY DEF RecPlace
<1>4. /\ rec' \in Reconciler /\ rec'.at = p /\ rec'.todo = rec.todo /\ rec'.now = rec.now /\ rec'.info = rec.info
      /\ rec'.drift = rec.drift /\ Wanted' = Wanted
  BY <1>1, <1>2, <1>3, RecGoes
<1>5. catalog' = catalog /\ gen' \in Builder \union {"none"} /\ visible' = visible /\ BuildsFit'
      /\ build' \in [Builder -> Build] /\ (\A b \in Builder : build'[b].set \cap Denied = {})
      /\ \/ \A n \in catalog : UpToDate(n)'
         \/ rec.at = "building" /\ \A n \in catalog : UpToDate(n) => UpToDate(n)'
  <2>1. CASE Rebuild
    BY <1>1, <2>1, BuildStartFacts DEF Rebuild
  <2>2. CASE Rebuilt
    <3>1. /\ build["reconciler"].at = "done" /\ build' = [build EXCEPT !["reconciler"] = NoBuild] /\ rec.at = "building"
          /\ UNCHANGED <<catalog, visible, gen>>
      BY <2>2 DEF Rebuilt, RecAt
    <3>2. NoBuild \in Build /\ NoBuild.at = "idle" /\ NoBuild.set = {}
      BY DEF NoBuild, Build
    <3>3. build' \in [Builder -> Build] /\ build'["reconciler"] = NoBuild /\ \A b \in Builder : b # "reconciler" => build'[b] = build[b]
      BY <1>1, <3>1, <3>2, StepFacts
    <3>4. \A b \in Builder : build'[b].set \cap Denied = {}
      BY <3>2, <3>3, StepFacts
    <3>5. BuildsFit'
      BY <1>1, <3>1, <3>2, <3>3, StepFacts DEF BuildsFit
    <3>6. ASSUME NEW n \in catalog, UpToDate(n) PROVE UpToDate(n)'
      <4>1. MayBeSeen(n)' <=> MayBeSeen(n)
        BY <1>1 DEF MayBeSeen
      <4>2. CASE gen = "reconciler"
        BY <3>1, <3>2, <3>3, <3>6, <4>1, <4>2 DEF UpToDate
      <4>3. CASE gen # "reconciler"
        BY <3>1, <3>3, <3>6, <4>1, <4>3, StepFacts DEF UpToDate
      <4>. QED
        BY <4>2, <4>3
    <3>. QED
      BY <3>1, <3>3, <3>4, <3>5, <3>6, StepFacts
  <2>. QED
    BY <2>1, <2>2
<1>6. RecFits'
  BY <1>1, <1>4, StepFacts DEF RecFits, Entering, Unregistering, Adding
<1>7. StillRegistered' /\ SameRegistry
  BY <1>1, <1>4, StepFacts DEF StillRegistered, SameRegistry
<1>8. Undisturbed' => ConnectFits' /\ CatalogReady'
  BY <1>1, <1>4, <1>5, StepFacts DEF ConnectFits, SameEntry, CatalogReady, Entering, Unregistering, Adding
<1>9. \A u : rec.at = "building" /\ ToCome(u) => ToCome(u)'
  BY <1>4 DEF ToCome, Unregistering
<1>10. Undisturbed' => Fresh'
  BY <1>1, <1>5, <1>9, StepFacts DEF Fresh, Adding
<1>. QED
  BY <1>1, <1>4, <1>5, <1>6, <1>7, <1>8, <1>10, StepFacts, StepKept

\* A gateway that starts: from the rows of a file and what the registry had.
Started(file, rows) ==
  /\ row = SyncConfigServers(file, rows) /\ pool = NewPool(file)
  /\ catalog = {} /\ visible = [built |-> FALSE, set |-> {}] /\ gen = "none"
  /\ build = [b \in Builder |-> NoBuild] /\ rec = [RecIdle EXCEPT !.at = "list"]
  /\ agent = [a \in Agent |-> AgentIdle] /\ calm = FALSE

LEMMA SyncFacts ==
  ASSUME NEW file \in [Server -> Config \union {NoConfig}], NEW rows \in [Server -> ServerRow],
         \A s \in Server : rows[s].proxy => rows[s].owner # "none" /\ rows[s].cfg # NoConfig
  PROVE  LET r == SyncConfigServers(file, rows) IN
         /\ r \in [Server -> ServerRow]
         /\ \A s \in Server : r[s].proxy => r[s].owner # "none" /\ r[s].cfg # NoConfig
<1>1. PICK r : r = SyncConfigServers(file, rows)
  OBVIOUS
<1>2. ASSUME NEW s \in Server
      PROVE  r[s] \in ServerRow /\ (r[s].proxy => r[s].owner # "none" /\ r[s].cfg # NoConfig)
  <2>1. PICK new : new = [owner |-> "config", cfg |-> file[s], proxy |-> TRUE, status |-> "pending"]
    OBVIOUS
  <2>2. PICK same : same = [rows[s] EXCEPT !.cfg = file[s], !.proxy = TRUE]
    OBVIOUS
  <2>3. PICK hidden : hidden = [rows[s] EXCEPT !.proxy = FALSE]
    OBVIOUS
  <2>4. rows[s] \in ServerRow /\ file[s] \in Config \union {NoConfig}
    OBVIOUS
  <2>5. new \in ServerRow /\ new.owner = "config" /\ new.cfg = file[s]
    BY <2>1, <2>4 DEF ServerRow
  <2>6. same \in ServerRow /\ same.owner = rows[s].owner /\ same.cfg = file[s]
    BY <2>2, <2>4 DEF ServerRow
  <2>7. hidden \in ServerRow /\ ~hidden.proxy
    BY <2>3, <2>4 DEF ServerRow
  <2>8. r[s] = IF file[s] # NoConfig /\ rows[s].owner = "none" THEN new
               ELSE IF file[s] # NoConfig /\ rows[s].owner = "config" THEN same
               ELSE IF rows[s].owner = "config" THEN hidden ELSE rows[s]
    BY <1>1, <2>1, <2>2, <2>3 DEF SyncConfigServers
  <2>. QED
    BY <2>4, <2>5, <2>6, <2>7, <2>8
<1>3. r = [s \in Server |-> r[s]]
  BY <1>1 DEF SyncConfigServers
<1>4. r \in [Server -> ServerRow]
  BY <1>2, <1>3
<1>. QED
  BY <1>1, <1>2, <1>4

\* What outlives a gateway.
Lasting == /\ rtool \in [Tool -> {"absent", "enabled", "disabled"}]
           /\ backend \in [Server -> SUBSET Tool] /\ \A s \in Server : backend[s] \subseteq Of(Tool, s)
           /\ called \in SUBSET Tool /\ called \cap Denied = {} /\ upsets \in [UpsetKind -> Nat]

StartsWell ==
  \A file \in [Server -> Config \union {NoConfig}], rows \in [Server -> ServerRow] :
     (\A s \in Server : rows[s].proxy => rows[s].owner # "none" /\ rows[s].cfg # NoConfig)
     /\ Started(file, rows) /\ Lasting => GatewayInv

LEMMA StartedFits == StartsWell
<1>. SUFFICES ASSUME NEW file \in [Server -> Config \union {NoConfig}], NEW rows \in [Server -> ServerRow],
                     \A s \in Server : rows[s].proxy => rows[s].owner # "none" /\ rows[s].cfg # NoConfig,
                     Started(file, rows), Lasting
              PROVE  GatewayInv
  BY DEF StartsWell
<1>1. row \in [Server -> ServerRow] /\ \A s \in Server : row[s].proxy => row[s].owner # "none" /\ row[s].cfg # NoConfig
  BY SyncFacts DEF Started
<1>2. /\ pool \in [Server -> PoolEntry]
      /\ \A s \in Server : pool[s].tools = {} /\ pool[s].state = "Idle"
  <2>1. ASSUME NEW s \in Server PROVE pool[s] \in PoolEntry /\ pool[s].tools = {} /\ pool[s].state = "Idle"
    <3>1. pool[s] = [known |-> FALSE, cfg |-> file[s], state |-> "Idle", tools |-> {}, entry |-> 0]
      BY DEF Started, NewPool, NotKnown
    <3>. QED
      BY <3>1 DEF PoolEntry
  <2>2. pool = [s \in Server |-> pool[s]]
    BY DEF Started, NewPool
  <2>. QED
    BY <2>1, <2>2
<1>3. /\ rec \in Reconciler /\ rec.at = "list" /\ rec.todo = {} /\ rec.wanted = [s \in Server |-> NoConfig]
  <2>1. RecIdle \in Reconciler /\ "list" \in RecPlace
    BY RecIdleFacts DEF RecPlace
  <2>2. rec = [RecIdle EXCEPT !.at = "list"]
    BY DEF Started
  <2>3. PICK idle : idle = RecIdle
    OBVIOUS
  <2>4. rec \in Reconciler /\ rec.at = "list" /\ rec.todo = idle.todo /\ rec.wanted = idle.wanted
    BY <2>1, <2>2, <2>3 DEF Reconciler
  <2>. QED
    BY <2>3, <2>4, RecIdleFacts
<1>4. Wanted = {}
  BY <1>3 DEF Wanted
<1>5. /\ agent \in [Agent -> Operation] /\ \A a \in Agent : agent[a].at = "idle"
  BY OperationFacts DEF Started
<1>6. /\ build \in [Builder -> Build] /\ \A b \in Builder : build[b].at = "idle" /\ build[b].set = {}
  <2>1. NoBuild \in Build /\ NoBuild.at = "idle" /\ NoBuild.set = {}
    BY DEF NoBuild, Build
  <2>. QED
    BY <2>1 DEF Started
<1>7. /\ catalog = {} /\ visible \in [built : BOOLEAN, set : SUBSET Tool] /\ visible.set = {} /\ gen = "none"
      /\ calm = FALSE
  BY DEF Started
<1>8. GatewayTypes
  BY <1>1, <1>2, <1>3, <1>5, <1>6, <1>7 DEF GatewayTypes, Lasting
<1>9. NothingDenied /\ RowsFit
  BY <1>1, <1>2, <1>5, <1>6, <1>7 DEF NothingDenied, RowsFit, Lasting
<1>10. RecFits /\ StillRegistered
  BY <1>3, <1>4 DEF RecFits, StillRegistered, Entering, Unregistering, Adding
<1>11. BuildsFit /\ ConnectFits /\ CatalogReady /\ Fresh
  BY <1>3, <1>5, <1>6, <1>7 DEF BuildsFit, ConnectFits, CatalogReady, Fresh, Entering, Unregistering, Adding
<1>. QED
  BY <1>8, <1>9, <1>10, <1>11 DEF GatewayInv

LEMMA RestartedFits == StartsWell'
  BY StartedFits, PTL

LEMMA GatewayStarts == Init => GatewayInv
<1>. SUFFICES ASSUME Init PROVE GatewayInv
  OBVIOUS
<1>1. FileConfig \in [Server -> Config \union {NoConfig}]
  BY GatewayAssumption
<1>2. PICK rows : rows = [s \in Server |-> NoRow]
  OBVIOUS
<1>3. NoRow \in ServerRow /\ ~NoRow.proxy
  BY DEF NoRow, ServerRow
<1>4. rows \in [Server -> ServerRow] /\ \A s \in Server : ~rows[s].proxy
  BY <1>2, <1>3
<1>5. Started(FileConfig, rows)
  BY <1>2 DEF Init, Started
<1>6. rtool \in [Tool -> {"absent", "enabled", "disabled"}] /\ called = {} /\ upsets \in [UpsetKind -> Nat]
  BY DEF Init
<1>7. backend \in [Server -> SUBSET Tool] /\ \A s \in Server : backend[s] \subseteq Of(Tool, s)
  <2>1. backend = [s \in Server |-> {s} \X ToolName]
    BY DEF Init
  <2>2. \A s \in Server : {s} \X ToolName \in SUBSET Tool /\ {s} \X ToolName \subseteq Of(Tool, s)
    BY DEF Tool, Of
  <2>. QED
    BY <2>1, <2>2
<1>8. Lasting
  BY <1>6, <1>7 DEF Lasting
<1>. QED
  BY <1>1, <1>4, <1>5, <1>8, StartedFits DEF StartsWell

LEMMA GatewayRestartKept ==
  ASSUME GatewayInv, GatewayRestart
  PROVE  GatewayInv'
<1>1. PICK file \in [Server -> {NoConfig} \union Config] : row' = SyncConfigServers(file, row) /\ pool' = NewPool(file)
  BY DEF GatewayRestart
<1>2. file \in [Server -> Config \union {NoConfig}]
  BY <1>1
<1>3. PICK rows : rows = row
  OBVIOUS
<1>4. rows \in [Server -> ServerRow] /\ \A s \in Server : rows[s].proxy => rows[s].owner # "none" /\ rows[s].cfg # NoConfig
  BY <1>3, StepFacts DEF GatewayInv, RowsFit
<1>5. Started(file, rows)'
  BY <1>1, <1>3 DEF GatewayRestart, Started
<1>6. "restart" \in UpsetKind /\ Upset("restart")
  BY DEF UpsetKind, GatewayRestart
<1>7. upsets' \in [UpsetKind -> Nat]
  BY <1>6, UpsetFacts, StepFacts
<1>8. /\ rtool' \in [Tool -> {"absent", "enabled", "disabled"}]
      /\ backend' \in [Server -> SUBSET Tool] /\ \A s \in Server : backend'[s] \subseteq Of(Tool, s)
      /\ called' \in SUBSET Tool /\ called' \cap Denied = {}
  <2>1. UNCHANGED <<rtool, backend, called>>
    BY DEF GatewayRestart
  <2>. QED
    BY <2>1 DEF GatewayInv, GatewayTypes, NothingDenied, RowsFit
<1>9. Lasting'
  BY <1>7, <1>8 DEF Lasting
<1>. QED
  BY <1>2, <1>4, <1>5, <1>9, RestartedFits DEF StartsWell

\* The requests in the trigger channel name servers.
TriggersFit == trigger \in Seq(Server)

LEMMA TriggerNames == Spec => []TriggersFit
<1>1. Init => TriggersFit
  BY DEF Init, TriggersFit
<1>2. ASSUME TriggersFit, [Next]_vars PROVE TriggersFit'
  <2>. SUFFICES ASSUME trigger \in Seq(Server) PROVE trigger' \in Seq(Server)
    BY <1>2 DEF TriggersFit
  <2>1. CASE \E s \in Server : ChangeTools(s)
    BY <1>2, <2>1 DEF ChangeTools, Notify
  <2>2. CASE TakeTrigger
    BY <1>2, <2>2 DEF TakeTrigger
  <2>3. CASE GatewayRestart
    BY <2>3 DEF GatewayRestart
  <2>4. CASE \/ StartupBuild \/ Tick \/ ListServers \/ AddMissing \/ NextRemoval \/ NextEntry
             \/ \E b \in Builder : BuildRead(b) \/ BuildWrite(b)
    BY <1>2, <2>4 DEF StartupBuild, Tick, ListServers, AddMissing, NextRemoval, NextEntry, BuildRead, BuildWrite
  <2>5. CASE \/ Unregister \/ UnregisterTools \/ Forget \/ Disconnect \/ Readd \/ Discover \/ Persist
             \/ Prune \/ PruneTools \/ RecordTool \/ Rebuild \/ Rebuilt \/ SyncGraph
             \/ AddTool \/ \E n \in Tool : NextTool(n)
    BY <1>2, <2>5 DEF Unregister, UnregisterTools, Forget, Disconnect, Readd, Discover, Persist,
         Prune, PruneTools, RecordTool, Rebuild, Rebuilt, SyncGraph, AddTool, NextTool
  <2>6. CASE \E s \in Server : Fetch(s) \/ DeleteServer(s) \/ \E c \in Config : RegisterServer(s, c)
    BY <1>2, <2>6 DEF Fetch, Leave, DeleteServer, RegisterServer, Edit
  <2>7. CASE \E n \in Tool, on \in BOOLEAN : SetToolEnabled(n, on)
    BY <1>2, <2>7 DEF SetToolEnabled, Edit
  <2>8. CASE \E a \in Agent : Forward(a) \/ ConnectEnd(a) \/ Call(a) \/ \E n \in Tool : CallCheck(a, n)
    BY <1>2, <2>8 DEF Forward, ConnectEnd, Call, CallCheck, Leave
  <2>9. CASE UNCHANGED vars
    BY <1>2, <2>9 DEF vars
  <2>. QED
    BY <1>2, <2>1, <2>2, <2>3, <2>4, <2>5, <2>6, <2>7, <2>8, <2>9 DEF Next
<1>. QED
  BY <1>1, <1>2, PTL DEF Spec

\* What registry and policy say of a tool, what the newest build of the
\* visible set has of it and what the pass of the reconciler has yet to do
\* fit together, in every reachable state: the inductive invariant.
THEOREM GatewayInvariant == Spec => []GatewayInv
<1>1. ASSUME GatewayInv, TriggersFit, [Next]_vars PROVE GatewayInv'
  <2>1. CASE GatewayRestart \/ StartupBuild
    BY <1>1, <2>1, GatewayRestartKept, StartupBuildKept
  <2>2. ASSUME NEW s \in Server, ChangeTools(s) \/ Fetch(s) \/ DeleteServer(s) \/ \E c \in Config : RegisterServer(s, c)
        PROVE  GatewayInv'
    BY <1>1, <2>2, ChangeToolsKept, FetchKept, EditsKept
  <2>3. CASE \E n \in Tool, on \in BOOLEAN : SetToolEnabled(n, on)
    BY <1>1, <2>3, EditsKept
  <2>4. CASE \E b \in Builder : BuildRead(b) \/ BuildWrite(b)
    BY <1>1, <2>4, BuildReadKept, BuildWriteKept
  <2>5. CASE Tick \/ ListServers \/ AddMissing \/ NextRemoval \/ TakeTrigger \/ NextEntry
    BY <1>1, <2>5, TickKept, ListServersKept, AddMissingKept, NextRemovalKept, TakeTriggerKept, NextEntryKept
       DEF TriggersFit
  <2>6. CASE Unregister \/ Prune \/ RecordTool
    BY <1>1, <2>6, CatalogKept
  <2>7. CASE UnregisterTools \/ Forget \/ PruneTools \/ AddTool \/ SyncGraph \/ \E n \in Tool : NextTool(n)
    BY <1>1, <2>7, MovesKept
  <2>8. CASE Disconnect \/ Readd \/ Discover \/ Persist \/ Rebuild \/ Rebuilt
    BY <1>1, <2>8, DisconnectKept, ReaddKept, DiscoverKept, PersistKept, RebuildKept
  <2>9. ASSUME NEW a \in Agent, Forward(a) \/ ConnectEnd(a) \/ Call(a) \/ \E n \in Tool : CallCheck(a, n)
        PROVE  GatewayInv'
    BY <1>1, <2>9, ForwardKept, ConnectEndKept, CallKept, CallCheckKept
  <2>10. CASE UNCHANGED vars
    <3>1. UNCHANGED <<row, rtool, calm, pool, backend, agent, called, catalog, visible, gen, build, rec, upsets>>
      BY <2>10 DEF vars
    <3>. QED
      BY <1>1, <3>1, StepFacts, BuildStepKept, SameBuilds DEF Undisturbed
  <2>. QED
    BY <1>1, <2>1, <2>2, <2>3, <2>4, <2>5, <2>6, <2>7, <2>8, <2>9, <2>10 DEF Next
<1>. QED
  BY <1>1, GatewayStarts, TriggerNames, PTL DEF Spec

\* No call of a tool the policy denies reaches a backend, and once a full
\* pass has seen every registry command and nothing failed, the visible
\* tools are the enabled and allowed ones of the catalog: for any servers,
\* tools, policy, agents and registry commands.
THEOREM GatewayIsSound == Spec => []GatewaySound
<1>1. GatewayInv => GatewaySound
  <2>. SUFFICES ASSUME GatewayInv PROVE GatewaySound
    OBVIOUS
  <2>1. PolicyEnforced
    BY DEF PolicyEnforced, GatewayInv, NothingDenied
  <2>2. VisibleIsCurrent
    <3>. SUFFICES ASSUME rec.at = "idle", calm, Undisturbed, \A b \in Builder : build[b].at \notin {"read", "write"},
                         build["startup"].at = "done"
                  PROVE  visible.built /\ visible.set \cap catalog = VisibleOf(catalog)
      BY DEF VisibleIsCurrent, Undisturbed
    <3>1. gen \in Builder /\ "startup" \in Builder
      BY StepFacts DEF BuildsFit, Builder
    <3>2. gen # "none" /\ build[gen].at \in {"idle", "done"}
      BY <3>1, StepFacts DEF Build, Builder
    <3>3. visible.built
      BY <3>2, StepFacts DEF BuildsFit
    <3>4. rec.todo = {} /\ \A s : ~ToCome(s)
      BY StepFacts DEF RecFits, ToCome, Unregistering
    <3>5. \A n \in catalog : n \in visible.set <=> MayBeSeen(n)
      BY <3>2, <3>4, StepFacts DEF Fresh, UpToDate, Adding
    <3>. QED
      BY <3>3, <3>5 DEF VisibleOf, MayBeSeen
  <2>. QED
    BY <2>1, <2>2 DEF GatewaySound
<1>. QED
  BY <1>1, GatewayInvariant, PTL

=============================================================================
