----------------------------- MODULE RemoteBus -----------------------------
(***************************************************************************)
(* The events of one mission on their way from a remote worker to the      *)
(* agent's snapshot in the control plane.  On the worker RemoteBus batches *)
(* them: the mission and its heartbeat goroutine emit, and the emitter     *)
(* that fills a batch, the ticker goroutine and Close each flush.  A POST  *)
(* may fail, or be answered too late while the control plane still works   *)
(* on it.  The control plane feeds the events of a POST one by one to      *)
(* SnapshotSink.                                                           *)
(***************************************************************************)
EXTENDS Naturals, Sequences

CONSTANTS
  MaxBatch,   \* maxBatchSize
  MaxDetail,  \* bound: events of the mission between first and last
  MaxBeat,    \* bound: heartbeats
  MaxFail,    \* bound: POSTs that fail
  MaxSweep    \* bound: maintenance sweeps of the control plane past the TTL

ASSUME BusAssumption ==
  /\ MaxBatch \in Nat \ {0}
  /\ MaxDetail \in Nat /\ MaxBeat \in Nat /\ MaxFail \in Nat /\ MaxSweep \in Nat

VARIABLES
  mission,   \* what the mission goroutine emits next, or where it is
  beats,     \* heartbeats emitted
  pending,   \* RemoteBus.pending
  stopped,   \* RemoteBus.stopped
  flush,     \* flusher -> its flush call
  wire,      \* flusher -> events of its POST the control plane has yet to apply
  late,      \* POSTs the worker gave up on, what is left to apply of each
  ingested,  \* every event applied, in order
  snapshot,  \* the agent's status in SnapshotStore
  fails,     \* POSTs that failed so far
  sweeps,    \* sweeps so far
  dropped    \* history: flush gave an event up

busVars == <<mission, beats, pending, stopped, flush, wire, late, ingested,
          snapshot, fails, sweeps, dropped>>

Emitters == {"mission", "heart"}
Flusher  == Emitters \union {"ticker"}      \* Close runs in the mission

Started  == [kind |-> "started", n |-> 0]
Terminal == [kind |-> "terminal", n |-> 0]
Detail(n) == [kind |-> "detail", n |-> n]
Beat(n)   == [kind |-> "beat", n |-> n]

BusEvent == {Started, Terminal} \union {Detail(n) : n \in 1 .. MaxDetail}
                             \union {Beat(n) : n \in 1 .. MaxBeat}

\* The mission's place: 0 before lifecycle.started, then one more after
\* each event it emits, then Close.
Closing == MaxDetail + 2
Closed  == MaxDetail + 3

Mission(n) == IF n = 0 THEN Started ELSE IF n <= MaxDetail THEN Detail(n) ELSE Terminal

Idle == [at |-> "idle", batch |-> <<>>]

FlushCall == [at : {"idle", "full", "post", "failed"}, batch : Seq(BusEvent)]

BusTypeOK ==
  /\ mission \in 0 .. Closed /\ beats \in 0 .. MaxBeat
  /\ pending \in Seq(BusEvent) /\ stopped \in BOOLEAN
  /\ flush \in [Flusher -> FlushCall]
  /\ wire \in [Flusher -> Seq(BusEvent)]
  /\ late \in Seq(Seq(BusEvent)) /\ ingested \in Seq(BusEvent)
  /\ snapshot \in {"none", "unknown", "Running", "Terminal"}
  /\ fails \in 0 .. MaxFail /\ sweeps \in 0 .. MaxSweep
  /\ dropped \in BOOLEAN

BusInit ==
  /\ mission = 0 /\ beats = 0
  /\ pending = <<>> /\ stopped = FALSE
  /\ flush = [f \in Flusher |-> Idle]
  /\ wire  = [f \in Flusher |-> <<>>]
  /\ late  = <<>> /\ ingested = <<>>
  /\ snapshot = "none" /\ fails = 0 /\ sweeps = 0 /\ dropped = FALSE

(***************************************************************************)
(* The worker                                                              *)
(***************************************************************************)

\* Emit: append, and flush when the batch is full; a stopped bus drops.
EmitBy(f, e) ==
  /\ flush[f].at = "idle"
  /\ \/ /\ stopped /\ UNCHANGED <<pending, flush>>
     \/ /\ ~stopped
        /\ pending' = Append(pending, e)
        /\ flush'   = IF Len(pending) + 1 >= MaxBatch
                        THEN [flush EXCEPT ![f].at = "full"] ELSE flush

EmitMission ==
  /\ mission < Closing
  /\ EmitBy("mission", Mission(mission))
  /\ mission' = mission + 1
  /\ UNCHANGED <<beats, stopped, wire, late, ingested, snapshot, fails, sweeps, dropped>>

\* The heartbeat goroutine, while the mission runs; it stops on its own
\* schedule after the mission's context is cancelled.
EmitBeat ==
  /\ mission > 0 /\ beats < MaxBeat
  /\ EmitBy("heart", Beat(beats + 1))
  /\ beats' = beats + 1
  /\ UNCHANGED <<mission, stopped, wire, late, ingested, snapshot, fails, sweeps, dropped>>

\* Mutant: the batch stays in the queue as well.
TakeBatchKept(f) ==
  /\ flush'   = [flush EXCEPT ![f] = [at |-> "post", batch |-> pending]]
  /\ wire'    = [wire EXCEPT ![f] = pending]
  /\ UNCHANGED pending

\* flush: takes everything pending; nothing pending, nothing to do.
TakeBatch(f) ==
  IF pending = <<>>
    THEN /\ flush' = [flush EXCEPT ![f] = Idle]
         /\ UNCHANGED <<pending, wire>>
    ELSE /\ flush'   = [flush EXCEPT ![f] = [at |-> "post", batch |-> pending]]
         /\ wire'    = [wire EXCEPT ![f] = pending]
         /\ pending' = <<>>

\* The emitter that filled the batch, or Close, flushes it.
FlushFull(f) ==
  /\ flush[f].at = "full"
  /\ TakeBatch(f)
  /\ UNCHANGED <<mission, beats, stopped, late, ingested, snapshot, fails, sweeps, dropped>>

\* flushLoop, on its ticker: a tick already due may still be taken after
\* Close has set stopped.
Tick ==
  /\ flush["ticker"].at = "idle" /\ pending # <<>>
  /\ TakeBatch("ticker")
  /\ UNCHANGED <<mission, beats, stopped, late, ingested, snapshot, fails, sweeps, dropped>>

\* Mutant: Close has no final flush.
CloseOnly ==
  /\ mission = Closing /\ flush["mission"].at = "idle"
  /\ stopped' = TRUE
  /\ mission' = Closed
  /\ UNCHANGED <<beats, pending, flush, wire, late, ingested, snapshot, fails, sweeps, dropped>>

\* Close: stop; the final flush is a step of its own.
Close ==
  /\ mission = Closing /\ flush["mission"].at = "idle"
  /\ stopped' = TRUE
  /\ mission' = Closed
  /\ flush'   = [flush EXCEPT !["mission"].at = "full"]
  /\ UNCHANGED <<beats, pending, wire, late, ingested, snapshot, fails, sweeps, dropped>>

\* post is answered once every event was applied.
PostDone(f) ==
  /\ flush[f].at = "post" /\ wire[f] = <<>>
  /\ flush' = [flush EXCEPT ![f] = Idle]
  /\ UNCHANGED <<mission, beats, pending, stopped, wire, late, ingested, snapshot,
                 fails, sweeps, dropped>>

\* post fails: the request was never applied, or the answer is too late and
\* the control plane goes on applying what is left of it.
PostFail(f) ==
  /\ flush[f].at = "post" /\ fails < MaxFail
  /\ fails' = fails + 1
  /\ flush' = [flush EXCEPT ![f].at = "failed"]
  /\ late'  \in {late, Append(late, wire[f])}
  /\ wire'  = [wire EXCEPT ![f] = <<>>]
  /\ UNCHANGED <<mission, beats, pending, stopped, ingested, snapshot, sweeps, dropped>>

\* Mutant: the queue is not capped.
CapNever(q) == q

\* The newest 2 * maxBatchSize events.
Cap(q) == IF Len(q) > 2 * MaxBatch THEN SubSeq(q, Len(q) - 2 * MaxBatch + 1, Len(q)) ELSE q

\* flush: a failed batch goes back in front, unless the bus is stopped.
Requeue(f) ==
  /\ flush[f].at = "failed"
  /\ pending' = IF stopped THEN pending ELSE Cap(flush[f].batch \o pending)
  /\ dropped' = (dropped \/ stopped \/ Len(flush[f].batch \o pending) > 2 * MaxBatch)
  /\ flush'   = [flush EXCEPT ![f] = Idle]
  /\ UNCHANGED <<mission, beats, stopped, wire, late, ingested, snapshot, fails, sweeps>>

(***************************************************************************)
(* The control plane                                                       *)
(***************************************************************************)

\* SnapshotSink.Handle: terminal events update an existing snapshot only,
\* others create it; lifecycle.started sets Running whatever it was.
Project(s, e) ==
  CASE e.kind = "terminal" -> IF s = "none" THEN s ELSE "Terminal"
    [] e.kind = "started"  -> "Running"
    [] OTHER               -> IF s = "none" THEN "unknown" ELSE s

\* IngestEvents: the next event of a POST.
Apply(e) ==
  /\ ingested' = Append(ingested, e)
  /\ snapshot' = Project(snapshot, e)

Ingest(f) ==
  /\ wire[f] # <<>>
  /\ Apply(Head(wire[f]))
  /\ wire' = [wire EXCEPT ![f] = Tail(@)]
  /\ UNCHANGED <<mission, beats, pending, stopped, flush, late, fails, sweeps, dropped>>

IngestLate(i) ==
  /\ late[i] # <<>>
  /\ Apply(Head(late[i]))
  /\ late' = [late EXCEPT ![i] = Tail(@)]
  /\ UNCHANGED <<mission, beats, pending, stopped, flush, wire, fails, sweeps, dropped>>

\* SnapshotStore.Cleanup: a terminal snapshot past its TTL goes.
Cleanup ==
  /\ sweeps < MaxSweep /\ snapshot = "Terminal"
  /\ sweeps' = sweeps + 1 /\ snapshot' = "none"
  /\ UNCHANGED <<mission, beats, pending, stopped, flush, wire, late, ingested, fails, dropped>>

BusNext ==
  \/ EmitMission \/ EmitBeat \/ Tick \/ Close
  \/ \E f \in Flusher : \/ FlushFull(f) \/ PostDone(f) \/ PostFail(f)
                        \/ Requeue(f) \/ Ingest(f)
  \/ \E i \in DOMAIN late : IngestLate(i)
  \/ Cleanup

BusSpec == BusInit /\ [][BusNext]_busVars

(***************************************************************************)
(* Fairness: a mission that began goes on, as do the goroutines of the     *)
(* worker; the control plane answers,                                      *)
(* the ticker ticks until the bus is stopped.                              *)
(***************************************************************************)
BusFairness ==
  /\ WF_busVars(mission > 0 /\ EmitMission) /\ WF_busVars(Close) /\ WF_busVars(Tick /\ ~stopped)
  /\ \A f \in Flusher : WF_busVars(FlushFull(f) \/ PostDone(f) \/ Requeue(f) \/ Ingest(f))

BusFairSpec == BusSpec /\ BusFairness

(***************************************************************************)
(* Properties                                                              *)
(***************************************************************************)

Filling(f) == IF flush[f].at = "full" THEN 1 ELSE 0

\* What waits on the worker is bounded whatever fails and whoever emits
\* meanwhile: twice the batch size, plus one event of each emitter that is
\* about to flush (Emit, flush).
PendingBounded == Len(pending) <= 2 * MaxBatch + Filling("mission") + Filling("heart")

\* As long as no POST fails, no event is applied twice (flush hands every
\* event to one POST, whoever flushes).
AppliedOnce ==
  fails = 0 => \A i, j \in DOMAIN ingested : ingested[i] = ingested[j] => i = j

\* The worker's queue neither grows without bound nor repeats itself (flush).
BusSound == PendingBounded /\ AppliedOnce

\* The POST of lifecycle.started was applied after that of the terminal
\* event: flush posts outside the lock.
Reordered ==
  \E i, j \in DOMAIN ingested : i < j /\ ingested[i] = Terminal /\ ingested[j] = Started

\* Every event a mission that began emits is applied at last, over POSTs that fail,
\* and the snapshot no longer shows the agent as Running (Requeue, Close's
\* final flush, SnapshotSink).  What a stopped or overfull bus gives up is
\* lost, and a Reordered start brings the snapshot back.
MissionSettles ==
  <>[](\/ mission = 0 \/ dropped
       \/ /\ \A n \in 0 .. MaxDetail + 1 : \E i \in DOMAIN ingested : ingested[i] = Mission(n)
          /\ Reordered \/ snapshot # "Running")

=============================================================================
