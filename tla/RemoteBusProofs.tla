-------------------------- MODULE RemoteBusProofs --------------------------
(***************************************************************************)
(* What crosses between a client, the control plane, a worker and the      *)
(* keyring.                                                                *)
(*                                                                         *)
(* The events: what RemoteBus keeps in memory is bounded, for every batch  *)
(* size and any number of events, heartbeats and failing POSTs, and as     *)
(* long as no POST fails no event is applied twice.                        *)
(*                                                                         *)
(* The feed: a client that watches an agent is shown its events in order   *)
(* and none twice, for any emitters, connections and restarts and any      *)
(* sizes of the ring and of the channel.                                   *)
(*                                                                         *)
(* The credentials: an agent is launched with what the client staged for   *)
(* it, for any requests, profiles, claims, lost answers, expiries and      *)
(* restarts.                                                               *)
(*                                                                         *)
(* The tokens: each was granted to a login that ran here and, while        *)
(* nothing disturbs it, to the identity of the gateway, for any settings   *)
(* and any number of commands, answers, faults and refreshes.              *)
(***************************************************************************)
EXTENDS EventFeed, RemoteBus, Credentials, OAuthLogin, SequenceTheorems, WellFoundedInduction, TLAPS

\* What Cap keeps of a queue is a queue, of at most twice the batch size
\* (flush's combined[len(combined)-2*maxBatchSize:]).
LEMMA CapBounds ==
  ASSUME NEW S, NEW q \in Seq(S)
  PROVE  Cap(q) \in Seq(S) /\ Len(Cap(q)) <= 2 * MaxBatch
<1>1. MaxBatch \in Nat
  BY BusAssumption
<1>2. CASE Len(q) > 2 * MaxBatch
  <2>1. Len(q) - 2 * MaxBatch + 1 \in 1 .. Len(q) + 1
    BY <1>1, <1>2
  <2>2. \A i \in Len(q) - 2 * MaxBatch + 1 .. Len(q) : q[i] \in S
    BY <1>1, <2>1, ElementOfSeq
  <2>3. SubSeq(q, Len(q) - 2 * MaxBatch + 1, Len(q)) \in Seq(S)
    BY <1>1, <1>2, <2>1, <2>2, SubSeqProperties
  <2>4. Len(SubSeq(q, Len(q) - 2 * MaxBatch + 1, Len(q))) <= 2 * MaxBatch
    BY <1>1, <1>2, <2>1, <2>2, SubSeqProperties
  <2>. QED
    BY <1>2, <2>3, <2>4 DEF Cap
<1>3. CASE ~(Len(q) > 2 * MaxBatch)
  BY <1>1, <1>3 DEF Cap
<1>. QED
  BY <1>2, <1>3

\* Every event the mission emits is an event (lifecycle.started, adapter
\* events, the terminal event).
LEMMA MissionEvents ==
  ASSUME NEW n \in Nat, n < Closing
  PROVE  Mission(n) \in BusEvent
  BY BusAssumption DEF Mission, Closing, BusEvent, Started, Terminal, Detail

\* Every heartbeat within the bound is an event (StartHeartbeat).
LEMMA BeatEvents ==
  ASSUME NEW n \in 1 .. MaxBeat
  PROVE  Beat(n) \in BusEvent
  BY DEF BusEvent

\* The states of a flush call: idle, and what setting its place or its
\* batch makes of one (Emit, flush).
LEMMA FlushCalls ==
  /\ Idle \in FlushCall
  /\ "mission" \in Flusher /\ "heart" \in Flusher /\ "ticker" \in Flusher
  /\ \A b \in Seq(BusEvent) : [at |-> "post", batch |-> b] \in FlushCall
  /\ \A c \in FlushCall : /\ [c EXCEPT !.at = "full"] \in FlushCall
                          /\ [c EXCEPT !.at = "failed"] \in FlushCall
                          /\ c.batch \in Seq(BusEvent)
<1>1. <<>> \in Seq(BusEvent)
  BY EmptySeq
<1>2. Idle \in FlushCall
  BY <1>1 DEF Idle, FlushCall
<1>. QED
  BY <1>2 DEF FlushCall, Flusher, Emitters

\* Type correctness: what is queued, in flight, late or applied are events
\* of this mission, and every goroutine is at a place the code has.
THEOREM BusTypeCorrect == BusSpec => []BusTypeOK
<1>. USE BusAssumption
<1>1. BusInit => BusTypeOK
  <2>1. <<>> \in Seq(BusEvent) /\ <<>> \in Seq(Seq(BusEvent))
    BY EmptySeq
  <2>2. Closed \in Nat
    BY DEF Closed
  <2>3. ASSUME BusInit
        PROVE  flush \in [Flusher -> FlushCall] /\ wire \in [Flusher -> Seq(BusEvent)]
    BY <2>1, <2>3, FlushCalls DEF BusInit
  <2>4. ASSUME BusInit
        PROVE  /\ mission \in 0 .. Closed /\ beats \in 0 .. MaxBeat
               /\ fails \in 0 .. MaxFail /\ sweeps \in 0 .. MaxSweep
    BY <2>2, <2>4 DEF BusInit
  <2>5. ASSUME BusInit PROVE stopped \in BOOLEAN /\ dropped \in BOOLEAN
    BY <2>5, Zenon DEF BusInit
  <2>6. ASSUME BusInit
        PROVE  /\ pending \in Seq(BusEvent) /\ ingested \in Seq(BusEvent)
               /\ late \in Seq(Seq(BusEvent))
               /\ snapshot \in {"none", "unknown", "Running", "Terminal"}
    BY <2>1, <2>6 DEF BusInit
  <2>. QED
    BY <2>3, <2>4, <2>5, <2>6, Zenon DEF BusTypeOK
<1>2. BusTypeOK /\ [BusNext]_busVars => BusTypeOK'
  <2>. SUFFICES ASSUME BusTypeOK, [BusNext]_busVars PROVE BusTypeOK'
    OBVIOUS
  <2>. USE DEF BusTypeOK
  <2>0. Closed = Closing + 1 /\ Closing \in Nat
    BY DEF Closed, Closing
  <2>0a. ASSUME NEW f \in Flusher, NEW e \in BusEvent, EmitBy(f, e)
         PROVE  pending' \in Seq(BusEvent) /\ flush' \in [Flusher -> FlushCall]
    <3>1. Append(pending, e) \in Seq(BusEvent)
      BY AppendProperties
    <3>2. [flush EXCEPT ![f].at = "full"] \in [Flusher -> FlushCall]
      BY FlushCalls
    <3>3. pending' = pending \/ pending' = Append(pending, e)
      BY <2>0a DEF EmitBy
    <3>4. flush' = flush \/ flush' = [flush EXCEPT ![f].at = "full"]
      BY <2>0a DEF EmitBy
    <3>. QED
      BY <3>1, <3>2, <3>3, <3>4
  <2>1. CASE EmitMission
    <3>1. Mission(mission) \in BusEvent
      BY <2>0, <2>1, MissionEvents DEF EmitMission
    <3>2. pending' \in Seq(BusEvent) /\ flush' \in [Flusher -> FlushCall]
      BY <2>1, <2>0a, <3>1, FlushCalls DEF EmitMission, Emitters
    <3>3. mission' \in 0 .. Closed
      BY <2>0, <2>1 DEF EmitMission
    <3>. QED
      BY <2>1, <3>2, <3>3 DEF EmitMission
  <2>2. CASE EmitBeat
    <3>0. beats + 1 \in 1 .. MaxBeat
      BY <2>2 DEF EmitBeat
    <3>1. Beat(beats + 1) \in BusEvent
      BY <3>0, BeatEvents
    <3>2. pending' \in Seq(BusEvent) /\ flush' \in [Flusher -> FlushCall]
      BY <2>2, <2>0a, <3>1, FlushCalls DEF EmitBeat, Emitters
    <3>3. beats' \in 0 .. MaxBeat
      BY <2>2 DEF EmitBeat
    <3>. QED
      BY <2>2, <3>2, <3>3 DEF EmitBeat
  <2>3. ASSUME NEW f \in Flusher, TakeBatch(f)
        PROVE  /\ pending' \in Seq(BusEvent)
               /\ wire' \in [Flusher -> Seq(BusEvent)]
               /\ flush' \in [Flusher -> FlushCall]
    BY <2>3, FlushCalls, EmptySeq DEF TakeBatch
  <2>4. CASE Tick
    BY <2>3, <2>4, FlushCalls DEF Tick
  <2>5. CASE Close
    <3>1. [flush EXCEPT !["mission"].at = "full"] \in [Flusher -> FlushCall]
      BY FlushCalls
    <3>. QED
      BY <2>0, <2>5, <3>1 DEF Close
  <2>6. ASSUME NEW f \in Flusher, FlushFull(f) PROVE BusTypeOK'
    BY <2>3, <2>6 DEF FlushFull
  <2>7. ASSUME NEW f \in Flusher, PostDone(f) PROVE BusTypeOK'
    BY <2>7, FlushCalls DEF PostDone
  <2>8. ASSUME NEW f \in Flusher, PostFail(f) PROVE BusTypeOK'
    <3>1. [flush EXCEPT ![f].at = "failed"] \in [Flusher -> FlushCall]
      BY FlushCalls
    <3>2. late' \in Seq(Seq(BusEvent))
      <4>1. late' = late \/ late' = Append(late, wire[f])
        BY <2>8 DEF PostFail
      <4>2. wire[f] \in Seq(BusEvent)
        OBVIOUS
      <4>3. Append(late, wire[f]) \in Seq(Seq(BusEvent))
        BY <4>2, AppendProperties
      <4>. QED
        BY <4>1, <4>3
    <3>3. wire' \in [Flusher -> Seq(BusEvent)]
      BY <2>8, EmptySeq DEF PostFail
    <3>4. fails' \in 0 .. MaxFail
      BY <2>8 DEF PostFail
    <3>. QED
      BY <2>8, <3>1, <3>2, <3>3, <3>4 DEF PostFail
  <2>9. ASSUME NEW f \in Flusher, Requeue(f) PROVE BusTypeOK'
    <3>1. flush[f].batch \o pending \in Seq(BusEvent)
      BY ConcatProperties, FlushCalls
    <3>2. Cap(flush[f].batch \o pending) \in Seq(BusEvent)
      BY <3>1, CapBounds
    <3>3. dropped' \in BOOLEAN
      BY <2>9, Zenon DEF Requeue
    <3>. QED
      BY <2>9, <3>2, <3>3, FlushCalls DEF Requeue
  <2>10. ASSUME NEW e \in BusEvent, Apply(e)
         PROVE  ingested' \in Seq(BusEvent) /\ snapshot' \in {"none", "unknown", "Running", "Terminal"}
    BY <2>10 DEF Apply, Project
  <2>11. ASSUME NEW f \in Flusher, Ingest(f) PROVE BusTypeOK'
    <3>1. Head(wire[f]) \in BusEvent /\ Tail(wire[f]) \in Seq(BusEvent)
      BY <2>11, HeadTailProperties DEF Ingest
    <3>. QED
      BY <2>10, <2>11, <3>1 DEF Ingest
  <2>12. ASSUME NEW i \in DOMAIN late, IngestLate(i) PROVE BusTypeOK'
    <3>1. late[i] \in Seq(BusEvent) /\ late[i] # <<>>
      BY <2>12 DEF IngestLate
    <3>2. Head(late[i]) \in BusEvent /\ Tail(late[i]) \in Seq(BusEvent)
      BY <3>1, HeadTailProperties
    <3>3. [late EXCEPT ![i] = Tail(late[i])] \in Seq(Seq(BusEvent))
      <4>1. late \in Seq(Seq(BusEvent)) /\ i \in 1 .. Len(late)
        BY DEF BusTypeOK
      <4>. HIDE DEF BusTypeOK
      <4>. QED
        BY <3>2, <4>1, ExceptSeq
    <3>. QED
      BY <2>10, <2>12, <3>2, <3>3 DEF IngestLate
  <2>13. CASE Cleanup
    BY <2>13 DEF Cleanup
  <2>14. CASE UNCHANGED busVars
    BY <2>14 DEF busVars
  <2>. QED
    BY <2>1, <2>2, <2>4, <2>5, <2>6, <2>7, <2>8, <2>9, <2>11, <2>12, <2>13, <2>14 DEF BusNext
<1>. QED
  BY <1>1, <1>2, PTL DEF BusSpec

\* The worker's queue stays within twice the batch size plus the events of
\* the emitters about to flush, whatever the POSTs do (RemoteBus.flush).
THEOREM QueueIsBounded == BusSpec => []PendingBounded
<1>. USE BusAssumption
<1>1. BusInit => PendingBounded
  BY DEF BusInit, PendingBounded, Filling, Flusher, Emitters, Idle
<1>2. BusTypeOK /\ BusTypeOK' /\ PendingBounded /\ [BusNext]_busVars => PendingBounded'
  <2>. SUFFICES ASSUME BusTypeOK, BusTypeOK', PendingBounded, [BusNext]_busVars
                PROVE  PendingBounded'
    OBVIOUS
  <2>0. /\ Len(pending) \in Nat /\ Len(pending') \in Nat
        /\ \A f \in Flusher : Filling(f) \in {0, 1} /\ Filling(f)' \in {0, 1}
        /\ "mission" \in Flusher /\ "heart" \in Flusher /\ "ticker" \in Flusher
    BY DEF BusTypeOK, Filling, Flusher, Emitters
  <2>1. ASSUME NEW f \in Emitters, NEW e, EmitBy(f, e) PROVE PendingBounded'
    <3>1. CASE stopped
      BY <2>1, <3>1 DEF EmitBy, PendingBounded, Filling
    <3>2. CASE ~stopped
      <4>1. Len(pending') = Len(pending) + 1
        BY <2>1, <3>2 DEF EmitBy, BusTypeOK
      <4>2. CASE Len(pending) + 1 >= MaxBatch
        <5>1. flush[f].at = "idle" /\ flush' = [flush EXCEPT ![f].at = "full"]
          BY <2>1, <3>2, <4>2 DEF EmitBy
        <5>2. /\ flush'[f].at = "full"
              /\ \A g \in Flusher \ {f} : flush'[g] = flush[g]
          BY <5>1 DEF BusTypeOK, FlushCall, Emitters, Flusher
        <5>3. /\ Filling(f)' = Filling(f) + 1
              /\ \A g \in Flusher \ {f} : Filling(g)' = Filling(g)
          BY <5>1, <5>2 DEF Filling
        <5>4. f = "mission" \/ f = "heart"
          BY DEF Emitters
        <5>. QED
          BY <2>0, <4>1, <5>3, <5>4 DEF PendingBounded
      <4>3. CASE ~(Len(pending) + 1 >= MaxBatch)
        BY <2>0, <4>1, <4>3 DEF PendingBounded
      <4>. QED
        BY <4>2, <4>3
    <3>. QED
      BY <3>1, <3>2 DEF BusTypeOK
  <2>2. ASSUME Len(pending') <= 2 * MaxBatch PROVE PendingBounded'
    BY <2>0, <2>2 DEF PendingBounded
  <2>3. ASSUME NEW f \in Flusher, TakeBatch(f) PROVE PendingBounded'
    BY <2>2, <2>3 DEF TakeBatch
  <2>4. CASE EmitMission
    BY <2>1, <2>4 DEF EmitMission, Emitters
  <2>5. CASE EmitBeat
    BY <2>1, <2>5 DEF EmitBeat, Emitters
  <2>6. CASE Tick
    BY <2>0, <2>3, <2>6 DEF Tick
  <2>7. CASE Close
    <3>1. /\ flush["mission"].at = "idle" /\ pending' = pending
          /\ flush' = [flush EXCEPT !["mission"].at = "full"]
      BY <2>7 DEF Close
    <3>2. /\ flush'["mission"].at = "full"
          /\ flush'["heart"] = flush["heart"] /\ flush'["ticker"] = flush["ticker"]
      BY <3>1 DEF BusTypeOK, FlushCall, Flusher, Emitters
    <3>3. /\ Filling("mission")' = Filling("mission") + 1
          /\ Filling("heart")' = Filling("heart") /\ Filling("ticker")' = Filling("ticker")
      BY <3>1, <3>2 DEF Filling
    <3>. QED
      BY <2>0, <3>1, <3>3 DEF PendingBounded
  <2>8. ASSUME NEW f \in Flusher, FlushFull(f) PROVE PendingBounded'
    BY <2>3, <2>8 DEF FlushFull
  <2>9. ASSUME NEW f \in Flusher, PostDone(f) \/ PostFail(f) PROVE PendingBounded'
    <3>1. /\ flush[f].at = "post" /\ flush'[f].at \in {"idle", "failed"}
          /\ \A g \in Flusher \ {f} : flush'[g] = flush[g]
      <4>1. flush[f] \in FlushCall /\ flush \in [Flusher -> FlushCall]
        BY DEF BusTypeOK
      <4>2. CASE PostDone(f)
        BY <4>1, <4>2 DEF PostDone, Idle
      <4>3. CASE PostFail(f)
        BY <4>1, <4>3 DEF PostFail, FlushCall
      <4>. QED
        BY <2>9, <4>2, <4>3
    <3>2. \A g \in Flusher : Filling(g)' = Filling(g)
      BY <3>1 DEF Filling
    <3>3. pending' = pending
      BY <2>9 DEF PostDone, PostFail
    <3>. QED
      BY <2>0, <3>2, <3>3 DEF PendingBounded
  <2>10. ASSUME NEW f \in Flusher, Requeue(f) PROVE PendingBounded'
    <3>1. flush[f].batch \o pending \in Seq(BusEvent)
      BY ConcatProperties, FlushCalls DEF BusTypeOK
    <3>2. Len(Cap(flush[f].batch \o pending)) <= 2 * MaxBatch
      BY <3>1, CapBounds
    <3>3. CASE stopped
      BY <2>0, <2>10, <3>3 DEF Requeue, PendingBounded, Filling, BusTypeOK, Idle
    <3>4. CASE ~stopped
      BY <2>2, <2>10, <3>2, <3>4 DEF Requeue
    <3>. QED
      BY <3>3, <3>4 DEF BusTypeOK
  <2>11. CASE UNCHANGED <<pending, flush>>
    BY <2>11 DEF PendingBounded, Filling
  <2>. QED
    BY <2>4, <2>5, <2>6, <2>7, <2>8, <2>9, <2>10, <2>11
       DEF BusNext, Ingest, IngestLate, Cleanup, busVars
<1>. QED
  BY <1>1, <1>2, BusTypeCorrect, PTL DEF BusSpec

-----------------------------------------------------------------------------

\* The events of a queue, and a queue without repetition.
Elems(s)    == {s[i] : i \in DOMAIN s}
Distinct(s) == \A i, j \in DOMAIN s : s[i] = s[j] => i = j

\* What the mission and the heartbeat goroutine have emitted so far.
Emitted == {Mission(n) : n \in 0 .. mission - 1} \union {Beat(n) : n \in 1 .. beats}

\* Where an event may be: pending, in the POST of one flusher, or applied.
\* No event is in two of these places, nor twice in one.
InOnePlace ==
  /\ Distinct(pending) /\ Distinct(ingested)
  /\ Elems(pending) \intersect Elems(ingested) = {}
  /\ \A f \in Flusher : /\ Distinct(wire[f])
                        /\ Elems(wire[f]) \intersect Elems(pending) = {}
                        /\ Elems(wire[f]) \intersect Elems(ingested) = {}
                        /\ \A g \in Flusher \ {f} : Elems(wire[f]) \intersect Elems(wire[g]) = {}

OnlyEmitted ==
  /\ Elems(pending) \subseteq Emitted
  /\ Elems(ingested) \subseteq Emitted
  /\ \A f \in Flusher : Elems(wire[f]) \subseteq Emitted

\* The inductive invariant behind AppliedOnce: without a failed POST nothing
\* is late or about to be put back.
NoFailure == late = <<>> /\ \A f \in Flusher : flush[f].at # "failed"

InTransitOnce == fails = 0 => NoFailure /\ InOnePlace /\ OnlyEmitted

\* Emit's append of an event that is not in the queue.
LEMMA AppendDistinct ==
  ASSUME NEW S, NEW s \in Seq(S), NEW e \in S
  PROVE  /\ Elems(Append(s, e)) = Elems(s) \union {e}
         /\ Distinct(s) /\ e \notin Elems(s) => Distinct(Append(s, e))
<1>1. /\ DOMAIN s = 1 .. Len(s) /\ Len(s) \in Nat
      /\ DOMAIN Append(s, e) = 1 .. Len(s) + 1
      /\ \A i \in 1 .. Len(s) : Append(s, e)[i] = s[i]
      /\ Append(s, e)[Len(s) + 1] = e
  BY AppendProperties, LenProperties
<1>2. Elems(Append(s, e)) = Elems(s) \union {e}
  <2>1. ASSUME NEW x \in Elems(Append(s, e)) PROVE x \in Elems(s) \union {e}
    BY <1>1, <2>1 DEF Elems
  <2>2. ASSUME NEW x \in Elems(s) PROVE x \in Elems(Append(s, e))
    BY <1>1, <2>2 DEF Elems
  <2>3. e \in Elems(Append(s, e))
    BY <1>1 DEF Elems
  <2>. QED
    BY <2>1, <2>2, <2>3
<1>3. ASSUME Distinct(s), e \notin Elems(s) PROVE Distinct(Append(s, e))
  <2>. SUFFICES ASSUME NEW i \in 1 .. Len(s) + 1, NEW j \in 1 .. Len(s) + 1,
                       Append(s, e)[i] = Append(s, e)[j]
                PROVE  i = j
    BY <1>1 DEF Distinct
  <2>1. \A k \in 1 .. Len(s) : s[k] # e
    BY <1>1, <1>3 DEF Elems
  <2>2. CASE i = Len(s) + 1 \/ j = Len(s) + 1
    BY <1>1, <2>1, <2>2
  <2>3. CASE i \in 1 .. Len(s) /\ j \in 1 .. Len(s)
    BY <1>1, <1>3, <2>3 DEF Distinct
  <2>. QED
    BY <1>1, <2>2, <2>3
<1>. QED
  BY <1>2, <1>3

\* IngestEvents takes the first event of a POST off it.
LEMMA HeadLeavesTail ==
  ASSUME NEW S, NEW s \in Seq(S), s # <<>>
  PROVE  /\ Head(s) \in Elems(s) /\ Elems(Tail(s)) \subseteq Elems(s)
         /\ Distinct(s) => Distinct(Tail(s)) /\ Head(s) \notin Elems(Tail(s))
<1>1. /\ DOMAIN s = 1 .. Len(s) /\ Len(s) \in Nat \ {0}
      /\ Head(s) = s[1]
      /\ DOMAIN Tail(s) = 1 .. Len(s) - 1
      /\ \A i \in 1 .. Len(s) - 1 : Tail(s)[i] = s[i + 1]
  BY HeadTailProperties, LenProperties, EmptySeq
<1>2. Head(s) \in Elems(s)
  BY <1>1 DEF Elems
<1>3. ASSUME NEW x \in Elems(Tail(s))
      PROVE  \E i \in 2 .. Len(s) : x = s[i]
  <2>1. PICK i \in 1 .. Len(s) - 1 : x = Tail(s)[i]
    BY <1>1, <1>3 DEF Elems
  <2>. QED
    BY <1>1, <2>1
<1>4. Elems(Tail(s)) \subseteq Elems(s)
  BY <1>1, <1>3 DEF Elems
<1>5. ASSUME Distinct(s) PROVE Distinct(Tail(s)) /\ Head(s) \notin Elems(Tail(s))
  <2>1. Head(s) \notin Elems(Tail(s))
    BY <1>1, <1>3, <1>5 DEF Distinct
  <2>2. ASSUME NEW i \in 1 .. Len(s) - 1, NEW j \in 1 .. Len(s) - 1, Tail(s)[i] = Tail(s)[j]
        PROVE  i = j
    <3>1. s[i + 1] = s[j + 1] /\ i + 1 \in DOMAIN s /\ j + 1 \in DOMAIN s
      BY <1>1, <2>2
    <3>2. i + 1 = j + 1
      BY <1>5, <3>1 DEF Distinct
    <3>. QED
      BY <3>2
  <2>3. Distinct(Tail(s))
    BY <1>1, <2>2 DEF Distinct
  <2>. QED
    BY <2>1, <2>3
<1>. QED
  BY <1>2, <1>4, <1>5

\* What is emitted next was not emitted before: the mission's events come in
\* order, heartbeats are counted.
LEMMA NextIsFresh ==
  ASSUME BusTypeOK
  PROVE  /\ mission < Closing => Mission(mission) \notin Emitted
         /\ Beat(beats + 1) \notin Emitted
<1>1. mission \in Nat /\ beats \in Nat /\ MaxDetail \in Nat /\ Closing = MaxDetail + 2
  BY BusAssumption DEF BusTypeOK, Closing, Closed
<1>2. \A n \in 0 .. Closing - 1, m \in 0 .. Closing - 1 : Mission(n) = Mission(m) => n = m
  BY <1>1 DEF Mission, Started, Terminal, Detail
<1>3. \A n \in Nat, m \in Nat : Mission(n) # Beat(m)
  BY DEF Mission, Started, Terminal, Detail, Beat
<1>4. \A n \in Nat, m \in Nat : Beat(n) = Beat(m) => n = m
  BY DEF Beat
<1>5. ASSUME mission < Closing PROVE Mission(mission) \notin Emitted
  BY <1>1, <1>2, <1>3, <1>5 DEF Emitted
<1>6. \A n \in 0 .. mission - 1 : Mission(n) # Beat(beats + 1)
  BY <1>1, <1>3
<1>7. \A n \in 1 .. beats : Beat(n) # Beat(beats + 1)
  BY <1>1, <1>4
<1>. QED
  BY <1>5, <1>6, <1>7 DEF Emitted

\* An emitter appends an event that was never emitted, so it is in no other
\* place (Emit).
LEMMA EmitKeepsOnce ==
  ASSUME BusTypeOK, NEW f \in Flusher, NEW e \in BusEvent, EmitBy(f, e),
         NoFailure, InOnePlace, OnlyEmitted, e \notin Emitted,
         Emitted' = Emitted \union {e}, UNCHANGED <<wire, late, ingested>>
  PROVE  (NoFailure /\ InOnePlace /\ OnlyEmitted)'
<1>. USE DEF BusTypeOK
<1>1. pending' = pending \/ pending' = Append(pending, e)
  BY DEF EmitBy
<1>2. /\ Elems(pending) \subseteq Emitted /\ Elems(ingested) \subseteq Emitted
      /\ \A g \in Flusher : Elems(wire[g]) \subseteq Emitted
  BY DEF OnlyEmitted
<1>3. Distinct(pending') /\ Elems(pending') \subseteq Elems(pending) \union {e}
  <2>1. CASE pending' = pending
    BY <2>1 DEF InOnePlace
  <2>2. CASE pending' = Append(pending, e)
    BY <1>2, <2>2, AppendDistinct DEF InOnePlace
  <2>. QED
    BY <1>1, <2>1, <2>2
<1>4. NoFailure'
  <2>1. flush' = flush \/ flush' = [flush EXCEPT ![f].at = "full"]
    BY DEF EmitBy
  <2>2. \A g \in Flusher : flush'[g].at # "failed"
    BY <2>1 DEF NoFailure, FlushCall
  <2>. QED
    BY <2>2 DEF NoFailure
<1>5. InOnePlace'
  <2>1. Elems(pending') \intersect Elems(ingested) = {}
    BY <1>2, <1>3 DEF InOnePlace
  <2>2. \A g \in Flusher : Elems(wire[g]) \intersect Elems(pending') = {}
    BY <1>2, <1>3 DEF InOnePlace
  <2>. QED
    BY <1>3, <2>1, <2>2 DEF InOnePlace
<1>6. OnlyEmitted'
  BY <1>2, <1>3 DEF OnlyEmitted
<1>. QED
  BY <1>4, <1>5, <1>6

\* flush hands all that is pending to one POST and leaves nothing behind.
LEMMA BatchKeepsOnce ==
  ASSUME BusTypeOK, NEW f \in Flusher, TakeBatch(f),
         NoFailure, InOnePlace, OnlyEmitted,
         UNCHANGED <<mission, beats, late, ingested>>
  PROVE  (NoFailure /\ InOnePlace /\ OnlyEmitted)'
<1>. USE DEF BusTypeOK
<1>1. NoFailure'
  <2>1. flush' \in {[flush EXCEPT ![f] = Idle],
                    [flush EXCEPT ![f] = [at |-> "post", batch |-> pending]]}
    BY DEF TakeBatch
  <2>2. flush'[f].at # "failed" /\ \A g \in Flusher \ {f} : flush'[g] = flush[g]
    BY <2>1 DEF Idle
  <2>. QED
    BY <2>2 DEF NoFailure
<1>2. Emitted' = Emitted
  BY DEF Emitted
<1>3. CASE pending = <<>>
  BY <1>1, <1>2, <1>3 DEF TakeBatch, InOnePlace, OnlyEmitted
<1>4. CASE pending # <<>>
  <2>1. /\ pending' = <<>>
        /\ wire'[f] = pending /\ \A g \in Flusher \ {f} : wire'[g] = wire[g]
    BY <1>4 DEF TakeBatch
  <2>2. Distinct(<<>>) /\ Elems(<<>>) = {}
    BY DEF Distinct, Elems
  <2>3. InOnePlace'
    <3>1. \A g \in Flusher : Distinct(wire'[g])
      BY <2>1 DEF InOnePlace
    <3>2. \A g \in Flusher : Elems(wire'[g]) \intersect Elems(ingested) = {}
      BY <2>1 DEF InOnePlace
    <3>3. \A g \in Flusher : \A h \in Flusher \ {g} : Elems(wire'[g]) \intersect Elems(wire'[h]) = {}
      <4>. SUFFICES ASSUME NEW g \in Flusher, NEW h \in Flusher \ {g}
                    PROVE  Elems(wire'[g]) \intersect Elems(wire'[h]) = {}
        OBVIOUS
      <4>1. CASE g = f
        BY <2>1, <4>1 DEF InOnePlace
      <4>2. CASE h = f
        BY <2>1, <4>2 DEF InOnePlace
      <4>3. CASE g # f /\ h # f
        BY <2>1, <4>3 DEF InOnePlace
      <4>. QED
        BY <4>1, <4>2, <4>3
    <3>4. ingested' = ingested /\ Distinct(ingested)
      BY DEF InOnePlace
    <3>. QED
      BY <2>1, <2>2, <3>1, <3>2, <3>3, <3>4 DEF InOnePlace
  <2>4. OnlyEmitted'
    BY <1>2, <2>1, <2>2 DEF OnlyEmitted
  <2>. QED
    BY <1>1, <2>3, <2>4
<1>. QED
  BY <1>3, <1>4

\* IngestEvents moves an event from its POST to what is applied.
LEMMA IngestKeepsOnce ==
  ASSUME BusTypeOK, NEW f \in Flusher, Ingest(f),
         NoFailure, InOnePlace, OnlyEmitted
  PROVE  (NoFailure /\ InOnePlace /\ OnlyEmitted)'
<1>. USE DEF BusTypeOK
<1>. DEFINE e == Head(wire[f])
<1>1. /\ wire[f] \in Seq(BusEvent) /\ wire[f] # <<>> /\ e \in BusEvent
      /\ ingested' = Append(ingested, e) /\ pending' = pending
      /\ wire'[f] = Tail(wire[f]) /\ \A g \in Flusher \ {f} : wire'[g] = wire[g]
  BY HeadTailProperties DEF Ingest, Apply
<1>2. /\ e \in Elems(wire[f]) /\ Elems(wire'[f]) \subseteq Elems(wire[f])
      /\ Distinct(wire'[f]) /\ e \notin Elems(wire'[f])
  BY <1>1, HeadLeavesTail DEF InOnePlace
<1>3. /\ e \notin Elems(ingested) /\ e \notin Elems(pending)
      /\ \A g \in Flusher \ {f} : e \notin Elems(wire[g])
  BY <1>2 DEF InOnePlace
<1>4. Distinct(ingested') /\ Elems(ingested') = Elems(ingested) \union {e}
  BY <1>1, <1>3, AppendDistinct DEF InOnePlace
<1>5. NoFailure'
  BY DEF Ingest, NoFailure
<1>6. Emitted' = Emitted
  BY DEF Ingest, Emitted
<1>7. InOnePlace'
  <2>1. Distinct(pending') /\ Elems(pending') \intersect Elems(ingested') = {}
    BY <1>1, <1>3, <1>4 DEF InOnePlace
  <2>2. \A g \in Flusher : /\ Distinct(wire'[g])
                           /\ Elems(wire'[g]) \subseteq Elems(wire[g])
                           /\ e \notin Elems(wire'[g])
    BY <1>1, <1>2, <1>3 DEF InOnePlace
  <2>3. ASSUME NEW g \in Flusher
        PROVE  /\ Elems(wire'[g]) \intersect Elems(pending') = {}
               /\ Elems(wire'[g]) \intersect Elems(ingested') = {}
    <3>1. /\ Elems(wire[g]) \intersect Elems(pending) = {}
          /\ Elems(wire[g]) \intersect Elems(ingested) = {}
      BY DEF InOnePlace
    <3>2. Elems(wire'[g]) \subseteq Elems(wire[g]) /\ e \notin Elems(wire'[g])
      BY <2>2
    <3>3. pending' = pending /\ Elems(ingested') = Elems(ingested) \union {e}
      BY <1>1, <1>4
    <3>. QED
      BY <3>1, <3>2, <3>3
  <2>4. \A g \in Flusher : \A h \in Flusher \ {g} : Elems(wire'[g]) \intersect Elems(wire'[h]) = {}
    BY <2>2 DEF InOnePlace
  <2>. QED
    BY <1>4, <2>1, <2>2, <2>3, <2>4 DEF InOnePlace
<1>8. OnlyEmitted'
  BY <1>1, <1>2, <1>4, <1>6 DEF OnlyEmitted
<1>. QED
  BY <1>5, <1>7, <1>8

\* Until a POST fails an event is in one place: pending, in one POST, or
\* applied (RemoteBus.flush).
THEOREM InTransitOnceAlways == BusSpec => []InTransitOnce
<1>. USE BusAssumption
<1>1. BusInit => InTransitOnce
  <2>. SUFFICES ASSUME BusInit PROVE NoFailure /\ InOnePlace /\ OnlyEmitted
    BY DEF InTransitOnce
  <2>1. Distinct(<<>>) /\ Elems(<<>>) = {}
    BY DEF Distinct, Elems
  <2>. QED
    BY <2>1 DEF BusInit, NoFailure, InOnePlace, OnlyEmitted, Idle
<1>2. BusTypeOK /\ InTransitOnce /\ [BusNext]_busVars => InTransitOnce'
  <2>. SUFFICES ASSUME BusTypeOK, InTransitOnce, [BusNext]_busVars, fails' = 0
                PROVE  (NoFailure /\ InOnePlace /\ OnlyEmitted)'
    BY DEF InTransitOnce
  <2>0. /\ fails \in Nat /\ mission \in Nat /\ beats \in Nat
        /\ "mission" \in Flusher /\ "heart" \in Flusher /\ "ticker" \in Flusher
    BY FlushCalls DEF BusTypeOK, Closed
  <2>1. ASSUME NEW f \in Flusher, PostFail(f) PROVE FALSE
    BY <2>0, <2>1 DEF PostFail
  <2>2. ASSUME fails = 0 PROVE NoFailure /\ InOnePlace /\ OnlyEmitted
    BY <2>2 DEF InTransitOnce
  <2>3. CASE EmitMission
    <3>1. /\ EmitBy("mission", Mission(mission)) /\ mission' = mission + 1
          /\ beats' = beats /\ fails = 0 /\ mission < Closing
          /\ UNCHANGED <<wire, late, ingested>>
      BY <2>3 DEF EmitMission
    <3>2. Emitted' = Emitted \union {Mission(mission)}
      <4>1. 0 .. mission' - 1 = (0 .. mission - 1) \union {mission}
        BY <2>0, <3>1
      <4>. QED
        BY <3>1, <4>1 DEF Emitted
    <3>3. Mission(mission) \in BusEvent /\ Mission(mission) \notin Emitted
      BY <2>0, <3>1, MissionEvents, NextIsFresh
    <3>. QED
      BY <2>0, <2>2, <3>1, <3>2, <3>3, EmitKeepsOnce
  <2>4. CASE EmitBeat
    <3>1. /\ EmitBy("heart", Beat(beats + 1)) /\ beats' = beats + 1 /\ beats < MaxBeat
          /\ mission' = mission /\ fails = 0
          /\ UNCHANGED <<wire, late, ingested>>
      BY <2>4 DEF EmitBeat
    <3>2. Emitted' = Emitted \union {Beat(beats + 1)}
      <4>1. 1 .. beats' = (1 .. beats) \union {beats + 1}
        BY <2>0, <3>1
      <4>. QED
        BY <3>1, <4>1 DEF Emitted
    <3>3. Beat(beats + 1) \in BusEvent /\ Beat(beats + 1) \notin Emitted
      BY <2>0, <3>1, NextIsFresh DEF BusEvent
    <3>. QED
      BY <2>0, <2>2, <3>1, <3>2, <3>3, EmitKeepsOnce
  <2>5. CASE Tick
    <3>1. TakeBatch("ticker") /\ fails = 0 /\ UNCHANGED <<mission, beats, late, ingested>>
      BY <2>5 DEF Tick
    <3>. QED
      BY <2>0, <2>2, <3>1, BatchKeepsOnce
  <2>6. ASSUME NEW f \in Flusher, FlushFull(f)
        PROVE  (NoFailure /\ InOnePlace /\ OnlyEmitted)'
    <3>1. TakeBatch(f) /\ fails = 0 /\ UNCHANGED <<mission, beats, late, ingested>>
      BY <2>6 DEF FlushFull
    <3>. QED
      BY <2>2, <3>1, BatchKeepsOnce
  <2>7. ASSUME NEW f \in Flusher, Ingest(f)
        PROVE  (NoFailure /\ InOnePlace /\ OnlyEmitted)'
    <3>1. fails = 0
      BY <2>7 DEF Ingest
    <3>. QED
      BY <2>2, <2>7, <3>1, IngestKeepsOnce
  <2>8. ASSUME NEW f \in Flusher, Requeue(f) PROVE FALSE
    BY <2>2, <2>8 DEF Requeue, NoFailure
  <2>9. ASSUME NEW i \in DOMAIN late, IngestLate(i) PROVE FALSE
    BY <2>2, <2>9 DEF IngestLate, NoFailure
  <2>10. CASE Close
    <3>1. /\ flush' = [flush EXCEPT !["mission"].at = "full"] /\ fails = 0
          /\ mission' = mission + 1 /\ mission = Closing
          /\ UNCHANGED <<beats, pending, wire, late, ingested>>
      BY <2>10 DEF Close, Closed, Closing
    <3>2. NoFailure'
      BY <2>2, <3>1 DEF NoFailure, BusTypeOK, FlushCall
    <3>3. Emitted \subseteq Emitted'
      BY <2>0, <3>1 DEF Emitted
    <3>4. InOnePlace'
      BY <2>2, <3>1 DEF InOnePlace
    <3>5. OnlyEmitted'
      BY <2>2, <3>1, <3>3 DEF OnlyEmitted
    <3>. QED
      BY <3>2, <3>4, <3>5
  <2>11. ASSUME NEW f \in Flusher, PostDone(f)
         PROVE  (NoFailure /\ InOnePlace /\ OnlyEmitted)'
    <3>1. /\ flush' = [flush EXCEPT ![f] = Idle] /\ fails = 0
          /\ UNCHANGED <<mission, beats, pending, wire, late, ingested>>
      BY <2>11 DEF PostDone
    <3>2. NoFailure'
      BY <2>2, <3>1 DEF NoFailure, BusTypeOK, Idle
    <3>. QED
      BY <2>2, <3>1, <3>2 DEF InOnePlace, OnlyEmitted, Emitted
  <2>12. CASE Cleanup \/ UNCHANGED busVars
    <3>1. fails = 0 /\ UNCHANGED <<mission, beats, pending, flush, wire, late, ingested>>
      BY <2>12 DEF Cleanup, busVars
    <3>. QED
      BY <2>2, <3>1 DEF NoFailure, InOnePlace, OnlyEmitted, Emitted
  <2>. QED
    BY <2>1, <2>3, <2>4, <2>5, <2>6, <2>7, <2>8, <2>9, <2>10, <2>11, <2>12 DEF BusNext
<1>. QED
  BY <1>1, <1>2, BusTypeCorrect, PTL DEF BusSpec

\* The worker's queue is bounded, and no event is applied twice as long as
\* no POST fails (RemoteBus.flush, IngestEvents).
THEOREM BusIsSound == BusSpec => []BusSound
<1>1. InTransitOnce => AppliedOnce
  BY DEF InTransitOnce, InOnePlace, Distinct, AppliedOnce
<1>. QED
  BY <1>1, QueueIsBounded, InTransitOnceAlways, PTL DEF BusSound

(***************************************************************************)
(* The credentials of queued agents.                                       *)
(***************************************************************************)

CredData == {NoData} \cup Request \X {"client", "worker"}
Phases == {"prepare_now", "unavailable", "runtime_only"}
Plan == [profile : Profiles, data : [Origin -> CredData], env : SUBSET EnvName,
         phase : UNION {[D -> Phases] : D \in SUBSET Origin}]
Tokens == {NoData} \cup {BearerToken(plan) : plan \in Plan}
Outputs == [data : [Origin -> CredData], token : Tokens, files : [{"token", "key"} -> Origin \cup {""}]]
Busy == {"stage", "submit", "queued", "fetch", "execute", "launched"}
Spawning == [at : Busy \cup {"idle", "failed", "rejected", "direct"}, plan : Plan \cup {<<>>},
             todo : SUBSET Origin, refs : SUBSET Origin, unstaged : SUBSET Origin, out : Outputs, attempt : Nat]

\* The sources the client runs and whose results have to cross.
Crossing(p) == {s \in DOMAIN p.origins : p.origins[s].type = "command_output" /\ p.origins[s].scope # "agent_runtime"}

\* What the client yielded is referred to, or its staging failed.
ClientsPart(r, q) == q.at \in Busy =>
    /\ q.plan \in Plan
    /\ q.refs \cup q.unstaged \subseteq Crossing(q.plan.profile)
    /\ \A s \in Crossing(q.plan.profile) : q.plan.profile.origins[s].required =>
         s \in q.refs \cup q.unstaged \cup (IF q.at = "stage" THEN q.todo ELSE {})

AtStage(r, q) == q.at = "stage" =>
    q.todo \subseteq Crossing(q.plan.profile) /\ \A s \in q.todo : q.plan.data[s] = Made(r, "client")
Waiting(q) == q.at \in {"submit", "queued"} => q.todo = {}

\* A result in the worker's plan is the client's; what is not there is still
\* to fetch.
WorkersPart(r, q) == q.at \in {"fetch", "execute"} =>
    /\ DOMAIN q.plan.phase = DOMAIN q.plan.profile.origins
    /\ \A s \in DOMAIN q.plan.profile.origins :
         q.plan.profile.origins[s].scope = "any" => q.plan.phase[s] = "prepare_now"
    /\ \A s \in Origin : q.plan.data[s] \in {NoData, Made(r, "client")}
    /\ \A s \in q.refs : s \in q.todo \/ q.plan.data[s] = Made(r, "client")
    /\ q.at = "execute" => q.todo = {}

\* What an agent is launched with.
Arrived(r, q) == q.at = "launched" =>
    LET made == q.out
        p == q.plan.profile
    IN /\ \A s \in q.refs : made.data[s] = Made(r, "client")
       /\ \A s \in DOMAIN p.origins :
            /\ made.data[s] \in {NoData, Made(r, "client"), Made(r, "worker")}
            /\ p.origins[s].type = "command_output" /\ p.origins[s].required /\ made.data[s] = NoData =>
                 \/ p.origins[s].scope = "agent_runtime"
                 \/ p.origins[s].scope = "host_edge" /\ s \in q.unstaged
       /\ p.binding.type = "bearer_env" /\ p.binding.env # "" /\ p.binding.origin \in q.refs =>
            made.token = Made(r, "client")
       /\ p.binding.type = "token_file" /\ p.binding.origin \in q.refs
            /\ p.origins[p.binding.origin].path # "" => made.files[p.origins[p.binding.origin].path] = p.binding.origin

Fits(r, q) ==
    q \in Spawning /\ ClientsPart(r, q) /\ AtStage(r, q) /\ Waiting(q) /\ WorkersPart(r, q) /\ Arrived(r, q)

StagedByClient ==
    DOMAIN staged \subseteq Request \X Origin /\ \A k \in DOMAIN staged : staged[k].data = Made(k[1], "client")

\* The inductive invariant behind CredentialsArrive.
CredInv ==
    /\ spawning = [r \in Request |-> spawning[r]] /\ \A r \in Request : Fits(r, spawning[r])
    /\ StagedByClient

\* A profile is one of Profiles.
LEMMA ProfileFacts ==
  ASSUME NEW p \in Profiles
  PROVE  /\ DOMAIN p.origins \subseteq Origin /\ p.env \subseteq EnvName /\ p.binding \in CredentialBinding
         /\ \A s \in DOMAIN p.origins : p.origins[s] \in CredentialSource
  BY ProfileAssumption DEF IsProfile

\* What a source yields is none of NoData.
LEMMA MadeFacts ==
  ASSUME NEW r \in Request, NEW where \in {"client", "worker"}
  PROVE  Made(r, where) \in CredData /\ Made(r, where) # NoData
  BY DEF Made, CredData, NoData

\* A plan that is built is a plan without results.
LEMMA BuiltPlan ==
  ASSUME NEW p \in Profiles, NEW topology \in {"host_edge", "in_cluster"}, NEW names \in SUBSET EnvName
  PROVE  LET plan == BuildCredentialPlan(p, topology, names) IN
         /\ plan \in Plan /\ plan.profile = p /\ plan.data = NoneMade
         /\ DOMAIN plan.phase = DOMAIN p.origins
         /\ \A s \in DOMAIN p.origins : plan.phase[s] = Phase(p.origins[s].scope, topology)
<1> DEFINE ph == [s \in DOMAIN p.origins |-> Phase(p.origins[s].scope, topology)]
<1>1. /\ DOMAIN p.origins \subseteq Origin /\ p.env \subseteq EnvName
      /\ \A s \in DOMAIN p.origins : p.origins[s] \in CredentialSource
  BY ProfileFacts
<1>2. \A s \in DOMAIN p.origins : Phase(p.origins[s].scope, topology) \in Phases
  BY <1>1 DEF Phase, Phases, CredentialSource
<1>3. ph \in [DOMAIN p.origins -> Phases] /\ DOMAIN ph = DOMAIN p.origins
  BY <1>2
<1>4. ph \in UNION {[D -> Phases] : D \in SUBSET Origin}
  BY <1>1, <1>3
<1>5. NoneMade \in [Origin -> CredData]
  BY DEF NoneMade, CredData
<1>6. \A s \in DOMAIN p.origins : ph[s] = Phase(p.origins[s].scope, topology)
  OBVIOUS
<1>7. BuildCredentialPlan(p, topology, names) = [profile |-> p, data |-> NoneMade, env |-> p.env \cup names, phase |-> ph]
  BY DEF BuildCredentialPlan
<1> HIDE DEF ph
<1>8. BuildCredentialPlan(p, topology, names) \in Plan
  BY <1>1, <1>4, <1>5, <1>7 DEF Plan
<1>. QED
  BY <1>3, <1>6, <1>7, <1>8

\* Preparing a plan changes its results only: a source that is prepared and
\* whose command succeeds has the token, every other keeps what it had.
LEMMA PreparedPlan ==
  ASSUME NEW plan \in Plan, NEW ok \in SUBSET Origin, NEW token \in CredData
  PROVE  LET done == Prepared(plan, ok, token) IN
         /\ done \in Plan /\ done.profile = plan.profile /\ done.phase = plan.phase
         /\ \A s \in Origin : done.data[s] =
              IF s \in ToPrepare(plan) /\ s \in ok /\ plan.profile.origins[s].type = "command_output"
              THEN token ELSE plan.data[s]
<1> DEFINE new == [s \in Origin |->
        IF s \in ToPrepare(plan) /\ s \in ok /\ plan.profile.origins[s].type = "command_output"
        THEN token ELSE plan.data[s]]
<1>1. plan.data \in [Origin -> CredData]
  BY DEF Plan
<1>2. new \in [Origin -> CredData]
  BY <1>1
<1>3. \A s \in Origin : new[s] =
        IF s \in ToPrepare(plan) /\ s \in ok /\ plan.profile.origins[s].type = "command_output"
        THEN token ELSE plan.data[s]
  OBVIOUS
<1>4. Prepared(plan, ok, token) = [plan EXCEPT !.data = new]
  BY DEF Prepared
<1> HIDE DEF new
<1>5. /\ Prepared(plan, ok, token) \in Plan /\ Prepared(plan, ok, token).profile = plan.profile
      /\ Prepared(plan, ok, token).phase = plan.phase /\ Prepared(plan, ok, token).data = new
  BY <1>2, <1>4 DEF Plan
<1>. QED
  BY <1>3, <1>5

\* The parts of a plan.
LEMMA PlanFacts ==
  ASSUME NEW plan \in Plan
  PROVE  plan.profile \in Profiles /\ plan.data \in [Origin -> CredData]
  BY DEF Plan

\* The parts of a request.
LEMMA RequestFacts ==
  ASSUME CredInv, NEW r \in Request
  PROVE  /\ spawning[r] \in Spawning /\ Fits(r, spawning[r])
         /\ spawning[r].todo \subseteq Origin /\ spawning[r].refs \subseteq Origin /\ spawning[r].unstaged \subseteq Origin
         /\ spawning[r].attempt \in Nat
  BY DEF CredInv, Fits, Spawning

\* Nothing but one request changes.
LEMMA OneRequest ==
  ASSUME CredInv, NEW r \in Request, NEW q, Put(r, q), Fits(r, q), StagedByClient'
  PROVE  CredInv'
<1>1. spawning = [x \in Request |-> spawning[x]] /\ spawning' = [spawning EXCEPT ![r] = q]
  BY DEF CredInv, Put
<1>2. spawning' = [x \in Request |-> IF x = r THEN q ELSE spawning[x]]
  BY <1>1, Zenon
<1>3. ASSUME NEW x \in Request PROVE Fits(x, spawning'[x])
  <2>1. Fits(x, spawning[x])
    BY DEF CredInv
  <2>. QED
    BY <1>2, <2>1
<1>4. spawning' = [x \in Request |-> spawning'[x]]
  BY <1>2
<1>. QED
  BY <1>3, <1>4 DEF CredInv

\* What is staged stays when the stager does.
LEMMA StagerKept ==
  ASSUME CredInv, staged' = staged
  PROVE  StagedByClient'
  BY DEF CredInv, StagedByClient

\* A request in a place where nothing is promised.
LEMMA AtRest ==
  ASSUME NEW r, NEW q \in Spawning, q.at \in {"idle", "failed", "rejected", "direct"}
  PROVE  Fits(r, q)
  BY DEF Fits, ClientsPart, AtStage, Waiting, WorkersPart, Arrived, Busy

\* A request nobody made.
LEMMA NotAskedFacts ==
  NotAsked \in Spawning
<1>1. NoOutput \in Outputs
  BY DEF NoOutput, Outputs, Tokens, NoneMade, CredData
<1>. QED
  BY <1>1 DEF NotAsked, Spawning, Busy

\* The first step of a client.
LEMMA ClientSpawnStep ==
  ASSUME CredInv, NEW r \in Request, NEW p \in Profiles, NEW mode, NEW dispatch, NEW ok \in SUBSET Origin,
         ClientSpawn(r, p, mode, dispatch, ok)
  PROVE  CredInv'
<1> DEFINE plan == BuildCredentialPlan(p, "host_edge", {})
           done == Prepared(plan, ok, Made(r, "client"))
<1>1. /\ plan \in Plan /\ plan.profile = p /\ plan.data = NoneMade
      /\ DOMAIN plan.phase = DOMAIN p.origins
      /\ \A s \in DOMAIN p.origins : plan.phase[s] = Phase(p.origins[s].scope, "host_edge")
  BY BuiltPlan
<1>2. Put(r, IF RequiredFails(plan, ok) \/ ~AssertionsHold(done)
             THEN [NotAsked EXCEPT !.at = "rejected"]
             ELSE IF Materialized(done) = {}
             THEN [NotAsked EXCEPT !.at = IF dispatch = "queued" THEN "submit" ELSE "direct", !.plan = done]
             ELSE IF mode = "stream" \/ dispatch # "queued"
             THEN [NotAsked EXCEPT !.at = "rejected"]
             ELSE [NotAsked EXCEPT !.at = "stage", !.plan = done, !.todo = Materialized(done)])
      /\ staged' = staged
  BY DEF ClientSpawn, SameStager
<1> HIDE DEF plan
<1>3. Made(r, "client") \in CredData /\ Made(r, "client") # NoData
  BY MadeFacts
<1>4. /\ done \in Plan /\ done.profile = p /\ done.phase = plan.phase
      /\ \A s \in Origin : done.data[s] =
           IF s \in ToPrepare(plan) /\ s \in ok /\ p.origins[s].type = "command_output"
           THEN Made(r, "client") ELSE plan.data[s]
  BY <1>1, <1>3, PreparedPlan
<1> HIDE DEF done
<1>5. DOMAIN p.origins \subseteq Origin /\ \A s \in DOMAIN p.origins : p.origins[s] \in CredentialSource
  BY ProfileFacts
<1>6. \A s \in Origin : plan.data[s] = NoData
  BY <1>1 DEF NoneMade
<1>7. Sources(plan) = DOMAIN p.origins /\ Sources(done) = DOMAIN p.origins
  BY <1>1, <1>4 DEF Sources
<1>8. ASSUME NEW s \in Materialized(done)
      PROVE  s \in Crossing(p) /\ done.data[s] = Made(r, "client") /\ s \in Origin
  <2>1. s \in DOMAIN p.origins /\ s \in Origin /\ done.data[s] # NoData
    BY <1>5, <1>7 DEF Materialized
  <2>2. s \in ToPrepare(plan) /\ p.origins[s].type = "command_output" /\ done.data[s] = Made(r, "client")
    BY <1>4, <1>6, <2>1
  <2>3. Phase(p.origins[s].scope, "host_edge") = "prepare_now"
    BY <1>1, <2>1, <2>2 DEF ToPrepare
  <2>4. p.origins[s].scope # "agent_runtime"
    BY <2>3 DEF Phase
  <2>. QED
    BY <2>1, <2>2, <2>4 DEF Crossing
<1>9. ASSUME ~RequiredFails(plan, ok), NEW s \in Crossing(p), p.origins[s].required
      PROVE  s \in Materialized(done)
  <2>1. s \in DOMAIN p.origins /\ s \in Origin /\ p.origins[s].type = "command_output" /\ p.origins[s].scope # "agent_runtime"
    BY <1>5 DEF Crossing
  <2>2. p.origins[s].scope \in {"any", "host_edge"}
    BY <1>5, <2>1 DEF CredentialSource
  <2>3. plan.phase[s] = "prepare_now"
    BY <1>1, <2>1, <2>2 DEF Phase
  <2>4. s \in ToPrepare(plan)
    BY <1>6, <1>7, <2>1, <2>3 DEF ToPrepare
  <2>5. ~PrepareFails(plan, s, ok)
    BY <1>1, <1>9, <2>4 DEF RequiredFails
  <2>6. s \in ok
    BY <1>1, <2>1, <2>5 DEF PrepareFails
  <2>7. done.data[s] # NoData
    BY <1>3, <1>4, <2>1, <2>4, <2>6
  <2>. QED
    BY <1>7, <2>1, <2>7 DEF Materialized
<1>10. StagedByClient'
  BY <1>2, StagerKept
<1>11. CASE RequiredFails(plan, ok) \/ ~AssertionsHold(done)
             \/ (Materialized(done) # {} /\ (mode = "stream" \/ dispatch # "queued"))
  <2> DEFINE q == [NotAsked EXCEPT !.at = "rejected"]
  <2>1. Put(r, q)
    BY <1>2, <1>11
  <2>2. q \in Spawning /\ q.at = "rejected"
    BY NotAskedFacts DEF Spawning
  <2> HIDE DEF q
  <2>. QED
    BY <1>10, <2>1, <2>2, AtRest, OneRequest
<1>12. CASE ~RequiredFails(plan, ok) /\ AssertionsHold(done) /\ Materialized(done) = {}
  <2> DEFINE q == [NotAsked EXCEPT !.at = IF dispatch = "queued" THEN "submit" ELSE "direct", !.plan = done]
  <2>1. Put(r, q)
    BY <1>2, <1>12
  <2>2. q \in Spawning /\ q.at \in {"submit", "direct"} /\ q.plan = done
    BY <1>4, NotAskedFacts DEF Spawning, Busy
  <2>3. q.todo = {} /\ q.refs = {} /\ q.unstaged = {}
    BY DEF NotAsked
  <2> HIDE DEF q
  <2>4. \A s \in Crossing(p) : ~p.origins[s].required
    BY <1>9, <1>12
  <2>5. ClientsPart(r, q)
    BY <1>4, <2>2, <2>3, <2>4 DEF ClientsPart
  <2>6. Fits(r, q)
    BY <2>2, <2>3, <2>5 DEF Fits, AtStage, Waiting, WorkersPart, Arrived
  <2>. QED
    BY <1>10, <2>1, <2>6, OneRequest
<1>13. CASE ~RequiredFails(plan, ok) /\ AssertionsHold(done) /\ Materialized(done) # {}
             /\ ~(mode = "stream" \/ dispatch # "queued")
  <2> DEFINE q == [NotAsked EXCEPT !.at = "stage", !.plan = done, !.todo = Materialized(done)]
  <2>1. Put(r, q)
    BY <1>2, <1>13
  <2>2. Materialized(done) \subseteq Origin
    BY <1>8
  <2>3. q \in Spawning /\ q.at = "stage" /\ q.plan = done /\ q.todo = Materialized(done)
    BY <1>4, <2>2, NotAskedFacts DEF Spawning, Busy
  <2>4. q.refs = {} /\ q.unstaged = {}
    BY DEF NotAsked
  <2> HIDE DEF q
  <2>5. ClientsPart(r, q)
    BY <1>4, <1>9, <1>13, <2>3, <2>4 DEF ClientsPart
  <2>6. AtStage(r, q)
    BY <1>4, <1>8, <2>3 DEF AtStage
  <2>7. Fits(r, q)
    BY <2>3, <2>5, <2>6 DEF Fits, Waiting, WorkersPart, Arrived
  <2>. QED
    BY <1>10, <2>1, <2>7, OneRequest
<1>. QED
  BY <1>11, <1>12, <1>13

\* A client stages a result, with or without an answer.
LEMMA StageStep ==
  ASSUME CredInv, NEW r \in Request, NEW s \in Origin, Stage(r, s) \/ StageFails(r, s)
  PROVE  CredInv'
<1> DEFINE q == spawning[r]
           kept == Stored(staged, <<r, s>>, [source |-> s, data |-> q.plan.data[s]])
<1>1. q \in Spawning /\ Fits(r, q) /\ q.at = "stage" /\ s \in q.todo /\ staged' \in {staged, kept}
  BY RequestFacts DEF Stage, StageFails, Is
<1>2. q.plan.data[s] = Made(r, "client") /\ s \in Crossing(q.plan.profile) /\ q.todo \subseteq Crossing(q.plan.profile)
  BY <1>1 DEF Fits, AtStage
<1>3. StagedByClient'
  <2>1. StagedByClient
    BY DEF CredInv
  <2>2. /\ DOMAIN kept = DOMAIN staged \cup {<<r, s>>}
        /\ \A k \in DOMAIN kept : kept[k] = IF k = <<r, s>> THEN [source |-> s, data |-> q.plan.data[s]] ELSE staged[k]
    BY DEF Stored
  <2>3. \A k \in DOMAIN kept : kept[k].data = Made(k[1], "client")
    BY <1>2, <2>1, <2>2 DEF StagedByClient
  <2> HIDE DEF kept
  <2>. QED
    BY <1>1, <2>1, <2>2, <2>3 DEF StagedByClient
<1>4. PICK n \in Spawning : Put(r, n) /\ n.at = "stage" /\ n.plan = q.plan /\ n.todo = q.todo \ {s}
        /\ n.refs \cup n.unstaged = q.refs \cup q.unstaged \cup {s}
  <2>1. CASE Stage(r, s)
    <3>1. /\ [q EXCEPT !.todo = @ \ {s}, !.refs = @ \cup {s}] \in Spawning
          /\ [q EXCEPT !.todo = @ \ {s}, !.refs = @ \cup {s}].at = "stage"
          /\ [q EXCEPT !.todo = @ \ {s}, !.refs = @ \cup {s}].plan = q.plan
          /\ [q EXCEPT !.todo = @ \ {s}, !.refs = @ \cup {s}].todo = q.todo \ {s}
          /\ [q EXCEPT !.todo = @ \ {s}, !.refs = @ \cup {s}].refs = q.refs \cup {s}
          /\ [q EXCEPT !.todo = @ \ {s}, !.refs = @ \cup {s}].unstaged = q.unstaged
      BY <1>1 DEF Spawning
    <3>. QED
      BY <2>1, <3>1 DEF Stage
  <2>2. CASE StageFails(r, s)
    <3>1. /\ [q EXCEPT !.todo = @ \ {s}, !.unstaged = @ \cup {s}] \in Spawning
          /\ [q EXCEPT !.todo = @ \ {s}, !.unstaged = @ \cup {s}].at = "stage"
          /\ [q EXCEPT !.todo = @ \ {s}, !.unstaged = @ \cup {s}].plan = q.plan
          /\ [q EXCEPT !.todo = @ \ {s}, !.unstaged = @ \cup {s}].todo = q.todo \ {s}
          /\ [q EXCEPT !.todo = @ \ {s}, !.unstaged = @ \cup {s}].refs = q.refs
          /\ [q EXCEPT !.todo = @ \ {s}, !.unstaged = @ \cup {s}].unstaged = q.unstaged \cup {s}
      BY <1>1 DEF Spawning
    <3>. QED
      BY <2>2, <3>1 DEF StageFails
  <2>. QED
    BY <2>1, <2>2
<1>5. ClientsPart(r, q) /\ AtStage(r, q)
  BY <1>1 DEF Fits
<1>6. ClientsPart(r, n)
  BY <1>1, <1>2, <1>4, <1>5 DEF ClientsPart, Busy
<1>7. AtStage(r, n)
  BY <1>1, <1>4, <1>5 DEF AtStage
<1>8. Fits(r, n)
  BY <1>4, <1>6, <1>7 DEF Fits, Waiting, WorkersPart, Arrived
<1>. QED
  BY <1>3, <1>4, <1>8, OneRequest

\* A client goes on.
LEMMA ClientGoesOn ==
  ASSUME CredInv, NEW r \in Request, Staged(r) \/ Submit(r)
  PROVE  CredInv'
<1> DEFINE q == spawning[r]
<1>1. q \in Spawning /\ Fits(r, q) /\ q.at \in {"stage", "submit"} /\ q.todo = {} /\ staged' = staged
  BY RequestFacts DEF Staged, Submit, Is, SameStager, Fits, Waiting
<1>2. PICK next \in {"submit", "queued"} : Put(r, [q EXCEPT !.at = next])
  BY DEF Staged, Submit
<1>3. /\ [q EXCEPT !.at = next] \in Spawning /\ [q EXCEPT !.at = next].at = next
      /\ [q EXCEPT !.at = next].plan = q.plan /\ [q EXCEPT !.at = next].todo = {}
      /\ [q EXCEPT !.at = next].refs = q.refs /\ [q EXCEPT !.at = next].unstaged = q.unstaged
  BY <1>1 DEF Spawning, Busy
<1>4. PICK n : n = [q EXCEPT !.at = next]
  OBVIOUS
<1>5. n \in Spawning /\ n.at = next /\ n.plan = q.plan /\ n.todo = {} /\ n.refs = q.refs /\ n.unstaged = q.unstaged
  BY <1>3, <1>4
<1>6. ClientsPart(r, q)
  BY <1>1 DEF Fits
<1>7. ClientsPart(r, n)
  BY <1>1, <1>5, <1>6 DEF ClientsPart, Busy
<1>8. Fits(r, n)
  BY <1>5, <1>7 DEF Fits, AtStage, Waiting, WorkersPart, Arrived
<1>. QED
  BY <1>1, <1>2, <1>4, <1>8, StagerKept, OneRequest

\* A client ends, or a worker gives a mission up.
LEMMA GivesUp ==
  ASSUME CredInv, NEW r \in Request, ClientEnds(r) \/ FetchUnanswered(r)
  PROVE  CredInv'
<1>1. spawning[r] \in Spawning /\ staged' = staged
  BY RequestFacts DEF ClientEnds, FetchUnanswered, SameStager
<1>2. PICK next \in {"rejected", "failed"} : Put(r, [spawning[r] EXCEPT !.at = next])
  BY DEF ClientEnds, FetchUnanswered
<1>3. [spawning[r] EXCEPT !.at = next] \in Spawning /\ [spawning[r] EXCEPT !.at = next].at = next
  BY <1>1 DEF Spawning
<1>4. Fits(r, [spawning[r] EXCEPT !.at = next])
  BY <1>3, AtRest
<1>. QED
  BY <1>1, <1>2, <1>4, StagerKept, OneRequest

\* A worker takes the mission.
LEMMA ClaimStep ==
  ASSUME CredInv, NEW r \in Request, Claim(r)
  PROVE  CredInv'
<1> DEFINE q == spawning[r]
<1>1. q \in Spawning /\ Fits(r, q) /\ q.at = "queued" /\ q.todo = {} /\ staged' = staged
  BY RequestFacts DEF Claim, Is, SameStager, Fits, Waiting
<1>2. ClientsPart(r, q) /\ q.plan \in Plan
  BY <1>1 DEF Fits, ClientsPart, Busy
<1>3. PICK p \in Profiles : p = q.plan.profile
  BY <1>2, PlanFacts
<1>a. PICK plan : plan = BuildCredentialPlan(p, "in_cluster", HostEnv)
  OBVIOUS
<1>b. HostEnv \in SUBSET EnvName
  BY CredentialAssumption
<1>4. /\ plan \in Plan /\ plan.profile = p /\ plan.data = NoneMade
      /\ DOMAIN plan.phase = DOMAIN p.origins
      /\ \A s \in DOMAIN p.origins : plan.phase[s] = Phase(p.origins[s].scope, "in_cluster")
  BY <1>a, <1>b, BuiltPlan
<1>5. PICK next \in {"failed", "fetch"} :
        Put(r, [q EXCEPT !.attempt = @ + 1, !.plan = plan, !.todo = @ \cup q.refs, !.at = next])
  BY <1>3, <1>a DEF Claim
<1>c. q.attempt + 1 \in Nat /\ q.todo \cup q.refs \subseteq Origin
  BY RequestFacts
<1>6. PICK n : n = [q EXCEPT !.attempt = @ + 1, !.plan = plan, !.todo = @ \cup q.refs, !.at = next]
  OBVIOUS
<1>7. /\ n \in Spawning /\ n.at = next /\ n.plan = plan /\ n.todo = q.todo \cup q.refs
      /\ n.refs = q.refs /\ n.unstaged = q.unstaged
  BY <1>1, <1>4, <1>6, <1>c DEF Spawning, Busy
<1>8. CASE next = "failed"
  BY <1>1, <1>5, <1>6, <1>7, <1>8, AtRest, StagerKept, OneRequest
<1>9. CASE next = "fetch"
  <2>1. ClientsPart(r, n)
    BY <1>1, <1>2, <1>3, <1>4, <1>7, <1>9 DEF ClientsPart, Busy
  <2>2. \A s \in Origin : plan.data[s] = NoData
    BY <1>4 DEF NoneMade
  <2>3. \A s \in DOMAIN p.origins : p.origins[s].scope = "any" => plan.phase[s] = "prepare_now"
    BY <1>4 DEF Phase
  <2>4. WorkersPart(r, n)
    BY <1>1, <1>4, <1>7, <1>9, <2>2, <2>3 DEF WorkersPart
  <2>5. Fits(r, n)
    BY <1>7, <1>9, <2>1, <2>4 DEF Fits, AtStage, Waiting, Arrived
  <2>. QED
    BY <1>1, <1>5, <1>6, <2>5, StagerKept, OneRequest
<1>. QED
  BY <1>8, <1>9

\* A result that is put into a plan.
LEMMA RehydratedPlan ==
  ASSUME NEW plan \in Plan, NEW s \in Origin, NEW v \in CredData, Rehydratable(plan, s)
  PROVE  LET next == RehydrateSource(plan, s, v) IN
         /\ next \in Plan /\ next.profile = plan.profile
         /\ next.data = [plan.data EXCEPT ![s] = v] /\ next.phase = [plan.phase EXCEPT ![s] = "prepare_now"]
<1>1. /\ plan.data \in [Origin -> CredData] /\ plan.profile \in Profiles /\ plan.env \in SUBSET EnvName
      /\ plan.phase \in UNION {[D -> Phases] : D \in SUBSET Origin}
  BY DEF Plan
<1>2. PICK D \in SUBSET Origin : plan.phase \in [D -> Phases]
  BY <1>1
<1>3. [plan.phase EXCEPT ![s] = "prepare_now"] \in [D -> Phases]
  BY <1>2 DEF Phases
<1>4. [plan.data EXCEPT ![s] = v] \in [Origin -> CredData]
  BY <1>1
<1>5. PICK e : e = [plan.phase EXCEPT ![s] = "prepare_now"]
  OBVIOUS
<1>6. PICK g : g = [plan.data EXCEPT ![s] = v]
  OBVIOUS
<1>7. e \in UNION {[E -> Phases] : E \in SUBSET Origin} /\ g \in [Origin -> CredData]
  BY <1>3, <1>4, <1>5, <1>6
<1>8. [plan EXCEPT !.phase = e].data = plan.data
  BY DEF Plan
<1>9. RehydrateSource(plan, s, v) = [plan EXCEPT !.phase = e, !.data = g]
  BY <1>5, <1>6, <1>8 DEF RehydrateSource
<1>10. /\ [plan EXCEPT !.phase = e, !.data = g] \in Plan /\ [plan EXCEPT !.phase = e, !.data = g].profile = plan.profile
       /\ [plan EXCEPT !.phase = e, !.data = g].phase = e /\ [plan EXCEPT !.phase = e, !.data = g].data = g
  BY <1>7 DEF Plan
<1>. QED
  BY <1>5, <1>6, <1>9, <1>10

\* A worker fetches a result.
LEMMA ResultFetched ==
  ASSUME CredInv, NEW r \in Request, NEW s \in Origin, Fetch(r, s)
  PROVE  CredInv'
<1> DEFINE q == spawning[r]
           p == q.plan.profile
<1>1. q \in Spawning /\ Fits(r, q) /\ q.at = "fetch" /\ s \in q.todo /\ staged' = staged
  BY RequestFacts DEF Fetch, Is, SameStager
<1>2. ClientsPart(r, q) /\ q.plan \in Plan /\ WorkersPart(r, q)
  BY <1>1 DEF Fits, ClientsPart, Busy
<1>3. CASE ~(<<r, s>> \in DOMAIN staged /\ Rehydratable(q.plan, s))
  <2>1. Put(r, [q EXCEPT !.at = "failed"])
    BY <1>3 DEF Fetch
  <2>2. [q EXCEPT !.at = "failed"] \in Spawning /\ [q EXCEPT !.at = "failed"].at = "failed"
    BY <1>1 DEF Spawning
  <2>3. Fits(r, [q EXCEPT !.at = "failed"])
    BY <2>2, AtRest
  <2>. QED
    BY <1>1, <2>1, <2>3, StagerKept, OneRequest
<1>4. CASE <<r, s>> \in DOMAIN staged /\ Rehydratable(q.plan, s)
  <2>1. staged[<<r, s>>].data = Made(r, "client")
    BY <1>4 DEF CredInv, StagedByClient
  <2>2. Made(r, "client") \in CredData
    BY MadeFacts
  <2>3. PICK plan : plan = RehydrateSource(q.plan, s, Made(r, "client"))
    OBVIOUS
  <2>4. /\ plan \in Plan /\ plan.profile = p
        /\ plan.data = [q.plan.data EXCEPT ![s] = Made(r, "client")]
        /\ plan.phase = [q.plan.phase EXCEPT ![s] = "prepare_now"]
    BY <1>2, <1>4, <2>2, <2>3, RehydratedPlan
  <2>5. Put(r, [q EXCEPT !.todo = @ \ {s}, !.plan = plan])
    BY <1>4, <2>1, <2>3 DEF Fetch
  <2>6. PICK n : n = [q EXCEPT !.todo = @ \ {s}, !.plan = plan]
    OBVIOUS
  <2>7. /\ n \in Spawning /\ n.at = "fetch" /\ n.plan = plan /\ n.todo = q.todo \ {s}
        /\ n.refs = q.refs /\ n.unstaged = q.unstaged
    BY <1>1, <2>4, <2>6 DEF Spawning
  <2>8. ClientsPart(r, n)
    BY <1>1, <1>2, <2>4, <2>7 DEF ClientsPart, Busy
  <2>9. q.plan.data \in [Origin -> CredData] /\ p \in Profiles
    BY <1>2, PlanFacts
  <2>10. \A x \in Origin : plan.data[x] = IF x = s THEN Made(r, "client") ELSE q.plan.data[x]
    BY <2>4, <2>9
  <2>11. /\ DOMAIN q.plan.phase = DOMAIN p.origins
         /\ \A x \in DOMAIN p.origins : p.origins[x].scope = "any" => q.plan.phase[x] = "prepare_now"
    BY <1>1, <1>2 DEF WorkersPart
  <2>12. /\ DOMAIN plan.phase = DOMAIN p.origins
         /\ \A x \in DOMAIN p.origins : p.origins[x].scope = "any" => plan.phase[x] = "prepare_now"
    BY <2>4, <2>11
  <2>13. /\ \A x \in Origin : q.plan.data[x] \in {NoData, Made(r, "client")}
         /\ \A x \in q.refs : x \in q.todo \/ q.plan.data[x] = Made(r, "client")
    BY <1>1, <1>2, ZenonT(60) DEF WorkersPart
  <2>14. q.refs \subseteq Origin
    BY RequestFacts
  <2>15. WorkersPart(r, n)
    BY <2>4, <2>7, <2>10, <2>12, <2>13, <2>14 DEF WorkersPart
  <2>16. Fits(r, n)
    BY <2>7, <2>8, <2>15 DEF Fits, AtStage, Waiting, Arrived
  <2>. QED
    BY <1>1, <2>5, <2>6, <2>16, StagerKept, OneRequest
<1>. QED
  BY <1>3, <1>4

\* Everything is fetched.
LEMMA RehydratedStep ==
  ASSUME CredInv, NEW r \in Request, Rehydrated(r)
  PROVE  CredInv'
<1> DEFINE q == spawning[r]
<1>1. q \in Spawning /\ Fits(r, q) /\ q.at = "fetch" /\ q.todo = {} /\ staged' = staged
  BY RequestFacts DEF Rehydrated, Is, SameStager
<1>2. ClientsPart(r, q) /\ WorkersPart(r, q)
  BY <1>1 DEF Fits
<1>3. PICK n : n = [q EXCEPT !.at = "execute"]
  OBVIOUS
<1>4. /\ n \in Spawning /\ n.at = "execute" /\ n.plan = q.plan /\ n.todo = q.todo
      /\ n.refs = q.refs /\ n.unstaged = q.unstaged
  BY <1>1, <1>3 DEF Spawning, Busy
<1>5. ClientsPart(r, n)
  BY <1>1, <1>2, <1>4 DEF ClientsPart, Busy
<1>6. WorkersPart(r, n)
  BY <1>1, <1>2, <1>4 DEF WorkersPart
<1>7. Fits(r, n)
  BY <1>4, <1>5, <1>6 DEF Fits, AtStage, Waiting, Arrived
<1>8. Put(r, n)
  BY <1>3 DEF Rehydrated
<1>. QED
  BY <1>1, <1>7, <1>8, StagerKept, OneRequest

\* What a bearer variable and a file are given.
LEMMA Delivered ==
  ASSUME NEW plan \in Plan, NEW s \in Sources(plan), NEW f \in SecretData(plan),
         plan.profile.binding.origin = s, plan.data[s] # NoData
  PROVE  /\ plan.profile.binding.type = "bearer_env" /\ plan.profile.binding.env # "" =>
              BearerToken(plan) = plan.data[s]
         /\ plan.profile.binding.type = "token_file" /\ plan.profile.origins[s].path # "" =>
              f[plan.profile.origins[s].path] = s
<1>1. /\ plan.profile \in Profiles /\ s \in Origin /\ s # "" /\ s \in Materialized(plan)
      /\ plan.profile.origins[s] \in CredentialSource
  BY PlanFacts, ProfileFacts, CredentialAssumption DEF Sources, Materialized
<1>2. plan.profile.binding.type = "bearer_env" /\ plan.profile.binding.env # "" => BearerToken(plan) = plan.data[s]
  BY <1>1 DEF BearerToken
<1>3. ASSUME plan.profile.binding.type = "token_file", plan.profile.origins[s].path # ""
      PROVE  f[plan.profile.origins[s].path] = s
  <2>1. plan.profile.origins[s].path \in {"token", "key"}
    BY <1>1, <1>3 DEF CredentialSource
  <2>2. Winner(plan, f, plan.profile.origins[s].path)
    BY <2>1 DEF SecretData
  <2>. QED
    BY <1>1, <1>3, <2>2 DEF Winner
<1>. QED
  BY <1>2, <1>3

\* An agent is launched, or the mission fails.
LEMMA ExecuteStep ==
  ASSUME CredInv, NEW r \in Request, NEW ok \in SUBSET Origin, ExecuteCredentialPlan(r, ok)
  PROVE  CredInv'
<1> DEFINE q == spawning[r]
           p == q.plan.profile
           done == Prepared(q.plan, ok, Made(r, "worker"))
<1>1. q \in Spawning /\ Fits(r, q) /\ q.at = "execute" /\ staged' = staged
  BY RequestFacts DEF ExecuteCredentialPlan, Is, SameStager
<1>2. ClientsPart(r, q) /\ q.plan \in Plan /\ WorkersPart(r, q)
  BY <1>1 DEF Fits, ClientsPart, Busy
<1>3. CASE RequiredFails(q.plan, ok) \/ ~AssertionsHold(done)
  <2>1. Put(r, [q EXCEPT !.at = "failed"])
    BY <1>3 DEF ExecuteCredentialPlan
  <2>2. [q EXCEPT !.at = "failed"] \in Spawning /\ [q EXCEPT !.at = "failed"].at = "failed"
    BY <1>1 DEF Spawning
  <2>3. Fits(r, [q EXCEPT !.at = "failed"])
    BY <2>2, AtRest
  <2>. QED
    BY <1>1, <2>1, <2>3, StagerKept, OneRequest
<1>4. CASE ~(RequiredFails(q.plan, ok) \/ ~AssertionsHold(done))
  <2>1. PICK f \in SecretData(done) : Put(r, [q EXCEPT !.at = "launched", !.out = Output(done, f)])
    BY <1>4 DEF ExecuteCredentialPlan
  <2>2. /\ Made(r, "worker") \in CredData /\ Made(r, "worker") # NoData
        /\ Made(r, "client") \in CredData /\ Made(r, "client") # NoData
    BY MadeFacts
  <2>3. PICK plan : plan = done
    OBVIOUS
  <2>4. /\ plan \in Plan /\ plan.profile = p
        /\ \A s \in Origin : plan.data[s] =
             IF s \in ToPrepare(q.plan) /\ s \in ok /\ p.origins[s].type = "command_output"
             THEN Made(r, "worker") ELSE q.plan.data[s]
    BY <1>2, <2>2, <2>3, PreparedPlan
  <2>5. f \in SecretData(plan) /\ f \in [{"token", "key"} -> Origin \cup {""}]
    BY <2>1, <2>3 DEF SecretData
  <2>6. PICK made : made = Output(plan, f)
    OBVIOUS
  <2>7. made \in Outputs
    <3>1. BearerToken(plan) \in Tokens
      BY <2>4 DEF Tokens
    <3>2. plan.data \in [Origin -> CredData]
      BY <2>4, PlanFacts
    <3>. QED
      BY <2>5, <2>6, <3>1, <3>2 DEF Outputs, Output
  <2>8. made.data = plan.data /\ made.token = BearerToken(plan) /\ made.files = f
    BY <2>6 DEF Output
  <2>9. PICK n : n = [q EXCEPT !.at = "launched", !.out = made]
    OBVIOUS
  <2>10. /\ n \in Spawning /\ n.at = "launched" /\ n.plan = q.plan /\ n.out = made
         /\ n.refs = q.refs /\ n.unstaged = q.unstaged
    BY <1>1, <2>7, <2>9 DEF Spawning, Busy
  <2>11. Put(r, n)
    BY <2>1, <2>3, <2>6, <2>9
  <2>12. p \in Profiles /\ DOMAIN p.origins \subseteq Origin /\ \A s \in DOMAIN p.origins : p.origins[s] \in CredentialSource
    BY <1>2, PlanFacts, ProfileFacts
  <2>13. /\ \A s \in DOMAIN p.origins : p.origins[s].scope = "any" => q.plan.phase[s] = "prepare_now"
         /\ \A s \in Origin : q.plan.data[s] \in {NoData, Made(r, "client")}
         /\ \A s \in q.refs : q.plan.data[s] = Made(r, "client")
    BY <1>1, <1>2 DEF WorkersPart
  <2>14. /\ q.refs \cup q.unstaged \subseteq Crossing(p)
         /\ \A s \in Crossing(p) : p.origins[s].required => s \in q.refs \cup q.unstaged
    BY <1>1, <1>2 DEF ClientsPart, Busy
  <2>15. ASSUME NEW s \in q.refs PROVE s \in DOMAIN p.origins /\ s \in Origin /\ plan.data[s] = Made(r, "client")
    <3>1. s \in DOMAIN p.origins /\ s \in Origin
      BY <2>12, <2>14 DEF Crossing
    <3>2. s \notin ToPrepare(q.plan)
      BY <2>2, <2>13, <2>15 DEF ToPrepare
    <3>. QED
      BY <2>4, <2>13, <3>1, <3>2
  <2>16. ASSUME NEW s \in DOMAIN p.origins
         PROVE  /\ plan.data[s] \in {NoData, Made(r, "client"), Made(r, "worker")}
                /\ p.origins[s].type = "command_output" /\ p.origins[s].required /\ plan.data[s] = NoData =>
                     \/ p.origins[s].scope = "agent_runtime"
                     \/ p.origins[s].scope = "host_edge" /\ s \in q.unstaged
    <3>1. s \in Origin /\ p.origins[s].scope \in {"any", "host_edge", "agent_runtime"}
      BY <2>12 DEF CredentialSource
    <3>2. plan.data[s] \in {NoData, Made(r, "client"), Made(r, "worker")}
      BY <2>4, <2>13, <3>1
    <3>3. ASSUME p.origins[s].type = "command_output", p.origins[s].required, plan.data[s] = NoData,
                 p.origins[s].scope = "any"
          PROVE  FALSE
      <4>1. q.plan.phase[s] = "prepare_now" /\ s \in Sources(q.plan)
        BY <2>13, <3>3 DEF Sources
      <4>2. q.plan.data[s] = NoData
        BY <2>2, <2>4, <3>1, <3>3
      <4>3. s \in ToPrepare(q.plan)
        BY <4>1, <4>2 DEF ToPrepare
      <4>4. s \in ok
        BY <1>4, <3>3, <4>3 DEF RequiredFails, PrepareFails
      <4>. QED
        BY <2>2, <2>4, <3>1, <3>3, <4>3, <4>4
    <3>4. ASSUME p.origins[s].type = "command_output", p.origins[s].required, plan.data[s] = NoData,
                 p.origins[s].scope = "host_edge"
          PROVE  s \in q.unstaged
      <4>1. s \in Crossing(p)
        BY <3>4 DEF Crossing
      <4>2. s \in q.refs \cup q.unstaged
        BY <2>14, <3>4, <4>1
      <4>. QED
        BY <2>2, <2>15, <3>4, <4>2
    <3>. QED
      BY <3>1, <3>2, <3>3, <3>4
  <2>17. ASSUME p.binding.origin \in q.refs
         PROVE  /\ p.binding.type = "bearer_env" /\ p.binding.env # "" => BearerToken(plan) = Made(r, "client")
                /\ p.binding.type = "token_file" /\ p.origins[p.binding.origin].path # "" =>
                     f[p.origins[p.binding.origin].path] = p.binding.origin
    <3>1. p.binding.origin \in Sources(plan) /\ plan.data[p.binding.origin] = Made(r, "client")
      BY <2>4, <2>15, <2>17 DEF Sources
    <3>2. PICK s : s = p.binding.origin
      OBVIOUS
    <3>3. s \in Sources(plan) /\ plan.profile.binding.origin = s /\ plan.data[s] # NoData /\ plan.data[s] = Made(r, "client")
      BY <2>2, <2>4, <3>1, <3>2
    <3>4. /\ plan.profile.binding.type = "bearer_env" /\ plan.profile.binding.env # "" =>
               BearerToken(plan) = plan.data[s]
          /\ plan.profile.binding.type = "token_file" /\ plan.profile.origins[s].path # "" =>
               f[plan.profile.origins[s].path] = s
      BY <2>4, <2>5, <3>3, Delivered
    <3>. QED
      BY <2>4, <3>2, <3>3, <3>4
  <2>18. Arrived(r, n)
    <3>1. n.refs = q.refs /\ n.unstaged = q.unstaged /\ n.plan.profile = p
          /\ n.out.data = plan.data /\ n.out.token = BearerToken(plan) /\ n.out.files = f
      BY <2>8, <2>10
    <3>2. \A s \in n.refs : n.out.data[s] = Made(r, "client")
      BY <2>15, <3>1
    <3>3. \A s \in DOMAIN p.origins :
            /\ n.out.data[s] \in {NoData, Made(r, "client"), Made(r, "worker")}
            /\ p.origins[s].type = "command_output" /\ p.origins[s].required /\ n.out.data[s] = NoData =>
                 \/ p.origins[s].scope = "agent_runtime"
                 \/ p.origins[s].scope = "host_edge" /\ s \in n.unstaged
      BY <2>16, <3>1
    <3>4. p.binding.origin \in n.refs =>
            /\ p.binding.type = "bearer_env" /\ p.binding.env # "" => n.out.token = Made(r, "client")
            /\ p.binding.type = "token_file" /\ p.origins[p.binding.origin].path # "" =>
                 n.out.files[p.origins[p.binding.origin].path] = p.binding.origin
      BY <2>17, <3>1
    <3> HIDE DEF p
    <3>. QED
      BY <3>1, <3>2, <3>3, <3>4 DEF Arrived
  <2>19. ClientsPart(r, n)
    BY <1>1, <1>2, <2>10 DEF ClientsPart, Busy
  <2>20. Fits(r, n)
    BY <2>10, <2>18, <2>19 DEF Fits, AtStage, Waiting, WorkersPart
  <2>. QED
    BY <1>1, <2>11, <2>20, StagerKept, OneRequest
<1>. QED
  BY <1>3, <1>4

\* A worker ends and its lease runs out.
LEMMA WorkerEndsStep ==
  ASSUME CredInv, NEW r \in Request, WorkerEnds(r)
  PROVE  CredInv'
<1> DEFINE q == spawning[r]
<1>1. q \in Spawning /\ Fits(r, q) /\ q.at \in {"fetch", "execute"} /\ staged' = staged
  BY RequestFacts DEF WorkerEnds, SameStager
<1>2. ClientsPart(r, q)
  BY <1>1 DEF Fits
<1>3. PICK n : n = [q EXCEPT !.at = "queued", !.todo = {}]
  OBVIOUS
<1>4. /\ n \in Spawning /\ n.at = "queued" /\ n.plan = q.plan /\ n.todo = {}
      /\ n.refs = q.refs /\ n.unstaged = q.unstaged
  BY <1>1, <1>3 DEF Spawning, Busy
<1>5. ClientsPart(r, n)
  BY <1>1, <1>2, <1>4 DEF ClientsPart, Busy
<1>6. Fits(r, n)
  BY <1>4, <1>5 DEF Fits, AtStage, Waiting, WorkersPart, Arrived
<1>7. Put(r, n)
  BY <1>3 DEF WorkerEnds
<1>. QED
  BY <1>1, <1>6, <1>7, StagerKept, OneRequest

\* A result expires, or the stager forgets all of them.
LEMMA StagerStep ==
  ASSUME CredInv, (\E k \in DOMAIN staged : Expire(k)) \/ StagerRestarts
  PROVE  CredInv'
<1>1. spawning' = spawning
  BY DEF Expire, StagerRestarts
<1>2. StagedByClient
  BY DEF CredInv
<1>3. StagedByClient'
  <2>1. CASE StagerRestarts
    <3>1. DOMAIN staged' = {}
      BY <2>1 DEF StagerRestarts
    <3>. QED
      BY <3>1 DEF StagedByClient
  <2>2. CASE \E k \in DOMAIN staged : Expire(k)
    <3>1. PICK k \in DOMAIN staged : staged' = Forget(staged, k)
      BY <2>2 DEF Expire
    <3>2. DOMAIN staged' = DOMAIN staged \ {k} /\ \A x \in DOMAIN staged' : staged'[x] = staged[x]
      BY <3>1 DEF Forget
    <3>. QED
      BY <1>2, <3>2 DEF StagedByClient
  <2>. QED
    BY <2>1, <2>2
<1>. QED
  BY <1>1, <1>3 DEF CredInv

\* The requests, the staged results, the plans of the workers and what the
\* agents are launched with agree (StagingSpawnClient.Spawn, Stage, Fetch,
\* RehydrateSource and ExecuteCredentialPlan).
THEOREM CredentialsInvariant == CredSpec => []CredInv
<1>1. ASSUME CredInit PROVE CredInv
  <2>1. \A r \in Request : Fits(r, NotAsked)
    <3>1. NotAsked \in Spawning /\ NotAsked.at = "idle"
      BY NotAskedFacts DEF NotAsked
    <3>. QED
      BY <3>1, AtRest
  <2>2. spawning = [r \in Request |-> NotAsked] /\ DOMAIN staged = {}
    BY <1>1 DEF CredInit
  <2>3. StagedByClient
    BY <2>2 DEF StagedByClient
  <2>. QED
    BY <2>1, <2>2, <2>3 DEF CredInv
<1>2. ASSUME CredInv, [CredNext]_credVars PROVE CredInv'
  <2>1. ASSUME NEW r \in Request, NEW p \in Profiles, NEW mode \in {"batch", "stream"},
               NEW dispatch \in {"queued", "direct"}, NEW ok \in SUBSET Origin,
               ClientSpawn(r, p, mode, dispatch, ok)
        PROVE  CredInv'
    BY <1>2, <2>1, ClientSpawnStep
  <2>2. ASSUME NEW r \in Request, NEW s \in Origin, Stage(r, s) \/ StageFails(r, s) PROVE CredInv'
    BY <1>2, <2>2, StageStep
  <2>3. ASSUME NEW r \in Request, NEW s \in Origin, Fetch(r, s) PROVE CredInv'
    BY <1>2, <2>3, ResultFetched
  <2>4. ASSUME NEW r \in Request, Staged(r) \/ Submit(r) PROVE CredInv'
    BY <1>2, <2>4, ClientGoesOn
  <2>5. ASSUME NEW r \in Request, ClientEnds(r) \/ FetchUnanswered(r) PROVE CredInv'
    BY <1>2, <2>5, GivesUp
  <2>6. ASSUME NEW r \in Request, Claim(r) PROVE CredInv'
    BY <1>2, <2>6, ClaimStep
  <2>7. ASSUME NEW r \in Request, Rehydrated(r) PROVE CredInv'
    BY <1>2, <2>7, RehydratedStep
  <2>8. ASSUME NEW r \in Request, WorkerEnds(r) PROVE CredInv'
    BY <1>2, <2>8, WorkerEndsStep
  <2>9. ASSUME NEW r \in Request, NEW ok \in SUBSET Origin, ExecuteCredentialPlan(r, ok) PROVE CredInv'
    BY <1>2, <2>9, ExecuteStep
  <2>10. ASSUME (\E k \in DOMAIN staged : Expire(k)) \/ StagerRestarts PROVE CredInv'
    BY <1>2, <2>10, StagerStep
  <2>11. CASE UNCHANGED credVars
    BY <1>2, <2>11 DEF credVars, CredInv, StagedByClient
  <2>. QED
    BY <1>2, <2>1, <2>2, <2>3, <2>4, <2>5, <2>6, <2>7, <2>8, <2>9, <2>10, <2>11 DEF CredNext
<1>. QED
  BY <1>1, <1>2, PTL DEF CredSpec

\* An agent is launched with every result the client staged for it and none of
\* another request, or its mission fails (Spawn, Fetch, RehydrateSource), for
\* any number of requests, profiles, claims, lost answers, expiries and restarts.
THEOREM StagedCredentialsArrive == CredSpec => []CredentialsArrive
<1>1. CredInv => CredentialsArrive
  BY DEF CredInv, Fits, Arrived, CredentialsArrive
<1>. QED
  BY <1>1, CredentialsInvariant, PTL

(***************************************************************************)
(* The OAuth tokens of a server.                                           *)
(***************************************************************************)

Identity == {NoClient, FromConfig, FromFile} \cup {Registered(c) : c \in Command}
Bearer == {NoToken} \cup (Command \X Identity)
Answer == Command \X BOOLEAN
Logins == {"login", "device"}
Run == [at : Places, kind : Logins \cup {"none", "logout", "export"}, client : Identity,
        answers : Seq(Answer), answer : {<<>>} \cup Answer, token : Bearer]
Gateway == [at : {"off", "on", "failed"}, client : Identity, token : Bearer]

\* The places of a login in the browser before it has a token.
Browsing == {"identify", "lookup", "register", "save client", "check", "wait", "shut", "exchange"}

\* A command, the places of its kind, its identity and its token.
RunFits(c, q) ==
    /\ q \in Run
    /\ q.at = "idle" => q.token = NoToken
    /\ q.at \in Browsing => q.kind = "login" /\ q.token = NoToken
    /\ q.at \in {"lookup", "register", "save client"} => ~setting.client /\ ~setting.file
    /\ q.at = "save client" => q.client = Registered(c)
    /\ q.at \in {"check", "wait", "shut", "exchange"} => q.client # NoClient
    /\ q.at = "exchange" => q.answer[1] = c
    /\ q.at \in {"discover", "request", "poll"} => q.kind = "device" /\ q.token = NoToken /\ setting.client
    /\ q.at = "poll" => q.client = FromConfig
    /\ q.at = "save token" => q.kind \in Logins /\ q.token # NoToken
    /\ q.at \in {"read token", "read client"} => q.kind = "export"
    /\ q.kind \in Logins /\ q.token # NoToken => q.token = Granted(c, q.client) /\ q.client # NoClient

\* A token that a login has been given.
Own(t) == \E c \in Command : command[c].kind \in Logins /\ command[c].token = t

OAuthTypes ==
    /\ setting \in Settings /\ keyring \in [token : Bearer, client : Identity] /\ gw \in Gateway
    /\ disturbed \in BOOLEAN /\ port \in Command \cup {0} /\ DOMAIN command = Command

\* Every token in the keyring, on its way there or with the gateway is one.
AllOwn ==
    /\ keyring.token # NoToken => Own(keyring.token)
    /\ gw.token # NoToken => Own(gw.token)
    /\ \A op \in overdue :
         \/ op[1] = "token" /\ op[2] \in Bearer /\ (op[2] # NoToken => Own(op[2]))
         \/ op[1] = "client" /\ op[2] \in Identity

\* What a command knows of the keyring is so while nothing disturbs it.
Knowing(q) ==
    /\ q.at \in {"check", "wait", "shut", "exchange", "save token"} => q.client = ResolveIdentity(keyring.client)
    /\ q.at \in {"register", "save client"} => keyring.client = NoClient
    /\ q.at = "delete client" => keyring.token = NoToken
Matching == keyring.token # NoToken => keyring.token[2] = ResolveIdentity(keyring.client)
Undisturbed == ~disturbed =>
    /\ overdue = {} /\ Matching /\ \A c \in Command : Knowing(command[c])
    /\ \A c, d \in Command : ~Over(c) /\ ~Over(d) => c = d
    /\ gw.token # NoToken => gw.token = keyring.token /\ \A c \in Command : Over(c)

\* The inductive invariant behind TokensSound.
LoginInv ==
    OAuthTypes /\ (\A c \in Command : RunFits(c, command[c])) /\ AllOwn /\ Undisturbed

\* What an identity and a token can be.
LEMMA IdentityFacts ==
  /\ NoClient \in Identity /\ FromConfig \in Identity /\ FromFile \in Identity
  /\ FromConfig # NoClient /\ FromFile # NoClient
  /\ \A c \in Command : Registered(c) \in Identity /\ Registered(c) # NoClient
  /\ NoToken \in Bearer
  /\ \A c \in Command, client \in Identity : Granted(c, client) \in Bearer /\ Granted(c, client) # NoToken
                                             /\ Granted(c, client)[2] = client
  BY DEF NoClient, FromConfig, FromFile, Registered, Identity, NoToken, Granted, Bearer

\* A configured identity is resolved without the keyring.
LEMMA ResolveFacts ==
  ASSUME NEW kept \in Identity
  PROVE  /\ setting.client => ResolveIdentity(kept) = FromConfig
         /\ ~setting.client /\ setting.file => ResolveIdentity(kept) = FromFile
         /\ ~setting.client /\ ~setting.file => ResolveIdentity(kept) = kept
  BY DEF ResolveIdentity

\* A setting is one of Settings.
LEMMA SettingFacts ==
  ASSUME LoginInv
  PROVE  setting.client \in BOOLEAN /\ setting.file \in BOOLEAN /\ setting \in Settings
  BY OAuthAssumption DEF LoginInv, OAuthTypes, IsSetting

\* The parts of a command.
LEMMA RunFacts ==
  ASSUME LoginInv, NEW c \in Command
  PROVE  /\ RunFits(c, command[c]) /\ command[c] \in Run /\ command[c].at \in Places
         /\ command[c].client \in Identity /\ command[c].token \in Bearer
         /\ command[c].answers \in Seq(Answer) /\ command[c].answer \in {<<>>} \cup Answer
  BY DEF LoginInv, RunFits, Run

\* A token that a login was given names it and its identity.
LEMMA OwnFacts ==
  ASSUME LoginInv, NEW t, Own(t), t # NoToken
  PROVE  t \in Bearer /\ \E c \in Command : command[c].kind \in Logins /\ t = Granted(c, command[c].client)
                                           /\ command[c].client # NoClient /\ t[2] = command[c].client
<1>1. PICK c \in Command : command[c].kind \in Logins /\ command[c].token = t
  BY DEF Own
<1>2. command[c].token = Granted(c, command[c].client) /\ command[c].client # NoClient
  BY <1>1, RunFacts DEF RunFits
<1>3. command[c].client \in Identity /\ command[c].token \in Bearer
  BY RunFacts
<1>. QED
  BY <1>1, <1>2, <1>3, IdentityFacts

\* A command that has no token yet, or keeps the one it has.
Keeps(c, q) == command[c].kind \in Logins /\ command[c].token # NoToken =>
                   q.kind \in Logins /\ q.token = command[c].token

\* One command goes on: every other is as it was, and no token is lost.
LEMMA OneRun ==
  ASSUME LoginInv, NEW c \in Command, NEW q, command' = [command EXCEPT ![c] = q], setting' = setting,
         RunFits(c, q), Keeps(c, q)
  PROVE  /\ DOMAIN command' = Command /\ command'[c] = q /\ \A d \in Command : d # c => command'[d] = command[d]
         /\ \A d \in Command : RunFits(d, command[d])'
         /\ \A t : t # NoToken /\ Own(t) => Own(t)'
<1>1. DOMAIN command = Command
  BY DEF LoginInv, OAuthTypes
<1>2. DOMAIN command' = Command /\ command'[c] = q /\ \A d \in Command : d # c => command'[d] = command[d]
  BY <1>1
<1>3. ASSUME NEW d \in Command PROVE RunFits(d, command[d])'
  <2>1. RunFits(d, command[d])
    BY RunFacts
  <2>2. CASE d = c
    BY <1>2, <2>2 DEF RunFits
  <2>3. CASE d # c
    BY <1>2, <2>1, <2>3 DEF RunFits
  <2>. QED
    BY <2>2, <2>3
<1>4. ASSUME NEW t, t # NoToken, Own(t) PROVE Own(t)'
  <2>1. PICK d \in Command : command[d].kind \in Logins /\ command[d].token = t
    BY <1>4 DEF Own
  <2>2. command'[d].kind \in Logins /\ command'[d].token = t
    BY <1>2, <1>4, <2>1 DEF Keeps
  <2>. QED
    BY <2>2 DEF Own
<1>. QED
  BY <1>2, <1>3, <1>4

\* A token goes to where it is kept.
LEMMA OwnKept ==
  ASSUME AllOwn, \A t : t # NoToken /\ Own(t) => Own(t)',
         keyring'.token = keyring.token \/ (keyring'.token # NoToken => Own(keyring.token)'),
         gw'.token = gw.token \/ (gw'.token # NoToken => Own(gw.token)'),
         NEW new, overdue' \subseteq overdue \cup {new},
         new \in overdue' => \/ new[1] = "token" /\ new[2] \in Bearer /\ (new[2] # NoToken => Own(new[2])')
                             \/ new[1] = "client" /\ new[2] \in Identity
  PROVE  AllOwn'
<1>1. keyring'.token # NoToken => Own(keyring.token)'
  BY DEF AllOwn
<1>2. gw'.token # NoToken => Own(gw.token)'
  BY DEF AllOwn
<1>3. ASSUME NEW op \in overdue'
      PROVE  \/ op[1] = "token" /\ op[2] \in Bearer /\ (op[2] # NoToken => Own(op[2])')
             \/ op[1] = "client" /\ op[2] \in Identity
  BY <1>3 DEF AllOwn
<1>. QED
  BY <1>1, <1>2, <1>3 DEF AllOwn

\* Without a call of the keyring.
LEMMA QuietStep ==
  ASSUME LoginInv, NEW c \in Command, NEW q, command' = [command EXCEPT ![c] = q], setting' = setting, gw' = gw,
         KeepKeyring, port' \in Command \cup {0}, RunFits(c, q), Keeps(c, q), ~Over(c),
         ~disturbed => Knowing(q)
  PROVE  LoginInv'
<1>1. /\ DOMAIN command' = Command /\ command'[c] = q /\ \A d \in Command : d # c => command'[d] = command[d]
      /\ \A d \in Command : RunFits(d, command[d])'
      /\ \A t : t # NoToken /\ Own(t) => Own(t)'
  BY OneRun
<1>2. keyring' = keyring /\ overdue' = overdue /\ disturbed' = disturbed
  BY DEF KeepKeyring
<1>3. OAuthTypes' /\ OAuthTypes /\ AllOwn /\ Undisturbed
  BY <1>1, <1>2 DEF LoginInv, OAuthTypes
<1>4. AllOwn'
  BY <1>1, <1>2, <1>3 DEF AllOwn
<1>5. Undisturbed'
  <2> SUFFICES ASSUME ~disturbed
               PROVE  /\ overdue' = {} /\ Matching' /\ \A d \in Command : Knowing(command[d])'
                      /\ \A d, e \in Command : ~Over(d)' /\ ~Over(e)' => d = e
                      /\ gw'.token # NoToken => gw'.token = keyring'.token /\ \A d \in Command : Over(d)'
    BY <1>2 DEF Undisturbed
  <2>1. /\ overdue = {} /\ Matching /\ \A d \in Command : Knowing(command[d])
        /\ \A d, e \in Command : ~Over(d) /\ ~Over(e) => d = e
        /\ gw.token # NoToken => gw.token = keyring.token /\ \A d \in Command : Over(d)
    BY <1>3 DEF Undisturbed
  <2>2. \A d \in Command : d # c => (Over(d)' <=> Over(d))
    BY <1>1 DEF Over
  <2>3. ASSUME NEW d \in Command PROVE Knowing(command[d])'
    <3>1. Knowing(command'[d])
      BY <1>1, <2>1
    <3>. QED
      BY <1>2, <3>1 DEF Knowing, ResolveIdentity
  <2>4. Matching'
    BY <1>2, <2>1 DEF Matching, ResolveIdentity
  <2>5. \A d, e \in Command : ~Over(d)' /\ ~Over(e)' => d = e
    BY <2>1, <2>2
  <2>. QED
    BY <1>2, <2>1, <2>3, <2>4, <2>5
<1>. QED
  BY <1>1, <1>3, <1>4, <1>5 DEF LoginInv

\* After a call of the keyring that failed or was given up.
LEMMA FaultyStep ==
  ASSUME LoginInv, NEW c \in Command, NEW q, command' = [command EXCEPT ![c] = q], setting' = setting, gw' = gw,
         disturbed' = TRUE, keyring' = keyring, port' \in Command \cup {0}, RunFits(c, q), Keeps(c, q),
         NEW new, overdue' \subseteq overdue \cup {new},
         \/ new[1] = "token" /\ new[2] \in Bearer /\ (new[2] # NoToken => Own(new[2]))
         \/ new[1] = "client" /\ new[2] \in Identity
  PROVE  LoginInv'
<1>1. /\ DOMAIN command' = Command /\ \A d \in Command : RunFits(d, command[d])'
      /\ \A t : t # NoToken /\ Own(t) => Own(t)'
  BY OneRun
<1>2. OAuthTypes'
  BY <1>1 DEF LoginInv, OAuthTypes
<1>3. AllOwn'
  <2>1. AllOwn
    BY DEF LoginInv
  <2>2. \A t : t # NoToken /\ Own(t) => Own(t)'
    BY <1>1
  <2>3. new[1] = "token" /\ new[2] # NoToken => Own(new[2])'
    BY <2>2
  <2>4. keyring'.token # NoToken => Own(keyring.token)'
    BY <2>1, <2>2 DEF AllOwn
  <2>5. gw'.token # NoToken => Own(gw.token)'
    BY <2>1, <2>2 DEF AllOwn
  <2>6. ASSUME NEW op \in overdue'
        PROVE  \/ op[1] = "token" /\ op[2] \in Bearer /\ (op[2] # NoToken => Own(op[2])')
               \/ op[1] = "client" /\ op[2] \in Identity
    <3>1. CASE op \in overdue
      BY <2>1, <2>2, <3>1 DEF AllOwn
    <3>2. CASE op = new
      BY <2>3, <3>2
    <3>. QED
      BY <2>6, <3>1, <3>2
  <2>. QED
    BY <2>4, <2>5, <2>6 DEF AllOwn
<1>4. Undisturbed'
  BY DEF Undisturbed
<1>. QED
  BY <1>1, <1>2, <1>3, <1>4 DEF LoginInv

\* After a call of the keyring that failed and leaves nothing behind.
LEMMA FailedRead ==
  ASSUME LoginInv, NEW c \in Command, NEW q, command' = [command EXCEPT ![c] = q], setting' = setting, gw' = gw,
         disturbed' = TRUE, keyring' = keyring, overdue' = overdue, port' \in Command \cup {0}, RunFits(c, q), Keeps(c, q)
  PROVE  LoginInv'
<1>1. PICK new : new = <<"client", NoClient>>
  OBVIOUS
<1>2. new[1] = "client" /\ new[2] \in Identity
  BY <1>1, IdentityFacts
<1>3. overdue' \subseteq overdue \cup {new}
  OBVIOUS
<1>. QED
  BY <1>2, <1>3, FaultyStep

\* After a call of the keyring that succeeded.
LEMMA AnsweredStep ==
  ASSUME LoginInv, NEW c \in Command, NEW q, command' = [command EXCEPT ![c] = q], setting' = setting, gw' = gw,
         disturbed' = disturbed, overdue' = overdue, port' \in Command \cup {0}, RunFits(c, q), Keeps(c, q), ~Over(c),
         keyring' \in [token : Bearer, client : Identity],
         NEW token, keyring'.token = token, token \in {keyring.token, NoToken} \/ Own(token),
         ~disturbed => Knowing(q)' /\ Matching'
  PROVE  LoginInv'
<1>1. /\ DOMAIN command' = Command /\ command'[c] = q /\ \A d \in Command : d # c => command'[d] = command[d]
      /\ \A d \in Command : RunFits(d, command[d])'
      /\ \A t : t # NoToken /\ Own(t) => Own(t)'
  BY OneRun
<1>2. OAuthTypes'
  BY <1>1 DEF LoginInv, OAuthTypes
<1>3. AllOwn'
  <2>1. AllOwn
    BY DEF LoginInv
  <2>2. keyring'.token = keyring.token \/ (keyring'.token # NoToken => Own(keyring.token)')
    <3>1. token # NoToken /\ Own(token) => Own(token)'
      BY <1>1
    <3>2. Own(token)' => Own(keyring.token)'
      BY DEF Own
    <3>. QED
      BY <3>1, <3>2
  <2>3. overdue' \subseteq overdue \cup {<<"client", NoClient>>}
    OBVIOUS
  <2>4. \/ <<"client", NoClient>>[1] = "token" /\ <<"client", NoClient>>[2] \in Bearer
           /\ (<<"client", NoClient>>[2] # NoToken => Own(<<"client", NoClient>>[2])')
        \/ <<"client", NoClient>>[1] = "client" /\ <<"client", NoClient>>[2] \in Identity
    BY IdentityFacts
  <2>. QED
    BY <1>1, <2>1, <2>2, <2>3, <2>4, OwnKept
<1>4. Undisturbed'
  <2> SUFFICES ASSUME ~disturbed
               PROVE  /\ overdue' = {} /\ Matching' /\ \A d \in Command : Knowing(command[d])'
                      /\ \A d, e \in Command : ~Over(d)' /\ ~Over(e)' => d = e
                      /\ gw'.token # NoToken => gw'.token = keyring'.token /\ \A d \in Command : Over(d)'
    BY DEF Undisturbed
  <2>1. /\ overdue = {} /\ \A d, e \in Command : ~Over(d) /\ ~Over(e) => d = e
        /\ gw.token # NoToken => \A d \in Command : Over(d)
    BY DEF LoginInv, Undisturbed
  <2>2. \A d \in Command : d # c => (Over(d)' <=> Over(d))
    BY <1>1 DEF Over
  <2>3. gw'.token = NoToken
    BY <2>1
  <2>4. ASSUME NEW d \in Command PROVE Knowing(command[d])'
    <3>1. CASE d = c
      BY <1>1, <3>1 DEF Knowing, ResolveIdentity
    <3>2. CASE d # c
      <4>1. Over(d) /\ command'[d] = command[d]
        BY <1>1, <2>1, <3>2
      <4>. QED
        BY <4>1 DEF Over, Knowing
    <3>. QED
      BY <3>1, <3>2
  <2>5. \A d, e \in Command : ~Over(d)' /\ ~Over(e)' => d = e
    BY <2>1, <2>2
  <2>. QED
    BY <2>1, <2>3, <2>4, <2>5
<1>. QED
  BY <1>1, <1>2, <1>3, <1>4 DEF LoginInv

\* Only the place of a command changes.
LEMMA Moved ==
  ASSUME LoginInv, NEW c \in Command, NEW place \in Places, Moves(c, place),
         place \in {"ok", "error"} \/ RunFits(c, [command[c] EXCEPT !.at = place])
  PROVE  /\ command' = [command EXCEPT ![c] = [command[c] EXCEPT !.at = place]]
         /\ RunFits(c, [command[c] EXCEPT !.at = place]) /\ Keeps(c, [command[c] EXCEPT !.at = place])
         /\ [command[c] EXCEPT !.at = place].at = place
         /\ [command[c] EXCEPT !.at = place].client = command[c].client
         /\ [command[c] EXCEPT !.at = place].token = command[c].token
<1>1. command[c] \in Run /\ RunFits(c, command[c])
  BY RunFacts
<1>2. PICK q : q = [command[c] EXCEPT !.at = place]
  OBVIOUS
<1>3. /\ q \in Run /\ q.at = place /\ q.client = command[c].client /\ q.token = command[c].token
      /\ q.kind = command[c].kind /\ q.answer = command[c].answer
  BY <1>1, <1>2 DEF Run
<1>4. place \in {"ok", "error"} => RunFits(c, q)
  BY <1>1, <1>3 DEF RunFits, Browsing
<1>5. command' = [command EXCEPT ![c] = [command[c] EXCEPT !.at = place]]
  BY DEF Moves
<1>. QED
  BY <1>2, <1>3, <1>4, <1>5 DEF Keeps

\* A command begins.
LEMMA BeginStep ==
  ASSUME LoginInv, NEW c \in Command, NEW kind \in {"login", "device", "logout", "export"}, Begin(c, kind)
  PROVE  LoginInv'
<1>1. /\ command[c].at = "idle" /\ setting' = setting /\ gw' = gw /\ keyring' = keyring /\ overdue' = overdue
      /\ disturbed' = (disturbed \/ gw.token # NoToken \/ \E d \in Command : ~Over(d))
      /\ port' \in Command \cup {0}
  BY DEF Begin, IsAt, KeepGw, LoginInv, OAuthTypes
<1>2. PICK place \in Places :
        /\ command' = [command EXCEPT ![c] = [command[c] EXCEPT !.kind = kind, !.at = place]]
        /\ \/ kind = "login" /\ place \in {"identify", "error"}
           \/ kind = "device" /\ ((place = "discover" /\ setting.client) \/ place = "error")
           \/ kind = "logout" /\ place = "delete token"
           \/ kind = "export" /\ place = "read token"
  <2>1. DOMAIN command = Command
    BY DEF LoginInv, OAuthTypes
  <2>2. PICK place : /\ place = CASE kind = "login" -> IF port = 0 THEN "identify" ELSE "error"
                                [] kind = "device" -> IF setting.client THEN "discover" ELSE "error"
                                [] kind = "logout" -> "delete token"
                                [] kind = "export" -> "read token"
                     /\ command' = [command EXCEPT ![c].kind = kind, ![c].at = place]
    BY DEF Begin
  <2>3. command' = [command EXCEPT ![c] = [command[c] EXCEPT !.kind = kind, !.at = place]]
    BY <2>1, <2>2
  <2>4. /\ place \in Places
        /\ \/ kind = "login" /\ place \in {"identify", "error"}
           \/ kind = "device" /\ ((place = "discover" /\ setting.client) \/ place = "error")
           \/ kind = "logout" /\ place = "delete token"
           \/ kind = "export" /\ place = "read token"
    BY <2>2 DEF Places
  <2>. QED
    BY <2>3, <2>4
<1>3. PICK q : q = [command[c] EXCEPT !.kind = kind, !.at = place]
  OBVIOUS
<1>4. RunFits(c, command[c]) /\ command[c] \in Run /\ command[c].token = NoToken
  BY <1>1, RunFacts DEF RunFits
<1>5. q \in Run /\ q.at = place /\ q.kind = kind /\ q.token = NoToken
  BY <1>2, <1>3, <1>4 DEF Run, Logins
<1>6. RunFits(c, q) /\ Keeps(c, q)
  BY <1>2, <1>4, <1>5 DEF RunFits, Keeps, Browsing
<1>7. /\ DOMAIN command' = Command /\ command'[c] = q /\ \A d \in Command : d # c => command'[d] = command[d]
      /\ \A d \in Command : RunFits(d, command[d])'
      /\ \A t : t # NoToken /\ Own(t) => Own(t)'
  BY <1>1, <1>2, <1>3, <1>6, OneRun
<1>8. disturbed' \in BOOLEAN
  BY <1>1
<1>9. OAuthTypes'
  BY <1>1, <1>7, <1>8 DEF LoginInv, OAuthTypes
<1>10. AllOwn'
  BY <1>1, <1>7 DEF LoginInv, AllOwn
<1>11. Undisturbed'
  <2> SUFFICES ASSUME ~disturbed'
               PROVE  /\ overdue' = {} /\ Matching' /\ \A d \in Command : Knowing(command[d])'
                      /\ \A d, e \in Command : ~Over(d)' /\ ~Over(e)' => d = e
                      /\ gw'.token # NoToken => gw'.token = keyring'.token /\ \A d \in Command : Over(d)'
    BY DEF Undisturbed
  <2>1. ~disturbed /\ gw.token = NoToken /\ \A d \in Command : Over(d)
    BY <1>1
  <2>2. overdue = {} /\ Matching
    BY <2>1 DEF LoginInv, Undisturbed
  <2>3. Matching'
    BY <1>1, <2>2 DEF Matching, ResolveIdentity
  <2>4. \A d \in Command : d # c => Over(d)'
    BY <1>7, <2>1 DEF Over
  <2>5. ASSUME NEW d \in Command PROVE Knowing(command[d])'
    <3>1. CASE d = c
      BY <1>2, <1>5, <1>7, <3>1 DEF Knowing
    <3>2. CASE d # c
      BY <2>4, <3>2 DEF Knowing, Over
    <3>. QED
      BY <3>1, <3>2
  <2>. QED
    BY <1>1, <2>1, <2>2, <2>3, <2>4, <2>5
<1>. QED
  BY <1>7, <1>9, <1>10, <1>11 DEF LoginInv

\* An identity is configured, read from the keyring or registered.
LEMMA IdentifyStep ==
  ASSUME LoginInv, NEW c \in Command, Identify(c)
  PROVE  LoginInv'
<1>1. /\ command[c].at = "identify" /\ setting' = setting /\ gw' = gw /\ KeepKeyring /\ port' = port
      /\ command' = [command EXCEPT ![c].client = IF setting.client THEN FromConfig ELSE IF setting.file THEN FromFile ELSE NoClient,
                          ![c].at = IF setting.client \/ setting.file THEN "check" ELSE "lookup"]
  BY DEF Identify, IsAt, KeepGw
<1>2. PICK who, place :
        /\ who = IF setting.client THEN FromConfig ELSE IF setting.file THEN FromFile ELSE NoClient
        /\ place = IF setting.client \/ setting.file THEN "check" ELSE "lookup"
  OBVIOUS
<1>3. PICK q : q = [command[c] EXCEPT !.client = who, !.at = place]
  OBVIOUS
<1>4. command' = [command EXCEPT ![c] = q]
  BY <1>1, <1>2, <1>3 DEF LoginInv, OAuthTypes
<1>5. RunFits(c, command[c]) /\ command[c] \in Run /\ command[c].token = NoToken /\ command[c].kind = "login"
  BY <1>1, RunFacts DEF RunFits, Browsing
<1>6. who \in Identity /\ place \in Places
  BY <1>2, IdentityFacts DEF Places
<1>7. q \in Run /\ q.at = place /\ q.client = who /\ q.token = NoToken /\ q.kind = "login"
  BY <1>3, <1>5, <1>6 DEF Run
<1>8. place = "check" => who # NoClient
  BY <1>2, IdentityFacts
<1>9. RunFits(c, q) /\ Keeps(c, q)
  BY <1>2, <1>5, <1>7, <1>8 DEF RunFits, Keeps, Browsing
<1>10. Knowing(q)
  BY <1>2, <1>7 DEF Knowing, ResolveIdentity
<1>11. ~Over(c) /\ port' \in Command \cup {0}
  BY <1>1 DEF Over, LoginInv, OAuthTypes
<1>. QED
  BY <1>1, <1>4, <1>9, <1>10, <1>11, QuietStep

\* The registration of an earlier login, if there is one.
LEMMA LookupStep ==
  ASSUME LoginInv, NEW c \in Command, Lookup(c)
  PROVE  LoginInv'
<1>1. /\ command[c].at = "lookup" /\ setting' = setting /\ gw' = gw /\ port' = port
      /\ ~Over(c) /\ port' \in Command \cup {0}
  BY DEF Lookup, IsAt, KeepGw, Over, LoginInv, OAuthTypes
<1>2. /\ RunFits(c, command[c]) /\ command[c] \in Run /\ command[c].token = NoToken /\ command[c].kind = "login"
      /\ ~setting.client /\ ~setting.file
  BY <1>1, RunFacts DEF RunFits, Browsing
<1>3. keyring.client \in Identity
  BY DEF LoginInv, OAuthTypes
<1>4. CASE /\ command' = [command EXCEPT ![c].client = keyring.client,
                                ![c].at = IF keyring.client = NoClient THEN "register" ELSE "check"]
           /\ KeepKeyring
  <2>1. PICK who, place : who = keyring.client /\ place = IF keyring.client = NoClient THEN "register" ELSE "check"
    OBVIOUS
  <2>2. PICK q : q = [command[c] EXCEPT !.client = who, !.at = place]
    OBVIOUS
  <2>3. command' = [command EXCEPT ![c] = q]
    BY <1>4, <2>1, <2>2 DEF LoginInv, OAuthTypes
  <2>4. who \in Identity /\ place \in Places
    BY <1>3, <2>1 DEF Places
  <2>5. q \in Run /\ q.at = place /\ q.client = who /\ q.token = NoToken /\ q.kind = "login"
    BY <1>2, <2>2, <2>4 DEF Run
  <2>6. RunFits(c, q) /\ Keeps(c, q)
    BY <1>2, <2>1, <2>5 DEF RunFits, Keeps, Browsing
  <2>7. Knowing(q)
    BY <1>2, <2>1, <2>5 DEF Knowing, ResolveIdentity
  <2>. QED
    BY <1>1, <1>4, <2>3, <2>6, <2>7, QuietStep
<1>5. CASE KeyringReadFails(Moves(c, "register"))
  <2>1. PICK q : q = [command[c] EXCEPT !.at = "register"]
    OBVIOUS
  <2>2. command' = [command EXCEPT ![c] = q] /\ disturbed' = TRUE /\ keyring' = keyring /\ overdue' = overdue
    BY <1>5, <2>1 DEF KeyringReadFails, Moves, LoginInv, OAuthTypes
  <2>3. q \in Run /\ q.at = "register" /\ q.token = NoToken /\ q.kind = "login"
    BY <1>2, <2>1 DEF Run, Places
  <2>4. RunFits(c, q) /\ Keeps(c, q)
    BY <1>2, <2>3 DEF RunFits, Keeps, Browsing
  <2>. QED
    BY <1>1, <2>2, <2>4, FailedRead
<1>. QED
  BY <1>4, <1>5 DEF Lookup

\* A step that only moves a command, with its listener or without.
LEMMA OnlyMoves ==
  ASSUME LoginInv, NEW c \in Command, NEW place \in Places, Moves(c, place), setting' = setting, gw' = gw,
         KeepKeyring, port' \in {port, 0}, ~Over(c),
         place \in {"ok", "error"} \/ RunFits(c, [command[c] EXCEPT !.at = place]),
         ~disturbed => Knowing([command[c] EXCEPT !.at = place])
  PROVE  LoginInv'
<1>1. port' \in Command \cup {0}
  BY DEF LoginInv, OAuthTypes
<1>2. PICK q : q = [command[c] EXCEPT !.at = place]
  OBVIOUS
<1>3. command' = [command EXCEPT ![c] = q] /\ RunFits(c, q) /\ Keeps(c, q) /\ (~disturbed => Knowing(q))
  BY <1>2, Moved
<1>. QED
  BY <1>1, <1>3, QuietStep

\* A command that ends knows nothing.
LEMMA EndKnows ==
  ASSUME LoginInv, NEW c \in Command, NEW place \in {"ok", "error"}
  PROVE  Knowing([command[c] EXCEPT !.at = place])
  BY RunFacts DEF Knowing, Run

\* A command ends, by itself or because something failed.
LEMMA EndStep ==
  ASSUME LoginInv, NEW c \in Command, NEW place \in {"ok", "error"}, Moves(c, place), setting' = setting, gw' = gw,
         KeepKeyring, port' \in {port, 0}, ~Over(c)
  PROVE  LoginInv'
<1>1. place \in Places
  BY DEF Places
<1>. QED
  BY <1>1, EndKnows, OnlyMoves

\* The listener of a login that ends.
LEMMA QuitFacts ==
  ASSUME NEW c, NEW place, Quit(c, place)
  PROVE  Moves(c, place) /\ port' \in {port, 0}
  BY DEF Quit

\* Dynamic registration.
LEMMA RegisterStep ==
  ASSUME LoginInv, NEW c \in Command, RegisterClient(c)
  PROVE  LoginInv'
<1>1. /\ command[c].at = "register" /\ setting' = setting /\ gw' = gw /\ KeepKeyring /\ ~Over(c)
  BY DEF RegisterClient, IsAt, KeepGw, Over
<1>2. CASE Quit(c, "error")
  BY <1>1, <1>2, QuitFacts, EndStep
<1>3. CASE command' = [command EXCEPT ![c].client = Registered(c), ![c].at = "save client"] /\ UNCHANGED port
  <2>1. PICK who : who = Registered(c)
    OBVIOUS
  <2>2. PICK q : q = [command[c] EXCEPT !.client = who, !.at = "save client"]
    OBVIOUS
  <2>3. command' = [command EXCEPT ![c] = q] /\ port' \in Command \cup {0}
    BY <1>3, <2>1, <2>2 DEF LoginInv, OAuthTypes
  <2>4. /\ RunFits(c, command[c]) /\ command[c] \in Run /\ command[c].token = NoToken /\ command[c].kind = "login"
        /\ ~setting.client /\ ~setting.file
    BY <1>1, RunFacts DEF RunFits, Browsing
  <2>5. who \in Identity
    BY <2>1, IdentityFacts
  <2>6. q \in Run /\ q.at = "save client" /\ q.client = who /\ q.token = NoToken /\ q.kind = "login"
    BY <2>2, <2>4, <2>5 DEF Run, Places
  <2>7. RunFits(c, q) /\ Keeps(c, q)
    BY <2>1, <2>4, <2>6 DEF RunFits, Keeps, Browsing
  <2>8. ~disturbed => keyring.client = NoClient
    BY <1>1 DEF LoginInv, Undisturbed, Knowing
  <2>9. ~disturbed => Knowing(q)
    BY <2>6, <2>8 DEF Knowing
  <2>. QED
    BY <1>1, <2>3, <2>7, <2>9, QuietStep
<1>. QED
  BY <1>2, <1>3 DEF RegisterClient

\* The keyring is asked to keep a value or to forget one.
LEMMA CallFacts ==
  ASSUME LoginInv, NEW field \in {"token", "client"}, NEW value, NEW c \in Command, NEW place,
         KeyringCall(field, value, Moves(c, place), Moves(c, place))
  PROVE  /\ Moves(c, place)
         /\ \/ keyring' = [keyring EXCEPT ![field] = value] /\ overdue' = overdue /\ disturbed' = disturbed
            \/ keyring' = keyring /\ disturbed' = TRUE /\ overdue' \subseteq overdue \cup {<<field, value>>}
  BY DEF KeyringCall

\* The registration is kept.
LEMMA PersistStep ==
  ASSUME LoginInv, NEW c \in Command, PersistClient(c)
  PROVE  LoginInv'
<1>1. /\ command[c].at = "save client" /\ setting' = setting /\ gw' = gw /\ port' \in Command \cup {0} /\ ~Over(c)
      /\ KeyringCall("client", command[c].client, Moves(c, "check"), Moves(c, "check"))
  BY DEF PersistClient, IsAt, KeepGw, Over, LoginInv, OAuthTypes
<1>2. /\ RunFits(c, command[c]) /\ command[c] \in Run /\ command[c].token = NoToken /\ command[c].kind = "login"
      /\ ~setting.client /\ ~setting.file /\ command[c].client = Registered(c) /\ command[c].client \in Identity
  BY <1>1, RunFacts DEF RunFits, Browsing
<1>3. PICK who : who = command[c].client
  OBVIOUS
<1>4. who \in Identity /\ who # NoClient
  BY <1>2, <1>3, IdentityFacts
<1>5. /\ Moves(c, "check")
      /\ \/ keyring' = [keyring EXCEPT !["client"] = who] /\ overdue' = overdue /\ disturbed' = disturbed
         \/ keyring' = keyring /\ disturbed' = TRUE /\ overdue' \subseteq overdue \cup {<<"client", who>>}
  BY <1>1, <1>3, CallFacts
<1>6. PICK q : q = [command[c] EXCEPT !.at = "check"]
  OBVIOUS
<1>7. command' = [command EXCEPT ![c] = q]
  BY <1>5, <1>6 DEF Moves, LoginInv, OAuthTypes
<1>8. q \in Run /\ q.at = "check" /\ q.client = who /\ q.token = NoToken /\ q.kind = "login"
  BY <1>2, <1>3, <1>6 DEF Run, Places
<1>9. RunFits(c, q) /\ Keeps(c, q)
  BY <1>2, <1>4, <1>8 DEF RunFits, Keeps, Browsing
<1>10. CASE keyring' = [keyring EXCEPT !["client"] = who] /\ overdue' = overdue /\ disturbed' = disturbed
  <2>1. keyring' \in [token : Bearer, client : Identity] /\ keyring'.token = keyring.token /\ keyring'.client = who
        /\ keyring.token \in Bearer
    BY <1>4, <1>10 DEF LoginInv, OAuthTypes
  <2>2. Knowing(q)'
    BY <1>1, <1>2, <1>8, <2>1 DEF Knowing, ResolveIdentity
  <2>3. ASSUME ~disturbed PROVE Matching'
    <3>1. keyring.client = NoClient /\ Matching
      BY <1>1, <2>3 DEF LoginInv, Undisturbed, Knowing
    <3>2. ASSUME keyring.token # NoToken PROVE FALSE
      <4>1. keyring.token[2] = NoClient
        BY <1>2, <3>1, <3>2 DEF Matching, ResolveIdentity
      <4>2. Own(keyring.token)
        BY <3>2 DEF LoginInv, AllOwn
      <4>. QED
        BY <3>2, <4>1, <4>2, OwnFacts
    <3>. QED
      BY <2>1, <3>2 DEF Matching
  <2>. QED
    BY <1>1, <1>7, <1>9, <1>10, <2>1, <2>2, <2>3, AnsweredStep
<1>11. CASE keyring' = keyring /\ disturbed' = TRUE /\ overdue' \subseteq overdue \cup {<<"client", who>>}
  <2>1. PICK new : new = <<"client", who>>
    OBVIOUS
  <2>2. new[1] = "client" /\ new[2] \in Identity /\ overdue' \subseteq overdue \cup {new}
    BY <1>4, <1>11, <2>1
  <2>. QED
    BY <1>1, <1>7, <1>9, <1>11, <2>2, FaultyStep
<1>. QED
  BY <1>5, <1>10, <1>11

\* A login that goes on from one place of the browser to the next.
LEMMA BrowserStep ==
  ASSUME LoginInv, NEW c \in Command, OpenBrowser(c) \/ ShutDown(c) \/ WaitTimesOut(c)
  PROVE  LoginInv'
<1>1. /\ command[c].at \in {"check", "wait", "shut"} /\ setting' = setting /\ gw' = gw /\ KeepKeyring /\ ~Over(c)
  BY DEF OpenBrowser, ShutDown, WaitTimesOut, IsAt, KeepGw, Over
<1>2. PICK place \in {"wait", "exchange", "error"} :
        /\ Moves(c, place) /\ port' \in {port, 0} /\ (place = "exchange" => Accept(c))
  BY QuitFacts DEF OpenBrowser, ShutDown, WaitTimesOut
<1>3. CASE place = "error"
  BY <1>1, <1>2, <1>3, EndStep
<1>4. CASE place # "error"
  <2>1. /\ RunFits(c, command[c]) /\ command[c] \in Run /\ command[c].token = NoToken /\ command[c].kind = "login"
        /\ command[c].client # NoClient
    BY <1>1, RunFacts DEF RunFits, Browsing
  <2>2. PICK q : q = [command[c] EXCEPT !.at = place]
    OBVIOUS
  <2>3. /\ q \in Run /\ q.at = place /\ q.client = command[c].client /\ q.token = NoToken /\ q.kind = "login"
        /\ q.answer = command[c].answer
    BY <2>1, <2>2 DEF Run, Places
  <2>4. RunFits(c, q)
    BY <1>2, <1>4, <2>1, <2>3 DEF RunFits, Browsing, Accept
  <2>5. ~disturbed => command[c].client = ResolveIdentity(keyring.client)
    BY <1>1 DEF LoginInv, Undisturbed, Knowing
  <2>6. ~disturbed => Knowing(q)
    BY <1>2, <1>4, <2>3, <2>5 DEF Knowing
  <2>7. place \in Places
    BY DEF Places
  <2>. QED
    BY <1>1, <1>2, <2>2, <2>4, <2>6, <2>7, OnlyMoves
<1>. QED
  BY <1>3, <1>4

\* The user answers: the login that listens has an answer more.
LEMMA AnswerStep ==
  ASSUME LoginInv, NEW t \in Command, NEW granted \in BOOLEAN, UserAnswers(t, granted)
  PROVE  LoginInv'
<1>1. /\ port # 0 /\ command[port].at = "wait" /\ setting' = setting /\ gw' = gw /\ port' = port
      /\ keyring' = keyring /\ overdue' = overdue /\ disturbed' = disturbed
      /\ command' = [command EXCEPT ![port].answers = Append(@, <<t, granted>>)]
  BY DEF UserAnswers, KeepGw
<1>2. PICK c \in Command : c = port
  BY <1>1 DEF LoginInv, OAuthTypes
<1>3. PICK new : new = Append(command[c].answers, <<t, granted>>)
  OBVIOUS
<1>4. PICK q : q = [command[c] EXCEPT !.answers = new]
  OBVIOUS
<1>5. command' = [command EXCEPT ![c] = q]
  BY <1>1, <1>2, <1>3, <1>4 DEF LoginInv, OAuthTypes
<1>6. RunFits(c, command[c]) /\ command[c] \in Run
  BY RunFacts
<1>7. new \in Seq(Answer)
  BY <1>3, RunFacts DEF Answer
<1>8. /\ q \in Run /\ q.at = command[c].at /\ q.client = command[c].client /\ q.token = command[c].token
      /\ q.kind = command[c].kind /\ q.answer = command[c].answer
  BY <1>4, <1>6, <1>7 DEF Run
<1>9. RunFits(c, q) /\ Keeps(c, q)
  BY <1>6, <1>8 DEF RunFits, Keeps
<1>10. ~disturbed => Knowing(q)
  BY <1>8 DEF LoginInv, Undisturbed, Knowing
<1>11. ~Over(c) /\ port' \in Command \cup {0}
  BY <1>1, <1>2 DEF Over
<1>12. /\ DOMAIN command' = Command /\ command'[c] = q /\ \A d \in Command : d # c => command'[d] = command[d]
       /\ \A d \in Command : RunFits(d, command[d])'
       /\ \A x : x # NoToken /\ Own(x) => Own(x)'
  BY <1>1, <1>5, <1>9, OneRun
<1>13. OAuthTypes'
  BY <1>1, <1>12 DEF LoginInv, OAuthTypes
<1>14. AllOwn'
  BY <1>1, <1>12 DEF LoginInv, AllOwn
<1>15. \A d \in Command : Over(d)' <=> Over(d)
  BY <1>8, <1>12 DEF Over
<1>16. ASSUME ~disturbed, NEW d \in Command PROVE Knowing(command[d])'
  <2>1. Knowing(command'[d])
    BY <1>10, <1>12, <1>16 DEF LoginInv, Undisturbed
  <2>. QED
    BY <1>1, <2>1 DEF Knowing, ResolveIdentity
<1>17. Matching => Matching'
  BY <1>1 DEF Matching, ResolveIdentity
<1>18. Undisturbed'
  BY <1>1, <1>15, <1>16, <1>17 DEF LoginInv, Undisturbed
<1>. QED
  BY <1>12, <1>13, <1>14, <1>18 DEF LoginInv

\* The first answer is taken.
LEMMA ReceiveStep ==
  ASSUME LoginInv, NEW c \in Command, Receive(c)
  PROVE  LoginInv'
<1>1. /\ command[c].at = "wait" /\ command[c].answers # <<>> /\ setting' = setting /\ gw' = gw /\ KeepKeyring
      /\ port' \in Command \cup {0} /\ ~Over(c)
      /\ command' = [command EXCEPT ![c].at = "shut", ![c].answer = Head(command[c].answers), ![c].answers = Tail(@)]
  BY DEF Receive, IsAt, KeepGw, Over, LoginInv, OAuthTypes
<1>2. PICK first, rest : first = Head(command[c].answers) /\ rest = Tail(command[c].answers)
  OBVIOUS
<1>3. PICK q : q = [command[c] EXCEPT !.at = "shut", !.answer = first, !.answers = rest]
  OBVIOUS
<1>4. /\ RunFits(c, command[c]) /\ command[c] \in Run /\ command[c].token = NoToken /\ command[c].kind = "login"
      /\ command[c].client # NoClient
  BY <1>1, RunFacts DEF RunFits, Browsing
<1>5. first \in Answer /\ rest \in Seq(Answer)
  BY <1>1, <1>2, RunFacts
<1>6. command' = [command EXCEPT ![c] = q]
  <2>1. DOMAIN command = Command
    BY DEF LoginInv, OAuthTypes
  <2>2. command' = [command EXCEPT ![c] = [command[c] EXCEPT !.at = "shut", !.answer = first, !.answers = Tail(command[c].answers)]]
    BY <1>1, <1>2, <1>4, <2>1 DEF Run
  <2>. QED
    BY <1>2, <1>3, <2>2
<1>7. q \in Run /\ q.at = "shut" /\ q.client = command[c].client /\ q.token = NoToken /\ q.kind = "login"
  BY <1>3, <1>4, <1>5 DEF Run, Places
<1>8. RunFits(c, q) /\ Keeps(c, q)
  BY <1>4, <1>7 DEF RunFits, Keeps, Browsing
<1>9. ~disturbed => Knowing(q)
  BY <1>1, <1>7 DEF LoginInv, Undisturbed, Knowing
<1>. QED
  BY <1>1, <1>6, <1>8, <1>9, QuietStep

\* A login is given its token.
LEMMA GrantStep ==
  ASSUME LoginInv, NEW c \in Command, ExchangeCode(c) \/ PollOnce(c)
  PROVE  LoginInv'
<1>1. /\ command[c].at \in {"exchange", "poll"} /\ setting' = setting /\ gw' = gw /\ KeepKeyring
      /\ port' = port /\ port' \in Command \cup {0} /\ ~Over(c)
  BY DEF ExchangeCode, PollOnce, IsAt, KeepGw, Over, LoginInv, OAuthTypes
<1>2. /\ RunFits(c, command[c]) /\ command[c] \in Run /\ command[c].client \in Identity /\ command[c].client # NoClient
      /\ command[c].kind \in Logins /\ command[c].token = NoToken
      /\ command[c].at = "exchange" => command[c].answer[1] = c
  BY <1>1, RunFacts, IdentityFacts DEF RunFits, Browsing, Logins
<1>3. \/ Moves(c, "error")
      \/ command' = [command EXCEPT ![c].at = "save token", ![c].token = Granted(c, command[c].client)]
  BY <1>1, <1>2 DEF ExchangeCode, PollOnce, IsAt
<1>4. CASE Moves(c, "error")
  BY <1>1, <1>4, EndStep
<1>5. CASE command' = [command EXCEPT ![c].at = "save token", ![c].token = Granted(c, command[c].client)]
  <2>1. PICK token : token = Granted(c, command[c].client)
    OBVIOUS
  <2>2. PICK q : q = [command[c] EXCEPT !.at = "save token", !.token = token]
    OBVIOUS
  <2>3. command' = [command EXCEPT ![c] = q]
    BY <1>5, <2>1, <2>2 DEF LoginInv, OAuthTypes
  <2>4. token \in Bearer /\ token # NoToken
    BY <1>2, <2>1, IdentityFacts
  <2>5. q \in Run /\ q.at = "save token" /\ q.client = command[c].client /\ q.token = token /\ q.kind = command[c].kind
    BY <1>2, <2>2, <2>4 DEF Run, Places
  <2>6. RunFits(c, q) /\ Keeps(c, q)
    BY <1>2, <2>1, <2>4, <2>5 DEF RunFits, Keeps, Browsing
  <2>7. ASSUME ~disturbed PROVE command[c].client = ResolveIdentity(keyring.client)
    <3>1. CASE command[c].at = "exchange"
      BY <2>7, <3>1 DEF LoginInv, Undisturbed, Knowing
    <3>2. CASE command[c].at = "poll"
      BY <1>2, <3>2 DEF RunFits, ResolveIdentity
    <3>. QED
      BY <1>1, <3>1, <3>2
  <2>8. ~disturbed => Knowing(q)
    BY <2>5, <2>7 DEF Knowing
  <2>. QED
    BY <1>1, <2>3, <2>6, <2>8, QuietStep
<1>. QED
  BY <1>3, <1>4, <1>5

\* The endpoints and the code of a device login.
LEMMA DeviceStep ==
  ASSUME LoginInv, NEW c \in Command, DiscoverDeviceEndpoints(c) \/ RequestDeviceCode(c)
  PROVE  LoginInv'
<1>1. /\ command[c].at \in {"discover", "request"} /\ setting' = setting /\ gw' = gw /\ KeepKeyring
      /\ port' = port /\ port' \in Command \cup {0} /\ ~Over(c)
  BY DEF DiscoverDeviceEndpoints, RequestDeviceCode, IsAt, KeepGw, Over, LoginInv, OAuthTypes
<1>2. /\ RunFits(c, command[c]) /\ command[c] \in Run /\ command[c].kind = "device" /\ command[c].token = NoToken
      /\ setting.client
  BY <1>1, RunFacts DEF RunFits
<1>3. \/ Moves(c, "request") \/ Moves(c, "error")
      \/ command' = [command EXCEPT ![c].at = "poll", ![c].client = FromConfig]
  BY DEF DiscoverDeviceEndpoints, RequestDeviceCode
<1>4. CASE Moves(c, "error")
  BY <1>1, <1>4, EndStep
<1>5. CASE Moves(c, "request")
  <2>1. PICK q : q = [command[c] EXCEPT !.at = "request"]
    OBVIOUS
  <2>2. q \in Run /\ q.at = "request" /\ q.kind = "device" /\ q.token = NoToken
    BY <1>2, <2>1 DEF Run, Places
  <2>3. RunFits(c, q) /\ Knowing(q)
    BY <1>2, <2>2 DEF RunFits, Knowing, Browsing
  <2>4. "request" \in Places
    BY DEF Places
  <2>. QED
    BY <1>1, <1>5, <2>1, <2>3, <2>4, OnlyMoves
<1>6. CASE command' = [command EXCEPT ![c].at = "poll", ![c].client = FromConfig]
  <2>1. PICK who : who = FromConfig
    OBVIOUS
  <2>2. PICK q : q = [command[c] EXCEPT !.at = "poll", !.client = who]
    OBVIOUS
  <2>3. command' = [command EXCEPT ![c] = q]
    BY <1>6, <2>1, <2>2 DEF LoginInv, OAuthTypes
  <2>4. who \in Identity
    BY <2>1, IdentityFacts
  <2>5. q \in Run /\ q.at = "poll" /\ q.client = who /\ q.token = NoToken /\ q.kind = "device"
    BY <1>2, <2>2, <2>4 DEF Run, Places
  <2>6. RunFits(c, q) /\ Keeps(c, q) /\ Knowing(q)
    BY <1>2, <2>1, <2>5 DEF RunFits, Keeps, Knowing, Browsing
  <2>. QED
    BY <1>1, <2>3, <2>6, QuietStep
<1>. QED
  BY <1>3, <1>4, <1>5, <1>6

\* The token goes into the keyring, or it is too large for it.
LEMMA StoreStep ==
  ASSUME LoginInv, NEW c \in Command, StoreToken(c)
  PROVE  LoginInv'
<1>1. /\ command[c].at = "save token" /\ setting' = setting /\ gw' = gw /\ port' = port
      /\ port' \in Command \cup {0} /\ ~Over(c)
      /\ SaveToken(command[c].token, Moves(c, "ok"), Moves(c, "error"))
  BY DEF StoreToken, IsAt, KeepGw, Over, LoginInv, OAuthTypes
<1>2. /\ RunFits(c, command[c]) /\ command[c] \in Run /\ command[c].kind \in Logins /\ command[c].token # NoToken
      /\ command[c].token = Granted(c, command[c].client) /\ command[c].token \in Bearer
      /\ command[c].client \in Identity
  BY <1>1, RunFacts DEF RunFits
<1>3. PICK token : token = command[c].token
  OBVIOUS
<1>4. Own(token) /\ token \in Bearer
  BY <1>2, <1>3 DEF Own
<1>5. \/ Moves(c, "error") /\ UNCHANGED <<keyring, overdue, counts, disturbed>>
      \/ Moves(c, "ok") /\ keyring' = [keyring EXCEPT !["token"] = token] /\ overdue' = overdue /\ disturbed' = disturbed
      \/ Moves(c, "error") /\ keyring' = keyring /\ disturbed' = TRUE /\ overdue' \subseteq overdue \cup {<<"token", token>>}
  BY <1>1, <1>3 DEF SaveToken, KeyringCall
<1>6. CASE Moves(c, "error") /\ UNCHANGED <<keyring, overdue, counts, disturbed>>
  BY <1>1, <1>6, EndStep DEF KeepKeyring
<1>7. CASE Moves(c, "error") /\ keyring' = keyring /\ disturbed' = TRUE /\ overdue' \subseteq overdue \cup {<<"token", token>>}
  <2>1. PICK new : new = <<"token", token>>
    OBVIOUS
  <2>2. new[1] = "token" /\ new[2] \in Bearer /\ Own(new[2]) /\ overdue' \subseteq overdue \cup {new}
    BY <1>4, <1>7, <2>1
  <2>3. "error" \in Places
    BY DEF Places
  <2>4. PICK q : q = [command[c] EXCEPT !.at = "error"]
    OBVIOUS
  <2>5. command' = [command EXCEPT ![c] = q] /\ RunFits(c, q) /\ Keeps(c, q)
    BY <1>7, <2>3, <2>4, Moved
  <2>. QED
    BY <1>1, <1>7, <2>2, <2>5, FaultyStep
<1>8. CASE Moves(c, "ok") /\ keyring' = [keyring EXCEPT !["token"] = token] /\ overdue' = overdue /\ disturbed' = disturbed
  <2>1. "ok" \in Places
    BY DEF Places
  <2>2. PICK q : q = [command[c] EXCEPT !.at = "ok"]
    OBVIOUS
  <2>3. command' = [command EXCEPT ![c] = q] /\ RunFits(c, q) /\ Keeps(c, q) /\ q.at = "ok"
    BY <1>8, <2>1, <2>2, Moved
  <2>4. /\ keyring' \in [token : Bearer, client : Identity] /\ keyring'.token = token /\ keyring'.client = keyring.client
    BY <1>4, <1>8 DEF LoginInv, OAuthTypes
  <2>7. Knowing(q)'
    BY <2>3 DEF Knowing
  <2>8. ASSUME ~disturbed PROVE Matching'
    <3>1. command[c].client = ResolveIdentity(keyring.client)
      BY <1>1, <2>8 DEF LoginInv, Undisturbed, Knowing
    <3>2. token[2] = command[c].client
      BY <1>2, <1>3, IdentityFacts
    <3>. QED
      BY <1>1, <2>4, <3>1, <3>2 DEF Matching, ResolveIdentity
  <2>. QED
    <3>1. ~disturbed => Knowing(q)' /\ Matching'
      BY <2>7, <2>8
    <3>2. disturbed' = disturbed /\ overdue' = overdue
      BY <1>8
    <3>3. keyring' \in [token : Bearer, client : Identity]
      BY <2>4
    <3>. QED
      BY <1>1, <1>4, <2>3, <2>4, <3>1, <3>2, <3>3, AnsweredStep
<1>. QED
  BY <1>5, <1>6, <1>7, <1>8

\* Logout deletes the token and then the registration.
LEMMA DeleteStep ==
  ASSUME LoginInv, NEW c \in Command, DeleteToken(c) \/ DeleteClient(c)
  PROVE  LoginInv'
<1>1. /\ command[c].at \in {"delete token", "delete client"} /\ setting' = setting /\ gw' = gw
      /\ port' = port /\ port' \in Command \cup {0} /\ ~Over(c)
  BY DEF DeleteToken, DeleteClient, IsAt, KeepGw, Over, LoginInv, OAuthTypes
<1>2. PICK field \in {"token", "client"}, place \in {"delete client", "ok"}, value \in {NoToken, NoClient} :
        /\ KeyringCall(field, value, Moves(c, place), Moves(c, place))
        /\ \/ field = "token" /\ place = "delete client" /\ value = NoToken
           \/ field = "client" /\ place = "ok" /\ value = NoClient /\ command[c].at = "delete client"
  BY DEF DeleteToken, DeleteClient, IsAt
<1>3. /\ Moves(c, place)
      /\ \/ keyring' = [keyring EXCEPT ![field] = value] /\ overdue' = overdue /\ disturbed' = disturbed
         \/ keyring' = keyring /\ disturbed' = TRUE /\ overdue' \subseteq overdue \cup {<<field, value>>}
  BY <1>2, CallFacts
<1>4. PICK q : q = [command[c] EXCEPT !.at = place]
  OBVIOUS
<1>5. place \in Places
  BY DEF Places
<1>6. RunFits(c, q)
  <2>1. RunFits(c, command[c]) /\ command[c] \in Run
    BY RunFacts
  <2>2. /\ q \in Run /\ q.at = place /\ q.client = command[c].client /\ q.token = command[c].token
        /\ q.kind = command[c].kind /\ q.answer = command[c].answer
    BY <1>4, <1>5, <2>1 DEF Run
  <2>. QED
    BY <2>1, <2>2 DEF RunFits, Browsing
<1>7. command' = [command EXCEPT ![c] = q] /\ Keeps(c, q) /\ q.at = place
  BY <1>3, <1>4, <1>5, <1>6, Moved
<1>8. CASE keyring' = keyring /\ disturbed' = TRUE /\ overdue' \subseteq overdue \cup {<<field, value>>}
  <2>1. PICK new : new = <<field, value>>
    OBVIOUS
  <2>2. \/ new[1] = "token" /\ new[2] \in Bearer /\ (new[2] # NoToken => Own(new[2]))
        \/ new[1] = "client" /\ new[2] \in Identity
    BY <1>2, <2>1, IdentityFacts
  <2>. QED
    BY <1>1, <1>6, <1>7, <1>8, <2>1, <2>2, FaultyStep
<1>9. CASE keyring' = [keyring EXCEPT ![field] = value] /\ overdue' = overdue /\ disturbed' = disturbed
  <2>1. keyring \in [token : Bearer, client : Identity]
    BY DEF LoginInv, OAuthTypes
  <2>2. CASE field = "token"
    <3>1. keyring' \in [token : Bearer, client : Identity] /\ keyring'.token = NoToken
      BY <1>2, <1>9, <2>1, <2>2, IdentityFacts
    <3>2. Matching' /\ Knowing(q)'
      BY <1>2, <1>7, <2>2, <3>1 DEF Matching, Knowing
    <3>. QED
      BY <1>1, <1>6, <1>7, <1>9, <3>1, <3>2, AnsweredStep
  <2>3. CASE field = "client"
    <3>1. keyring' \in [token : Bearer, client : Identity] /\ keyring'.token = keyring.token
      BY <1>2, <1>9, <2>1, <2>3, IdentityFacts
    <3>2. ~disturbed => keyring.token = NoToken
      BY <1>2, <2>3 DEF LoginInv, Undisturbed, Knowing
    <3>3. Knowing(q)' /\ (~disturbed => Matching')
      BY <1>2, <1>7, <2>3, <3>1, <3>2 DEF Matching, Knowing
    <3>. QED
      BY <1>1, <1>6, <1>7, <1>9, <3>1, <3>3, AnsweredStep
  <2>. QED
    BY <2>2, <2>3
<1>. QED
  BY <1>3, <1>8, <1>9

\* Export reads the token and the registration.
LEMMA ExportStep ==
  ASSUME LoginInv, NEW c \in Command, ReadToken(c) \/ ReadClient(c)
  PROVE  LoginInv'
<1>1. /\ command[c].at \in {"read token", "read client"} /\ setting' = setting /\ gw' = gw
      /\ port' = port /\ port' \in Command \cup {0} /\ ~Over(c)
  BY DEF ReadToken, ReadClient, IsAt, KeepGw, Over, LoginInv, OAuthTypes
<1>2. RunFits(c, command[c]) /\ command[c] \in Run /\ command[c].kind = "export"
  BY <1>1, RunFacts DEF RunFits
<1>3. keyring.token \in Bearer /\ keyring.client \in Identity
  BY DEF LoginInv, OAuthTypes
<1>4. PICK q \in Run, place \in {"error", "read client", "ok"} :
        /\ command' = [command EXCEPT ![c] = q] /\ q.at = place /\ q.kind = "export"
        /\ KeepKeyring \/ (disturbed' = TRUE /\ keyring' = keyring /\ overdue' = overdue)
  <2>1. CASE /\ command' = [command EXCEPT ![c].token = keyring.token,
                                ![c].at = IF keyring.token = NoToken THEN "error" ELSE "read client"]
             /\ KeepKeyring
    <3>1. PICK token, place : token = keyring.token /\ place = IF keyring.token = NoToken THEN "error" ELSE "read client"
      OBVIOUS
    <3>2. PICK q : q = [command[c] EXCEPT !.token = token, !.at = place]
      OBVIOUS
    <3>3. command' = [command EXCEPT ![c] = q]
      BY <2>1, <3>1, <3>2 DEF LoginInv, OAuthTypes
    <3>4. q \in Run /\ q.at = place /\ q.kind = "export"
      BY <1>2, <1>3, <3>1, <3>2 DEF Run, Places
    <3>5. place \in {"error", "read client", "ok"}
      BY <3>1
    <3>. QED
      BY <2>1, <3>3, <3>4, <3>5
  <2>2. CASE command' = [command EXCEPT ![c].client = keyring.client, ![c].at = "ok"] /\ KeepKeyring
    <3>1. PICK who : who = keyring.client
      OBVIOUS
    <3>2. PICK q : q = [command[c] EXCEPT !.client = who, !.at = "ok"]
      OBVIOUS
    <3>3. command' = [command EXCEPT ![c] = q]
      BY <2>2, <3>1, <3>2 DEF LoginInv, OAuthTypes
    <3>4. q \in Run /\ q.at = "ok" /\ q.kind = "export"
      BY <1>2, <1>3, <3>1, <3>2 DEF Run, Places
    <3>. QED
      BY <2>2, <3>3, <3>4
  <2>3. ASSUME NEW place \in {"error", "ok"}, KeyringReadFails(Moves(c, place))
        PROVE  \E q \in Run : /\ command' = [command EXCEPT ![c] = q] /\ q.at = place /\ q.kind = "export"
                              /\ disturbed' = TRUE /\ keyring' = keyring /\ overdue' = overdue
    <3>1. PICK q : q = [command[c] EXCEPT !.at = place]
      OBVIOUS
    <3>2. command' = [command EXCEPT ![c] = q] /\ disturbed' = TRUE /\ keyring' = keyring /\ overdue' = overdue
      BY <2>3, <3>1 DEF KeyringReadFails, Moves, LoginInv, OAuthTypes
    <3>3. q \in Run /\ q.at = place /\ q.kind = "export"
      BY <1>2, <3>1 DEF Run, Places
    <3>. QED
      BY <3>2, <3>3
  <2>. QED
    BY <2>1, <2>2, <2>3 DEF ReadToken, ReadClient
<1>5. RunFits(c, q) /\ Keeps(c, q) /\ Knowing(q)
  BY <1>2, <1>4 DEF RunFits, Keeps, Knowing, Browsing, Logins
<1>6. CASE KeepKeyring
  BY <1>1, <1>4, <1>5, <1>6, QuietStep
<1>7. CASE disturbed' = TRUE /\ keyring' = keyring /\ overdue' = overdue
  BY <1>1, <1>4, <1>5, <1>7, FailedRead
<1>. QED
  BY <1>4, <1>6, <1>7

\* Without a step of a command every command and token stays.
LEMMA CommandsKept ==
  ASSUME LoginInv, command' = command, setting' = setting
  PROVE  /\ DOMAIN command' = Command /\ \A d \in Command : RunFits(d, command[d])'
         /\ \A t : t # NoToken /\ Own(t) => Own(t)'
<1>1. DOMAIN command' = Command
  BY DEF LoginInv, OAuthTypes
<1>2. \A d \in Command : RunFits(d, command[d])'
  BY ZenonT(60) DEF LoginInv, RunFits
<1>3. \A t : t # NoToken /\ Own(t) => Own(t)'
  BY DEF Own
<1>. QED
  BY <1>1, <1>2, <1>3

\* A call that was given up is carried out.
LEMMA LateStep ==
  ASSUME LoginInv, NEW op \in overdue, KeyringLate(op)
  PROVE  LoginInv'
<1>1. /\ overdue' = overdue \ {op} /\ keyring' = [keyring EXCEPT ![op[1]] = op[2]]
      /\ command' = command /\ setting' = setting /\ gw' = gw /\ port' = port /\ disturbed' = disturbed
  BY DEF KeyringLate, KeepCmd, KeepGw
<1>2. /\ DOMAIN command' = Command /\ \A d \in Command : RunFits(d, command[d])'
      /\ \A t : t # NoToken /\ Own(t) => Own(t)'
  BY <1>1, CommandsKept
<1>3. /\ AllOwn /\ keyring \in [token : Bearer, client : Identity]
      /\ \/ op[1] = "token" /\ op[2] \in Bearer /\ (op[2] # NoToken => Own(op[2]))
         \/ op[1] = "client" /\ op[2] \in Identity
  BY DEF LoginInv, AllOwn, OAuthTypes
<1>4. keyring' \in [token : Bearer, client : Identity] /\ keyring'.token \in {keyring.token, op[2]}
      /\ (op[1] = "client" => keyring'.token = keyring.token)
  BY <1>1, <1>3
<1>5. OAuthTypes'
  BY <1>1, <1>2, <1>4 DEF LoginInv, OAuthTypes
<1>6. AllOwn'
  BY <1>1, <1>2, <1>3, <1>4 DEF AllOwn
<1>7. Undisturbed'
  BY <1>1 DEF LoginInv, Undisturbed
<1>. QED
  BY <1>2, <1>5, <1>6, <1>7 DEF LoginInv

\* The gateway, without a call of the keyring that changes it.
LEMMA GatewayQuiet ==
  ASSUME LoginInv, command' = command, setting' = setting, port' = port, keyring' = keyring, overdue' = overdue,
         disturbed' = disturbed \/ disturbed' = TRUE, disturbed' \in BOOLEAN, gw' \in Gateway,
         gw'.token \in {NoToken, gw.token, keyring.token},
         ~disturbed' /\ gw'.token # NoToken => gw'.token = keyring.token /\ \A c \in Command : Over(c)
  PROVE  LoginInv'
<1>1. /\ DOMAIN command' = Command /\ \A d \in Command : RunFits(d, command[d])'
      /\ \A t : t # NoToken /\ Own(t) => Own(t)'
  BY CommandsKept
<1>2. OAuthTypes'
  BY <1>1 DEF LoginInv, OAuthTypes
<1>3. AllOwn'
  BY <1>1 DEF LoginInv, AllOwn
<1>4. ASSUME ~disturbed' PROVE ~disturbed
  BY <1>4
<1>5. \A d \in Command : (Over(d)' <=> Over(d)) /\ (Knowing(command[d]) => Knowing(command[d])')
  BY DEF Over, Knowing, ResolveIdentity
<1>6. Matching => Matching'
  BY DEF Matching, ResolveIdentity
<1>7. Undisturbed'
  BY <1>4, <1>5, <1>6 DEF LoginInv, Undisturbed
<1>. QED
  BY <1>1, <1>2, <1>3, <1>7 DEF LoginInv

\* The gateway connects.
LEMMA ConnectStep ==
  ASSUME LoginInv, Connect \/ ConnectClientCredentials \/ GatewayEnds \/ RefreshFails
  PROVE  LoginInv'
<1>1. /\ command' = command /\ port' = port /\ setting' = setting /\ keyring' = keyring /\ overdue' = overdue
      /\ disturbed' = disturbed \/ disturbed' = TRUE
  BY DEF Connect, ConnectClientCredentials, GatewayEnds, RefreshFails, KeepCmd, KeepKeyring, KeyringReadFails
<1>2. disturbed' \in BOOLEAN
  BY <1>1 DEF LoginInv, OAuthTypes
<1>3. gw \in Gateway /\ keyring.client \in Identity
  BY DEF LoginInv, OAuthTypes
<1>4. \A x \in Identity : ResolveIdentity(x) \in Identity
  BY IdentityFacts DEF ResolveIdentity
<1>5. gw' \in Gateway /\ gw'.token \in {NoToken, gw.token}
  <2>1. CASE Connect
    <3>1. PICK who \in Identity : gw' = [gw EXCEPT !.at = "on", !.client = who]
      BY <1>3, <1>4, <2>1, IdentityFacts DEF Connect, KeyringReadFails
    <3>. QED
      BY <1>3, <3>1 DEF Gateway
  <2>2. CASE ConnectClientCredentials
    <3>1. PICK who \in Identity, at \in {"on", "failed"} : gw' = [at |-> at, client |-> who, token |-> NoToken]
      BY <1>4, <2>2, IdentityFacts DEF ConnectClientCredentials
    <3>. QED
      BY <3>1, IdentityFacts DEF Gateway
  <2>3. CASE GatewayEnds
    BY <2>3, IdentityFacts DEF GatewayEnds, Gateway
  <2>4. CASE RefreshFails
    BY <1>3, <2>4, IdentityFacts DEF RefreshFails, Gateway
  <2>. QED
    BY <2>1, <2>2, <2>3, <2>4
<1>6. ~disturbed' /\ gw'.token # NoToken => gw'.token = keyring.token /\ \A c \in Command : Over(c)
  BY <1>1, <1>5 DEF LoginInv, Undisturbed
<1>. QED
  BY <1>1, <1>2, <1>5, <1>6, GatewayQuiet

\* The gateway reads the token.
LEMMA GetTokenStep ==
  ASSUME LoginInv, GetToken
  PROVE  LoginInv'
<1>1. /\ command' = command /\ port' = port /\ setting' = setting /\ keyring' = keyring /\ overdue' = overdue
      /\ disturbed' = (disturbed \/ \E d \in Command : ~Over(d)) /\ gw' = [gw EXCEPT !.token = keyring.token]
  BY DEF GetToken, KeepCmd
<1>2. disturbed' \in BOOLEAN
  BY <1>1
<1>3. disturbed' = disturbed \/ disturbed' = TRUE
  BY <1>1 DEF LoginInv, OAuthTypes
<1>4. gw' \in Gateway /\ gw'.token = keyring.token
  BY <1>1 DEF LoginInv, OAuthTypes, Gateway
<1>5. ~disturbed' /\ gw'.token # NoToken => gw'.token = keyring.token /\ \A c \in Command : Over(c)
  BY <1>1, <1>4
<1>. QED
  BY <1>1, <1>2, <1>3, <1>4, <1>5, GatewayQuiet

\* The gateway refreshes its token and saves it.
LEMMA RefreshStep ==
  ASSUME LoginInv, Refresh
  PROVE  LoginInv'
<1>1. /\ gw.token # NoToken /\ command' = command /\ port' = port /\ setting' = setting
      /\ gw' = [gw EXCEPT !.token = NoToken]
  BY DEF Refresh, SaveToken, KeyringCall, KeepCmd
<1>2. gw \in Gateway /\ keyring \in [token : Bearer, client : Identity] /\ gw.token \in Bearer /\ Own(gw.token)
  BY <1>1 DEF LoginInv, OAuthTypes, AllOwn, Gateway
<1>3. gw' \in Gateway /\ gw'.token = NoToken
  BY <1>1, <1>2, IdentityFacts DEF Gateway
<1>4. PICK token \in Bearer : token = gw.token
  BY <1>2
<1>5. \/ UNCHANGED <<keyring, overdue, disturbed>>
      \/ keyring' = [keyring EXCEPT !["token"] = token] /\ overdue' = overdue /\ disturbed' = disturbed
      \/ keyring' = keyring /\ disturbed' = TRUE /\ overdue' \subseteq overdue \cup {<<"token", token>>}
  BY <1>4 DEF Refresh, SaveToken, KeyringCall
<1>6. CASE UNCHANGED <<keyring, overdue, disturbed>>
  <2>1. disturbed' \in BOOLEAN
    BY <1>6 DEF LoginInv, OAuthTypes
  <2>2. disturbed' = disturbed /\ keyring' = keyring /\ overdue' = overdue
    BY <1>6
  <2>. QED
    BY <1>1, <1>3, <2>1, <2>2, GatewayQuiet
<1>7. /\ DOMAIN command' = Command /\ \A d \in Command : RunFits(d, command[d])'
      /\ \A t : t # NoToken /\ Own(t) => Own(t)'
  BY <1>1, CommandsKept
<1>8. CASE keyring' = keyring /\ disturbed' = TRUE /\ overdue' \subseteq overdue \cup {<<"token", token>>}
  <2>1. OAuthTypes'
    BY <1>1, <1>3, <1>7, <1>8 DEF LoginInv, OAuthTypes
  <2>2. PICK new : new = <<"token", token>>
    OBVIOUS
  <2>3. new[1] = "token" /\ new[2] \in Bearer /\ Own(new[2]) /\ overdue' \subseteq overdue \cup {new}
    BY <1>2, <1>4, <1>8, <2>2
  <2>4. new[2] # NoToken => Own(new[2])'
    BY <1>7, <2>3
  <2>5. AllOwn'
    BY <1>3, <1>7, <1>8, <2>3, <2>4 DEF LoginInv, AllOwn
  <2>6. Undisturbed'
    BY <1>8 DEF Undisturbed
  <2>. QED
    BY <1>7, <2>1, <2>5, <2>6 DEF LoginInv
<1>9. CASE keyring' = [keyring EXCEPT !["token"] = token] /\ overdue' = overdue /\ disturbed' = disturbed
  <2>1. keyring' \in [token : Bearer, client : Identity] /\ keyring'.token = token /\ keyring'.client = keyring.client
    BY <1>2, <1>4, <1>9
  <2>2. OAuthTypes'
    BY <1>1, <1>3, <1>7, <1>9, <2>1 DEF LoginInv, OAuthTypes
  <2>3. AllOwn'
    BY <1>1, <1>2, <1>3, <1>4, <1>7, <1>9, <2>1 DEF LoginInv, AllOwn
  <2>4. ASSUME ~disturbed PROVE token = keyring.token /\ \A c \in Command : Over(c)
    BY <1>1, <1>4, <2>4 DEF LoginInv, Undisturbed
  <2>5. \A d \in Command : Over(d)' <=> Over(d)
    BY <1>1 DEF Over
  <2>6. ASSUME ~disturbed PROVE Matching'
    BY <1>1, <2>1, <2>4, <2>6 DEF LoginInv, Undisturbed, Matching, ResolveIdentity
  <2>7. ASSUME ~disturbed, NEW d \in Command PROVE Knowing(command[d])'
    <3>1. Over(d)'
      BY <2>4, <2>5, <2>7
    <3>. QED
      BY <3>1 DEF Over, Knowing
  <2>8. Undisturbed'
    BY <1>3, <1>9, <2>4, <2>5, <2>6, <2>7 DEF LoginInv, Undisturbed
  <2>. QED
    BY <1>7, <2>2, <2>3, <2>8 DEF LoginInv
<1>. QED
  BY <1>5, <1>6, <1>8, <1>9

\* What the commands, the keyring, its late calls and the gateway hold of the
\* tokens agrees (runMCPLogin, pollOnce, runMCPLogout, newOAuthTransport), for
\* any settings and any number of commands, answers, faults and refreshes.
THEOREM LoginInvariant == OAuthSpec => []LoginInv
<1>1. ASSUME OAuthInit PROVE LoginInv
  <2>1. NoRun \in Run /\ NoRun.at = "idle" /\ NoRun.token = NoToken
    <3>1. <<>> \in Seq(Answer)
      OBVIOUS
    <3>. QED
      BY <3>1, IdentityFacts DEF NoRun, Run, Places
  <2>2. \A c \in Command : RunFits(c, NoRun) /\ Knowing(NoRun)
    BY <2>1 DEF RunFits, Knowing, Browsing
  <2>3. /\ setting \in Settings /\ keyring = [token |-> NoToken, client |-> NoClient] /\ overdue = {}
        /\ command = [c \in Command |-> NoRun] /\ port = 0 /\ gw = [at |-> "off", client |-> NoClient, token |-> NoToken]
        /\ disturbed = FALSE
    BY <1>1 DEF OAuthInit
  <2>4. OAuthTypes
    BY <2>3, IdentityFacts DEF OAuthTypes, Gateway
  <2>5. AllOwn
    BY <2>3 DEF AllOwn
  <2>6. \A c \in Command : Over(c)
    BY <2>1, <2>3 DEF Over
  <2>7. Undisturbed
    BY <2>2, <2>3, <2>6 DEF Undisturbed, Matching
  <2>. QED
    BY <2>2, <2>3, <2>4, <2>5, <2>7 DEF LoginInv
<1>2. ASSUME LoginInv, [OAuthNext]_oauthVars PROVE LoginInv'
  <2>1. ASSUME NEW c \in Command, NEW kind \in {"login", "device", "logout", "export"}, Begin(c, kind) PROVE LoginInv'
    BY <1>2, <2>1, BeginStep
  <2>2. ASSUME NEW c \in Command, Identify(c) \/ Lookup(c) \/ RegisterClient(c) \/ PersistClient(c) PROVE LoginInv'
    BY <1>2, <2>2, IdentifyStep, LookupStep, RegisterStep, PersistStep
  <2>3. ASSUME NEW c \in Command, OpenBrowser(c) \/ Receive(c) \/ WaitTimesOut(c) \/ ShutDown(c) PROVE LoginInv'
    BY <1>2, <2>3, BrowserStep, ReceiveStep
  <2>4. ASSUME NEW c \in Command, ExchangeCode(c) \/ DiscoverDeviceEndpoints(c) \/ RequestDeviceCode(c) \/ PollOnce(c)
        PROVE  LoginInv'
    BY <1>2, <2>4, GrantStep, DeviceStep
  <2>5. ASSUME NEW c \in Command, StoreToken(c) \/ DeleteToken(c) \/ DeleteClient(c) \/ ReadToken(c) \/ ReadClient(c)
        PROVE  LoginInv'
    BY <1>2, <2>5, StoreStep, DeleteStep, ExportStep
  <2>6. ASSUME NEW c \in Command, NEW granted \in BOOLEAN, UserAnswers(c, granted) PROVE LoginInv'
    BY <1>2, <2>6, AnswerStep
  <2>7. ASSUME NEW op \in overdue, KeyringLate(op) PROVE LoginInv'
    BY <1>2, <2>7, LateStep
  <2>8. ASSUME Connect \/ ConnectClientCredentials \/ GetToken \/ Refresh \/ RefreshFails \/ GatewayEnds PROVE LoginInv'
    BY <1>2, <2>8, ConnectStep, GetTokenStep, RefreshStep
  <2>9. CASE UNCHANGED oauthVars
    <3>1. /\ command' = command /\ setting' = setting /\ port' = port /\ keyring' = keyring /\ overdue' = overdue
          /\ disturbed' = disturbed /\ gw' = gw
      BY <2>9 DEF oauthVars
    <3>2. gw' \in Gateway /\ disturbed' \in BOOLEAN
      BY <1>2, <3>1 DEF LoginInv, OAuthTypes
    <3>3. ~disturbed /\ gw.token # NoToken => gw.token = keyring.token /\ \A c \in Command : Over(c)
      BY <1>2 DEF LoginInv, Undisturbed
    <3>. QED
      BY <1>2, <3>1, <3>2, <3>3, GatewayQuiet
  <2>. QED
    BY <1>2, <2>1, <2>2, <2>3, <2>4, <2>5, <2>6, <2>7, <2>8, <2>9 DEF OAuthNext
<1>. QED
  BY <1>1, <1>2, PTL DEF OAuthSpec

\* Every token in the keyring was granted to a login that ran here, and while
\* nothing disturbs it the gateway can refresh it (runMCPLogin, pollOnce,
\* newOAuthTransport), for any settings and any number of commands, answers,
\* faults and refreshes.
THEOREM TokensAreSound == OAuthSpec => []TokensSound
<1>1. LoginInv => TokensSound
  <2> SUFFICES ASSUME LoginInv PROVE TokensSound
    OBVIOUS
  <2>1. \A c \in Command : command[c].kind \in {"login", "device"} /\ command[c].token # NoToken =>
          command[c].token = Granted(c, command[c].client)
    BY RunFacts DEF RunFits, Logins
  <2>2. ASSUME keyring.token # NoToken
        PROVE  \E c \in Command : command[c].kind \in {"login", "device"} /\ keyring.token = Granted(c, command[c].client)
    <3>1. Own(keyring.token)
      BY <2>2 DEF LoginInv, AllOwn
    <3>. QED
      BY <2>2, <3>1, OwnFacts DEF Logins
  <2>3. Refreshable
    BY DEF LoginInv, Undisturbed, Matching, Refreshable
  <2>. QED
    BY <2>1, <2>2, <2>3 DEF TokensSound, OwnToken
<1>. QED
  BY <1>1, LoginInvariant, PTL

-----------------------------------------------------------------------------
(***************************************************************************)
(* The feed of events.                                                     *)
(***************************************************************************)

\* The events of s are in the order they were emitted, none twice.
Rising(s) == \A i, j \in DOMAIN s : i < j => s[i] < s[j]

\* The emitters that are in an Emit call, and the events that the client may
\* still get from its channel.
InFlight == {g \in Emitter : emits[g].at # "idle"}
Ahead == Elements(watch.chan) \union {emits[g].event : g \in InFlight}

\* The states of a ring, of the emitters and of the watch request.
Rings == [slots : [0 .. RingSize - 1 -> Nat],
          head  : 0 .. RingSize - 1,
          count : 0 .. RingSize]

Emits == [Emitter -> [at : {"idle", "store", "ring", "cast"}, event : Nat]]
Watches == [at : {"off", "ring", "db", "live"}, since : Nat, chan : Seq(Nat), seen : SUBSET Nat]

\* Type correctness of the feed.
FeedType ==
  /\ last \in Nat
  /\ emits \in Emits
  /\ stored \in Seq(Nat) /\ rung \in Seq(Nat) /\ out \in Seq(Nat)
  /\ ring \in Rings
  /\ watch \in Watches

\* The slot of the i-th oldest event of a ring, i counted from 0.
Slot(r, i) == (Oldest(r) + i) % RingSize

\* The slots of ring r, read from the oldest one, are the end of s.
Holds(r, s) ==
  /\ r.count = IF Len(s) < RingSize THEN Len(s) ELSE RingSize
  /\ \A i \in 0 .. r.count - 1 : r.slots[Slot(r, i)] = s[Len(s) - r.count + i + 1]

\* One event is on its way at a time; it enters the store, the ring and the
\* channel in that order and after every event before it.
OneByOne ==
  /\ \A g, h \in InFlight : g = h
  /\ Rising(stored) /\ Rising(rung) /\ Rising(watch.chan)
  /\ \A e \in Elements(stored) : e <= last
  /\ Elements(rung) \subseteq Elements(stored)
  /\ Elements(watch.chan) \subseteq Elements(rung)
  /\ \A g \in InFlight :
       /\ emits[g].event = last
       /\ last \notin Elements(watch.chan)
       /\ emits[g].at = "store" => last \notin Elements(stored)
       /\ emits[g].at = "ring" => last \in Elements(stored) /\ last \notin Elements(rung)
       /\ emits[g].at = "cast" => last \in Elements(rung)

\* The client has been shown stored events, in order, and what may still come
\* through its channel is either one the handler will skip or newer.
ShownInOrder ==
  /\ Rising(out) /\ Elements(out) \subseteq Elements(stored)
  /\ watch.at = "off" => watch.chan = <<>>
  /\ watch.at \in {"ring", "db"} =>
       /\ out # <<>> /\ watch.since = out[Len(out)]
       /\ \A e \in Ahead, o \in Elements(out) : o < e
  /\ watch.at = "live" =>
       \A e \in Ahead : e \in watch.seen \/ \A o \in Elements(out) : o < e

\* No two emits overlapped, every event was stored, and the client did not
\* subscribe again before an event it was shown was broadcast.
Undelayed == lapses \subseteq {"full", "evicted"}

\* The inductive invariant of the feed.
FeedInv == FeedType /\ Holds(ring, rung) /\ (Undelayed => OneByOne /\ ShownInOrder)

-----------------------------------------------------------------------------
\* A position of the ring that ran past its end once.
Wrap(a) == IF a < RingSize THEN a ELSE a - RingSize

\* A position that is taken modulo the size is one that ran past once
\* (AgentRing.Append, Recent, Since).
LEMMA OncePast ==
  ASSUME NEW a \in 0 .. 2 * RingSize - 1
  PROVE  a % RingSize = Wrap(a)
  BY FeedAssumption DEF Wrap

\* It is a position then.
LEMMA WrapIsPlace ==
  ASSUME NEW a \in 0 .. 2 * RingSize - 1
  PROVE  Wrap(a) \in 0 .. RingSize - 1
  BY FeedAssumption DEF Wrap

\* Where in l events the f-th of the last c is, and how many follow it
\* (AgentRing.Since).
LEMMA PlaceFound ==
  ASSUME NEW l \in Nat, NEW c \in Nat, NEW f \in Nat, c <= l, f <= c - 1
  PROVE  /\ l - c + f + 1 \in 1 .. l
         /\ l - c + f + 1 + (c - f - 1) <= l
  OBVIOUS

\* The place after the next one is the next one's next (AgentRing.Append).
LEMMA NextPlace ==
  ASSUME NEW h \in 0 .. RingSize - 1, NEW i \in 0 .. RingSize - 2
  PROVE  /\ Wrap((IF h + 1 < RingSize THEN h + 1 ELSE 0) + i) = Wrap(h + (i + 1))
         /\ Wrap(h + (i + 1)) # h
  BY FeedAssumption DEF Wrap

\* Counted back from the head or on from the oldest event, a place is the
\* same (AgentRing.Recent).
LEMMA FromOldest ==
  ASSUME NEW h \in 0 .. RingSize - 1, NEW c \in 0 .. RingSize, NEW m \in 0 .. c, NEW i \in 1 .. m
  PROVE  Wrap(Wrap(h - m + RingSize) + i - 1)
           = Wrap((IF c <= h THEN h - c ELSE h - c + RingSize) + (c - m + i - 1))
<1>1. RingSize \in Nat \ {0} /\ h \in Nat /\ c \in Nat /\ m \in Nat /\ i \in Nat
  BY FeedAssumption
<1>2. h <= RingSize - 1 /\ c <= RingSize /\ m <= c /\ i <= m /\ 1 <= i
  BY <1>1
<1>3. CASE m <= h
  <2>1. Wrap(h - m + RingSize) = h - m
    BY <1>1, <1>2, <1>3 DEF Wrap
  <2>. QED
    BY <1>1, <1>2, <1>3, <2>1 DEF Wrap
<1>4. CASE ~(m <= h)
  <2>1. Wrap(h - m + RingSize) = h - m + RingSize
    BY <1>1, <1>2, <1>4 DEF Wrap
  <2>. QED
    BY <1>1, <1>2, <1>4, <2>1 DEF Wrap
<1>. QED
  BY <1>3, <1>4

\* Events are numbers.
LEMMA NumbersOf ==
  ASSUME NEW s \in Seq(Nat)
  PROVE  Elements(s) \subseteq Nat
  BY DEF Elements

\* An event newer than all of a sequence leaves it in order at its end
\* (AgentRing.Append, the stores, the channel).
LEMMA AppendRises ==
  ASSUME NEW s \in Seq(Nat), NEW e \in Nat
  PROVE  /\ Append(s, e) \in Seq(Nat)
         /\ Elements(Append(s, e)) = Elements(s) \union {e}
         /\ Rising(s) /\ (\A x \in Elements(s) : x < e) => Rising(Append(s, e))
<1>1. /\ Append(s, e) \in Seq(Nat)
      /\ DOMAIN Append(s, e) = 1 .. Len(s) + 1
      /\ DOMAIN s = 1 .. Len(s) /\ Len(s) \in Nat
      /\ \A i \in 1 .. Len(s) : Append(s, e)[i] = s[i] /\ s[i] \in Nat
      /\ Append(s, e)[Len(s) + 1] = e
  OBVIOUS
<1>2. Elements(Append(s, e)) = Elements(s) \union {e}
  BY <1>1 DEF Elements
<1>3. ASSUME Rising(s), \A x \in Elements(s) : x < e PROVE Rising(Append(s, e))
  BY <1>1, <1>3 DEF Elements, Rising
<1>. QED
  BY <1>1, <1>2, <1>3

\* What is left of a channel is newer than what was taken (handleWatch).
LEMMA TailRises ==
  ASSUME NEW s \in Seq(Nat), s # <<>>
  PROVE  /\ Tail(s) \in Seq(Nat) /\ Head(s) \in Nat
         /\ Elements(s) = {Head(s)} \union Elements(Tail(s))
         /\ Rising(s) => Rising(Tail(s)) /\ \A x \in Elements(Tail(s)) : Head(s) < x
<1>1. /\ Tail(s) \in Seq(Nat) /\ Len(s) \in Nat \ {0} /\ Head(s) = s[1]
      /\ DOMAIN s = 1 .. Len(s) /\ DOMAIN Tail(s) = 1 .. Len(s) - 1
      /\ \A i \in 1 .. Len(s) - 1 : Tail(s)[i] = s[i + 1]
      /\ \A i \in 1 .. Len(s) : s[i] \in Nat
  BY HeadTailProperties, EmptySeq, LenProperties
<1>2. ASSUME NEW i \in 1 .. Len(s) PROVE s[i] = Head(s) \/ s[i] \in Elements(Tail(s))
  <2>1. CASE i = 1
    BY <1>1, <2>1
  <2>2. CASE i # 1
    <3>1. i - 1 \in 1 .. Len(s) - 1 /\ Tail(s)[i - 1] = s[i]
      BY <1>1, <2>2
    <3>. QED
      BY <1>1, <3>1 DEF Elements
  <2>. QED
    BY <2>1, <2>2
<1>3. Elements(s) = {Head(s)} \union Elements(Tail(s))
  <2>1. \A i \in 1 .. Len(s) - 1 : i + 1 \in 1 .. Len(s) /\ 1 \in 1 .. Len(s)
    BY <1>1
  <2>2. Head(s) \in Elements(s)
    BY <1>1 DEF Elements
  <2>3. Elements(Tail(s)) \subseteq Elements(s)
    BY <1>1, <2>1 DEF Elements
  <2>4. Elements(s) \subseteq {Head(s)} \union Elements(Tail(s))
    BY <1>1, <1>2 DEF Elements
  <2>. QED
    BY <2>2, <2>3, <2>4
<1>4. ASSUME Rising(s) PROVE Rising(Tail(s)) /\ \A x \in Elements(Tail(s)) : Head(s) < x
  <2>1. \A i, j \in 1 .. Len(s) : i < j => s[i] < s[j]
    BY <1>1, <1>4 DEF Rising
  <2>2. \A i \in 1 .. Len(s) - 1 : i + 1 \in 1 .. Len(s) /\ 1 < i + 1 /\ 1 \in 1 .. Len(s)
    BY <1>1
  <2>3. \A i, j \in 1 .. Len(s) - 1 : i < j => Tail(s)[i] < Tail(s)[j]
    BY <1>1, <2>1, <2>2
  <2>4. Rising(Tail(s))
    BY <1>1, <2>3 DEF Rising
  <2>5. \A i \in 1 .. Len(s) - 1 : Head(s) < Tail(s)[i]
    BY <1>1, <2>1, <2>2
  <2>. QED
    BY <1>1, <2>4, <2>5 DEF Elements
<1>. QED
  BY <1>1, <1>3, <1>4

\* Events written after older ones leave them in order (handleWatch).
LEMMA ConcatRises ==
  ASSUME NEW s \in Seq(Nat), NEW t \in Seq(Nat)
  PROVE  /\ s \o t \in Seq(Nat)
         /\ Elements(s \o t) = Elements(s) \union Elements(t)
         /\ Rising(s) /\ Rising(t) /\ (\A x \in Elements(s), y \in Elements(t) : x < y)
              => Rising(s \o t)
<1> DEFINE u == s \o t
<1>1. /\ u \in Seq(Nat) /\ Len(s) \in Nat /\ Len(t) \in Nat
      /\ DOMAIN u = 1 .. Len(s) + Len(t) /\ DOMAIN s = 1 .. Len(s) /\ DOMAIN t = 1 .. Len(t)
      /\ \A i \in 1 .. Len(s) + Len(t) : u[i] = IF i <= Len(s) THEN s[i] ELSE t[i - Len(s)]
      /\ \A i \in 1 .. Len(s) : s[i] \in Nat
      /\ \A i \in 1 .. Len(t) : t[i] \in Nat
  BY ConcatProperties, LenProperties
<1>2. \A i \in 1 .. Len(s) : i \in DOMAIN u /\ u[i] = s[i]
  BY <1>1
<1>3. \A i \in 1 .. Len(t) : Len(s) + i \in DOMAIN u /\ u[Len(s) + i] = t[i]
  BY <1>1
<1>4. \A i \in DOMAIN u : i \in 1 .. Len(s) \/ i - Len(s) \in 1 .. Len(t)
  BY <1>1
<1>5. \A i \in DOMAIN u : u[i] \in Elements(s) \union Elements(t)
  BY <1>1, <1>4 DEF Elements
<1>6. Elements(u) = Elements(s) \union Elements(t)
  <2>1. Elements(u) \subseteq Elements(s) \union Elements(t)
    BY <1>5 DEF Elements
  <2>2. Elements(s) \subseteq Elements(u)
    BY <1>1, <1>2 DEF Elements
  <2>3. Elements(t) \subseteq Elements(u)
    BY <1>1, <1>3, ZenonT(60) DEF Elements
  <2>. QED
    BY <2>1, <2>2, <2>3
<1>7. ASSUME Rising(s), Rising(t), \A x \in Elements(s), y \in Elements(t) : x < y
      PROVE  Rising(u)
  <2> SUFFICES ASSUME NEW i \in DOMAIN u, NEW j \in DOMAIN u, i < j PROVE u[i] < u[j]
    BY DEF Rising
  <2>1. CASE j <= Len(s)
    BY <1>1, <1>7, <2>1 DEF Rising
  <2>2. CASE i <= Len(s) /\ ~(j <= Len(s))
    BY <1>1, <1>7, <2>2 DEF Elements
  <2>3. CASE ~(i <= Len(s))
    <3>1. /\ i - Len(s) \in 1 .. Len(t) /\ j - Len(s) \in 1 .. Len(t) /\ i - Len(s) < j - Len(s)
          /\ u[i] = t[i - Len(s)] /\ u[j] = t[j - Len(s)]
      BY <1>1, <2>3
    <3>. QED
      BY <1>1, <1>7, <3>1 DEF Rising
  <2>. QED
    BY <1>1, <2>1, <2>2, <2>3
<1>. QED
  BY <1>1, <1>6, <1>7

\* What a catch-up finds, t, is a run of the events of s after position m:
\* each is newer than that at m, and an event of s that is newer than that is
\* in t or newer than all of t.
LEMMA WindowRises ==
  ASSUME NEW s \in Seq(Nat), NEW t \in Seq(Nat), NEW m \in 1 .. Len(s), Rising(s),
         m + Len(t) <= Len(s), \A i \in 1 .. Len(t) : t[i] = s[m + i]
  PROVE  /\ Rising(t) /\ Elements(t) \subseteq Elements(s)
         /\ \A x \in Elements(t) : s[m] < x
         /\ \A c \in Elements(s) : s[m] < c => c \in Elements(t) \/ \A x \in Elements(t) : x < c
<1>1. /\ Len(s) \in Nat /\ Len(t) \in Nat /\ DOMAIN s = 1 .. Len(s) /\ DOMAIN t = 1 .. Len(t)
      /\ \A i \in 1 .. Len(s) : s[i] \in Nat
  BY LenProperties
<1>2. \A i \in 1 .. Len(t) : m + i \in 1 .. Len(s) /\ m < m + i
  BY <1>1
<1>3. \A i, j \in 1 .. Len(s) : i < j => s[i] < s[j]
  BY <1>1 DEF Rising
<1>4. Rising(t)
  BY <1>1, <1>2, <1>3 DEF Rising
<1>5. Elements(t) \subseteq Elements(s) /\ \A x \in Elements(t) : s[m] < x
  <2>1. \A i \in 1 .. Len(t) : s[m] < t[i] /\ t[i] \in Elements(s)
    <3>. SUFFICES ASSUME NEW i \in 1 .. Len(t) PROVE s[m] < t[i] /\ t[i] \in Elements(s)
      OBVIOUS
    <3>1. t[i] = s[m + i] /\ m + i \in 1 .. Len(s) /\ m < m + i
      BY <1>2
    <3>2. s[m + i] \in Elements(s)
      BY <1>1, <3>1 DEF Elements
    <3>. QED
      BY <1>3, <3>1, <3>2
  <2>. QED
    BY <1>1, <2>1 DEF Elements
<1>6. ASSUME NEW c \in Elements(s), s[m] < c
      PROVE  c \in Elements(t) \/ \A x \in Elements(t) : x < c
  <2>1. PICK k \in 1 .. Len(s) : c = s[k]
    BY <1>1 DEF Elements
  <2>2. m < k
    BY <1>1, <1>3, <1>6, <2>1
  <2>3. CASE k <= m + Len(t)
    <3>1. k - m \in 1 .. Len(t) /\ t[k - m] = s[k]
      BY <1>1, <2>2, <2>3
    <3>. QED
      BY <1>1, <2>1, <3>1 DEF Elements
  <2>4. CASE ~(k <= m + Len(t))
    <3>1. ASSUME NEW i \in 1 .. Len(t) PROVE t[i] < c
      BY <1>1, <1>2, <1>3, <2>1, <2>4
    <3>. QED
      BY <1>1, <3>1 DEF Elements
  <2>. QED
    BY <2>3, <2>4
<1>. QED
  BY <1>4, <1>5, <1>6

-----------------------------------------------------------------------------
\* A set of natural numbers has a least member.
LEMMA LeastPlace ==
  ASSUME NEW T, T \subseteq Nat, T # {}
  PROVE  \E m \in T : \A y \in T : m <= y
<1> DEFINE Less == OpToRel(<, Nat)
<1>1. IsWellFoundedOn(Less, Nat)
  BY NatLessThanWellFounded
<1>2. \A y, x \in Nat : y < x => <<y, x>> \in Less
  BY DEF OpToRel
<1> HIDE DEF Less
<1>3. PICK m \in T : \A y \in T : ~ (<<y, m>> \in Less)
  BY <1>1, WFMin
<1>4. \A y \in T : ~ (y < m)
  BY <1>2, <1>3
<1>. QED
  BY <1>3, <1>4

\* A function on 1 .. k is a sequence of length k.
LEMMA FunctionIsSeq ==
  ASSUME NEW k \in Nat, NEW t \in [1 .. k -> Nat]
  PROVE  t \in Seq(Nat) /\ Len(t) = k
<1>1. t \in Seq(Nat)
  BY SeqDef
<1>2. DOMAIN t = 1 .. Len(t) /\ DOMAIN t = 1 .. k /\ Len(t) \in Nat
  BY <1>1, LenProperties
<1>. QED
  BY <1>1, <1>2

\* Where a ring begins, and where the place after its newest event is
\* (AgentRing.Since, AgentRing.Append).
LEMMA RingPlaces ==
  ASSUME NEW r \in Rings
  PROVE  /\ Oldest(r) = IF r.count <= r.head THEN r.head - r.count ELSE r.head - r.count + RingSize
         /\ Oldest(r) \in 0 .. RingSize - 1
         /\ \A i \in 0 .. RingSize :
              /\ Slot(r, i) = Wrap(Oldest(r) + i)
              /\ Slot(r, i) \in 0 .. RingSize - 1
         /\ Slot(r, r.count) = r.head
<1>1. RingSize \in Nat \ {0} /\ r.head \in 0 .. RingSize - 1 /\ r.count \in 0 .. RingSize
  BY FeedAssumption DEF Rings
<1>2. r.head - r.count + RingSize \in 0 .. 2 * RingSize - 1
  BY <1>1
<1>3. Oldest(r) = IF r.count <= r.head THEN r.head - r.count ELSE r.head - r.count + RingSize
  <2>1. Oldest(r) = Wrap(r.head - r.count + RingSize)
    BY <1>2, OncePast, Zenon DEF Oldest
  <2>. QED
    BY <1>1, <2>1 DEF Wrap
<1>4. Oldest(r) \in 0 .. RingSize - 1
  BY <1>1, <1>3
<1>5. ASSUME NEW i \in 0 .. RingSize
      PROVE  Slot(r, i) = Wrap(Oldest(r) + i)
  <2>1. Oldest(r) + i \in 0 .. 2 * RingSize - 1
    BY <1>1, <1>4
  <2>. QED
    BY <2>1, OncePast, Zenon DEF Slot
<1>6. \A i \in 0 .. RingSize : Slot(r, i) \in 0 .. RingSize - 1
  BY <1>1, <1>4, <1>5 DEF Wrap
<1>7. Slot(r, r.count) = r.head
  <2>1. Slot(r, r.count) = Wrap(Oldest(r) + r.count)
    BY <1>1, <1>5
  <2>. QED
    BY <1>1, <1>3, <2>1 DEF Wrap
<1>. QED
  BY <1>1, <1>3, <1>4, <1>5, <1>6, <1>7

\* An append keeps a ring the end of what was appended to it, whether it
\* grows or overwrites its oldest slot (AgentRing.Append).
LEMMA AppendHolds ==
  ASSUME NEW r \in Rings, NEW s \in Seq(Nat), Holds(r, s), NEW e \in Nat
  PROVE  RingAppend(r, e) \in Rings /\ Holds(RingAppend(r, e), Append(s, e))
<1> DEFINE q == RingAppend(r, e)
           u == Append(s, e)
<1>1. /\ RingSize \in Nat \ {0} /\ r.head \in 0 .. RingSize - 1 /\ r.count \in 0 .. RingSize
  BY FeedAssumption DEF Rings
<1>1a. r.slots \in [0 .. RingSize - 1 -> Nat]
  BY DEF Rings
<1>2a. q.slots = [r.slots EXCEPT ![r.head] = e]
  BY DEF RingAppend
<1>2. /\ q.head = IF r.head + 1 < RingSize THEN r.head + 1 ELSE 0
      /\ q.count = IF r.count < RingSize THEN r.count + 1 ELSE r.count
  <2>1. r.head + 1 \in 0 .. 2 * RingSize - 1
    BY <1>1
  <2>2. (r.head + 1) % RingSize = Wrap(r.head + 1)
    BY <2>1, OncePast, Zenon
  <2>3. (r.head + 1) % RingSize = IF r.head + 1 < RingSize THEN r.head + 1 ELSE 0
    BY <1>1, <2>2 DEF Wrap
  <2>. QED
    BY <2>3 DEF RingAppend
<1>3. q \in Rings
  <2>1. /\ q.slots \in [0 .. RingSize - 1 -> Nat]
        /\ q.head \in 0 .. RingSize - 1 /\ q.count \in 0 .. RingSize
    <3>1. q.slots \in [0 .. RingSize - 1 -> Nat]
      BY <1>1, <1>1a, <1>2a
    <3>2. q.head \in 0 .. RingSize - 1 /\ q.count \in 0 .. RingSize
      BY <1>1, <1>2
    <3>. QED
      BY <3>1, <3>2
  <2>2. q = [slots |-> q.slots, head |-> q.head, count |-> q.count]
    BY DEF RingAppend
  <2>. QED
    BY <2>1, <2>2 DEF Rings
<1>4. Oldest(r) = IF r.count <= r.head THEN r.head - r.count ELSE r.head - r.count + RingSize
  BY RingPlaces
<1>4a. ASSUME NEW i \in 0 .. RingSize PROVE Slot(r, i) = Wrap(Oldest(r) + i) /\ Slot(r, i) \in 0 .. RingSize - 1
  BY RingPlaces
<1>4b. Slot(r, r.count) = r.head /\ Oldest(r) \in 0 .. RingSize - 1
  BY RingPlaces
<1>5. Len(s) \in Nat /\ Len(u) = Len(s) + 1
  OBVIOUS
<1>5a. (\A i \in 1 .. Len(s) : u[i] = s[i]) /\ u[Len(s) + 1] = e
  OBVIOUS
<1> HIDE DEF q, u
<1>6. Oldest(q) = IF q.count <= q.head THEN q.head - q.count ELSE q.head - q.count + RingSize
  BY <1>3, RingPlaces
<1>6a. ASSUME NEW i \in 0 .. RingSize PROVE Slot(q, i) = Wrap(Oldest(q) + i)
  BY <1>3, RingPlaces
<1>7. r.count = IF Len(s) < RingSize THEN Len(s) ELSE RingSize
  BY DEF Holds
<1>7a. q.count = IF Len(u) < RingSize THEN Len(u) ELSE RingSize
  BY <1>1, <1>2, <1>5, <1>7
<1>7b. ASSUME NEW i \in 0 .. r.count - 1 PROVE r.slots[Slot(r, i)] = s[Len(s) - r.count + i + 1]
  BY DEF Holds
<1>8. ASSUME NEW i \in 0 .. q.count - 1
      PROVE  q.slots[Slot(q, i)] = u[Len(u) - q.count + i + 1]
  <2>1. CASE r.count < RingSize
    <3>1. Oldest(q) = Oldest(r) /\ q.count = r.count + 1
      BY <1>1, <1>2, <1>4, <1>6, <2>1, SMTT(90)
    <3>2. i \in 0 .. r.count /\ i \in 0 .. RingSize
      BY <1>1, <2>1, <3>1
    <3>3. Slot(q, i) = Slot(r, i)
      BY <1>4a, <1>6a, <3>1, <3>2
    <3>4. CASE i = r.count
      <4>1. Slot(r, i) = r.head
        BY <1>4b, <3>4
      <4>2. q.slots[r.head] = e
        BY <1>1, <1>1a, <1>2a
      <4>3. Len(u) - q.count + i + 1 = Len(s) + 1
        BY <1>1, <1>5, <3>1, <3>4
      <4>. QED
        BY <1>5a, <3>3, <4>1, <4>2, <4>3
    <3>5. CASE i < r.count
      <4>1. Slot(r, i) # r.head
        <5>1. Slot(r, i) = Wrap(Oldest(r) + i) /\ r.head = Wrap(Oldest(r) + r.count)
          BY <1>1, <1>4a, <1>4b, <3>2
        <5>. QED
          BY <1>1, <1>4b, <2>1, <3>2, <3>5, <5>1 DEF Wrap
      <4>2. q.slots[Slot(r, i)] = r.slots[Slot(r, i)]
        BY <1>1, <1>1a, <1>2a, <1>4a, <3>2, <4>1
      <4>3. i \in 0 .. r.count - 1
        BY <1>1, <3>2, <3>5
      <4>4. r.slots[Slot(r, i)] = s[Len(s) - r.count + i + 1]
        BY <1>7b, <4>3
      <4>5. /\ Len(u) - q.count + i + 1 = Len(s) - r.count + i + 1
            /\ Len(s) - r.count + i + 1 \in 1 .. Len(s)
        BY <1>1, <1>5, <1>7, <2>1, <3>1, <4>3
      <4>. QED
        BY <1>5a, <3>3, <4>2, <4>4, <4>5
    <3>. QED
      BY <1>1, <3>2, <3>4, <3>5
  <2>2. CASE ~(r.count < RingSize)
    <3>1. r.count = RingSize /\ q.count = RingSize /\ Oldest(r) = r.head /\ Oldest(q) = q.head
      BY <1>1, <1>2, <1>4, <1>6, <2>2, SMTT(30)
    <3>2. i \in 0 .. RingSize - 1 /\ i + 1 \in 0 .. RingSize /\ i \in 0 .. RingSize
      BY <1>1, <3>1
    <3>3. Slot(q, i) = Wrap(q.head + i)
      BY <1>6a, <3>1, <3>2
    <3>4. CASE i = RingSize - 1
      <4>1. Slot(q, i) = r.head
        BY <1>1, <1>2, <3>2, <3>3, <3>4 DEF Wrap
      <4>2. q.slots[r.head] = e
        BY <1>1, <1>1a, <1>2a
      <4>3. Len(u) - q.count + i + 1 = Len(s) + 1
        BY <1>1, <1>5, <3>1, <3>4
      <4>. QED
        BY <1>5a, <4>1, <4>2, <4>3
    <3>5. CASE i # RingSize - 1
      <4>1. i + 1 \in 0 .. RingSize - 1
        BY <1>1, <3>2, <3>5
      <4>2. Slot(r, i + 1) = Wrap(r.head + (i + 1))
        BY <1>4a, <3>1, <3>2
      <4>3. Slot(q, i) = Slot(r, i + 1) /\ Slot(r, i + 1) # r.head
        <5>1. i \in 0 .. RingSize - 2
          BY <1>1, <3>2, <4>1
        <5>. QED
          BY <1>1, <1>2, <3>3, <4>2, <5>1, NextPlace
      <4>4. q.slots[Slot(r, i + 1)] = r.slots[Slot(r, i + 1)]
        BY <1>1, <1>1a, <1>2a, <1>4a, <3>2, <4>3
      <4>5. i + 1 \in 0 .. r.count - 1
        BY <3>1, <4>1
      <4>6. r.slots[Slot(r, i + 1)] = s[Len(s) - r.count + (i + 1) + 1]
        BY <1>7b, <4>5
      <4>7. /\ Len(u) - q.count + i + 1 = Len(s) - r.count + (i + 1) + 1
            /\ Len(s) - r.count + (i + 1) + 1 \in 1 .. Len(s)
        <5>1. r.count <= Len(s)
          BY <1>1, <1>5, <1>7
        <5>2. i \in Int /\ i + 1 <= RingSize - 1 /\ 0 <= i
          BY <1>1, <3>2, <4>1
        <5>. QED
          BY <1>1, <1>5, <3>1, <5>1, <5>2
      <4>. QED
        BY <1>5a, <4>3, <4>4, <4>6, <4>7
    <3>. QED
      BY <3>4, <3>5
  <2>. QED
    BY <2>1, <2>2
<1>9. Holds(q, u)
  BY <1>7a, <1>8 DEF Holds
<1>. QED
  BY <1>3, <1>9 DEF q, u

\* Recent reads the last k events of the ring (AgentRing.Recent).
LEMMA RecentIsTail ==
  ASSUME NEW r \in Rings, NEW s \in Seq(Nat), Holds(r, s), NEW n \in 1 .. RingSize + 1
  PROVE  LET k == IF n > Len(s) THEN Len(s) ELSE IF n > RingSize THEN RingSize ELSE n
         IN  Recent(r, n) = SubSeq(s, Len(s) - k + 1, Len(s))
<1> DEFINE k == IF n > Len(s) THEN Len(s) ELSE IF n > RingSize THEN RingSize ELSE n
           m == IF n > r.count THEN r.count ELSE n
           start == (r.head - m + RingSize) % RingSize
           t == SubSeq(s, Len(s) - k + 1, Len(s))
<1>1. /\ RingSize \in Nat \ {0} /\ r.head \in 0 .. RingSize - 1 /\ r.count \in 0 .. RingSize
      /\ Len(s) \in Nat /\ n \in Nat
  BY FeedAssumption DEF Rings
<1>2. r.count = IF Len(s) < RingSize THEN Len(s) ELSE RingSize
  BY DEF Holds
<1>3. k = m /\ m \in 0 .. r.count /\ r.count <= Len(s)
  BY <1>1, <1>2
<1>4. Recent(r, n) = [i \in 1 .. m |-> r.slots[(start + i - 1) % RingSize]]
  BY DEF Recent
<1> HIDE DEF m, k
<1>5. /\ t \in Seq(Nat) /\ Len(t) = m
      /\ \A i \in 1 .. m : t[i] = s[Len(s) - m + i]
  <2>1. \A i \in Len(s) - k + 1 .. Len(s) : s[i] \in Nat
    BY <1>1, <1>3, ElementOfSeq
  <2>2. Len(s) - k + 1 \in Int /\ Len(s) \in Int
    BY <1>1, <1>3
  <2>3. /\ t \in Seq(Nat)
        /\ Len(t) = IF Len(s) - k + 1 <= Len(s) THEN Len(s) - (Len(s) - k + 1) + 1 ELSE 0
        /\ \A i \in 1 .. Len(s) - (Len(s) - k + 1) + 1 : t[i] = s[Len(s) - k + 1 + i - 1]
    BY <2>1, <2>2, SubSeqProperties
  <2>4. Len(s) - (Len(s) - k + 1) + 1 = m
    BY <1>1, <1>3
  <2>5. \A i \in 1 .. m : Len(s) - k + 1 + i - 1 = Len(s) - m + i
    BY <1>1, <1>3
  <2>. QED
    BY <1>1, <1>3, <2>3, <2>4, <2>5
<1>6. ASSUME NEW i \in 1 .. m
      PROVE  r.slots[(start + i - 1) % RingSize] = s[Len(s) - m + i]
  <2>1. start = Wrap(r.head - m + RingSize)
    <3>1. r.head - m + RingSize \in 0 .. 2 * RingSize - 1
      BY <1>1, <1>3
    <3>. QED
      BY <3>1, OncePast, Zenon
  <2> HIDE DEF start
  <2>2. start \in 0 .. RingSize - 1
    <3>1. r.head - m + RingSize \in 0 .. 2 * RingSize - 1
      BY <1>1, <1>3
    <3>. QED
      BY <2>1, <3>1, WrapIsPlace, Zenon
  <2>3. (start + i - 1) % RingSize = Wrap(start + i - 1)
    <3>1. start + i - 1 \in 0 .. 2 * RingSize - 1
      BY <1>1, <1>3, <2>2
    <3>. QED
      BY <3>1, OncePast, Zenon DEF start
  <2> DEFINE j == r.count - m + i - 1
  <2>4. j \in 0 .. r.count - 1 /\ j \in 0 .. RingSize
    BY <1>1, <1>3
  <2>5. Slot(r, j) = Wrap(Oldest(r) + j)
    BY <2>4, RingPlaces
  <2>6. Oldest(r) = IF r.count <= r.head THEN r.head - r.count ELSE r.head - r.count + RingSize
    BY RingPlaces
  <2>7. Wrap(start + i - 1) = Wrap(Oldest(r) + j)
    <3>1. Wrap(Wrap(r.head - m + RingSize) + i - 1)
            = Wrap((IF r.count <= r.head THEN r.head - r.count ELSE r.head - r.count + RingSize)
                     + (r.count - m + i - 1))
      BY <1>1, <1>3, FromOldest, Zenon
    <3>. QED
      BY <2>1, <2>6, <3>1, Zenon
  <2>8. r.slots[Slot(r, j)] = s[Len(s) - r.count + j + 1]
    BY <2>4 DEF Holds
  <2>9. Len(s) - r.count + j + 1 = Len(s) - m + i
    BY <1>1, <1>3
  <2>. QED
    BY <2>3, <2>5, <2>7, <2>8, <2>9
<1> HIDE DEF start
<1>7. Recent(r, n) = t
  <2> HIDE DEF t, start
  <2>1. t = [i \in 1 .. m |-> t[i]]
    BY <1>5, LenProperties
  <2>. QED
    BY <1>4, <1>5, <1>6, <2>1
<1>. QED
  BY <1>7 DEF k

\* Since answers everything that was appended after an event the ring still
\* holds (AgentRing.Since).
LEMMA SinceIsTail ==
  ASSUME NEW r \in Rings, NEW s \in Seq(Nat), Holds(r, s), NEW e, InRing(r, e)
  PROVE  /\ Since(r, e) \in Seq(Nat)
         /\ \E m \in 1 .. Len(s) :
              /\ s[m] = e /\ m + Len(Since(r, e)) <= Len(s)
              /\ \A i \in 1 .. Len(Since(r, e)) : Since(r, e)[i] = s[m + i]
<1> DEFINE At(i) == r.slots[(Oldest(r) + i) % RingSize]
           First(i) == At(i) = e /\ \A j \in 0 .. i - 1 : At(j) # e
           f == CHOOSE i \in 0 .. r.count - 1 : First(i)
           k == r.count - f - 1
           t == [i \in 1 .. k |-> r.slots[(Oldest(r) + f + i) % RingSize]]
<1>1. RingSize \in Nat \ {0} /\ r.count \in 0 .. RingSize /\ Len(s) \in Nat /\ r.count <= Len(s)
  BY FeedAssumption DEF Rings, Holds
<1>2. \E i \in 0 .. r.count - 1 : First(i)
  <2> DEFINE T == {i \in 0 .. r.count - 1 : At(i) = e}
  <2>1. T \subseteq Nat /\ T # {}
    BY <1>1 DEF InRing
  <2>2. PICK i \in T : \A j \in T : i <= j
    BY <2>1, LeastPlace
  <2>3. ASSUME NEW j \in 0 .. i - 1 PROVE At(j) # e
    <3>1. j \in 0 .. r.count - 1 /\ ~(i <= j)
      BY <1>1, <2>2
    <3>. QED
      BY <2>2, <3>1
  <2>. QED
    BY <2>2, <2>3
<1>3. Since(r, e) = t
  BY DEF Since
<1>4. f \in 0 .. r.count - 1 /\ At(f) = e
  BY <1>2
<1> HIDE DEF f
<1>5. k \in Nat /\ f \in Nat
  BY <1>1, <1>4
<1>6. ASSUME NEW i \in 0 .. r.count - 1
      PROVE  At(i) = s[Len(s) - r.count + i + 1] /\ At(i) \in Nat
  <2>1. At(i) = s[Len(s) - r.count + i + 1]
    BY DEF Holds, Slot
  <2>2. Len(s) - r.count + i + 1 \in 1 .. Len(s)
    BY <1>1
  <2>. QED
    BY <2>1, <2>2, ElementOfSeq
<1>7. ASSUME NEW i \in 1 .. k
      PROVE  t[i] = s[Len(s) - r.count + f + 1 + i] /\ t[i] \in Nat
  <2>0. Oldest(r) \in 0 .. RingSize - 1
    BY RingPlaces
  <2>1. f + i \in 0 .. r.count - 1 /\ Oldest(r) + f + i = Oldest(r) + (f + i)
    <3>1. i \in Nat /\ i <= r.count - f - 1 /\ f \in Nat /\ r.count \in Nat /\ Oldest(r) \in Nat
      BY <1>1, <1>5, <2>0
    <3> HIDE DEF k, t, At
    <3>. QED
      BY <3>1
  <2>2. t[i] = At(f + i)
    BY <2>1
  <2>3. Len(s) - r.count + (f + i) + 1 = Len(s) - r.count + f + 1 + i
    BY <1>1, <1>5
  <2> HIDE DEF t, At
  <2>. QED
    BY <1>6, <2>1, <2>2, <2>3
<1>8. t \in Seq(Nat) /\ Len(t) = k
  <2>1. t \in [1 .. k -> Nat]
    BY <1>7
  <2>. QED
    BY <1>5, <2>1, FunctionIsSeq
<1>9. /\ Len(s) - r.count + f + 1 \in 1 .. Len(s)
      /\ s[Len(s) - r.count + f + 1] = e
      /\ Len(s) - r.count + f + 1 + Len(t) <= Len(s)
  <2>1. f \in Nat /\ f <= r.count - 1 /\ Len(t) = r.count - f - 1
    BY <1>1, <1>4, <1>5, <1>8
  <2>2. s[Len(s) - r.count + f + 1] = e
    BY <1>4, <1>6
  <2> HIDE DEF t, k, At
  <2>3. r.count \in Nat /\ Len(s) \in Nat /\ r.count <= Len(s)
    BY <1>1
  <2>4. Len(s) - r.count + f + 1 \in 1 .. Len(s) /\ Len(s) - r.count + f + 1 + Len(t) <= Len(s)
    <3>1. /\ Len(s) - r.count + f + 1 \in 1 .. Len(s)
          /\ Len(s) - r.count + f + 1 + (r.count - f - 1) <= Len(s)
      BY <2>1, <2>3, PlaceFound, Zenon
    <3>. QED
      BY <2>1, <3>1, Zenon
  <2>. QED
    BY <2>2, <2>4
<1> HIDE DEF t
<1>. QED
  BY <1>3, <1>7, <1>8, <1>9

\* EventsSince answers a run of the rows after the row of an event, nothing
\* when it has none (EventsSince of both stores).
LEMMA EventsSinceIsRun ==
  ASSUME stored \in Seq(Nat), NEW e, NEW limit \in Nat
  PROVE  /\ EventsSince(e, limit) \in Seq(Nat)
         /\ e \notin Elements(stored) => EventsSince(e, limit) = <<>>
         /\ e \in Elements(stored) =>
              \E m \in 1 .. Len(stored) :
                /\ stored[m] = e /\ m + Len(EventsSince(e, limit)) <= Len(stored)
                /\ \A i \in 1 .. Len(EventsSince(e, limit)) : EventsSince(e, limit)[i] = stored[m + i]
<1>1. CASE e \notin Elements(stored)
  <2>1. EventsSince(e, limit) = <<>>
    BY <1>1 DEF EventsSince
  <2>2. <<>> \in Seq(Nat)
    BY EmptySeq
  <2>. QED
    BY <1>1, <2>1, <2>2
<1>2. CASE e \in Elements(stored)
  <2> DEFINE m == CHOOSE i \in DOMAIN stored : stored[i] = e
             top == IF m + limit < Len(stored) THEN m + limit ELSE Len(stored)
             t == SubSeq(stored, m + 1, top)
  <2>1. m \in DOMAIN stored /\ stored[m] = e
    BY <1>2 DEF Elements
  <2>2. EventsSince(e, limit) = t
    BY <1>2 DEF EventsSince
  <2>3. Len(stored) \in Nat /\ DOMAIN stored = 1 .. Len(stored)
    BY LenProperties
  <2> HIDE DEF m
  <2>4. m \in Nat /\ m >= 1 /\ m <= Len(stored) /\ top \in Nat /\ m <= top /\ top <= Len(stored)
    BY <2>1, <2>3
  <2> HIDE DEF top
  <2>5. \A i \in m + 1 .. top : stored[i] \in Nat
    BY <2>3, <2>4, ElementOfSeq
  <2>6. m + 1 \in Int /\ top \in Int
    BY <2>4
  <2>7. /\ t \in Seq(Nat)
        /\ Len(t) = IF m + 1 <= top THEN top - (m + 1) + 1 ELSE 0
        /\ \A i \in 1 .. top - (m + 1) + 1 : t[i] = stored[m + 1 + i - 1]
    BY <2>5, <2>6, SubSeqProperties
  <2> HIDE DEF t
  <2>8. Len(t) = top - m
    BY <2>4, <2>7
  <2>9. m + Len(t) <= Len(stored)
    BY <2>3, <2>4, <2>8
  <2>10. ASSUME NEW i \in 1 .. Len(t) PROVE t[i] = stored[m + i]
    <3>1. i \in 1 .. top - (m + 1) + 1 /\ m + 1 + i - 1 = m + i
      BY <2>4, <2>8
    <3>. QED
      BY <2>7, <3>1
  <2>. QED
    BY <1>2, <2>1, <2>2, <2>3, <2>7, <2>9, <2>10
<1>. QED
  BY <1>1, <1>2

-----------------------------------------------------------------------------
\* What a catch-up finds in s after the client's last event: t.
Found(s, t) ==
  /\ t \in Seq(Nat) /\ Rising(t) /\ Elements(t) \subseteq Elements(s)
  /\ \A x \in Elements(t) : watch.since < x
  /\ \A e \in Elements(s) : watch.since < e => e \in Elements(t) \/ \A x \in Elements(t) : x < e

\* A catch-up shows the client what follows its last event and remembers it,
\* so that what comes through the channel later is remembered or newer still
\* (handleWatch).
LEMMA ReplayKeeps ==
  ASSUME FeedType, OneByOne, ShownInOrder, watch.at \in {"ring", "db"},
         NEW s, s = stored \/ s = rung, NEW t, Found(s, t), Replay(t),
         UNCHANGED <<last, emits, stored, rung>>
  PROVE  OneByOne' /\ ShownInOrder'
<1>1. /\ watch'.at = "live" /\ watch'.chan = watch.chan /\ watch'.seen = Elements(t)
      /\ out' = out \o t
  BY DEF Replay, FeedType, Watches
<1>2. OneByOne' /\ Ahead' = Ahead
  BY <1>1 DEF OneByOne, Ahead, InFlight
<1>3. /\ out # <<>> /\ watch.since = out[Len(out)] /\ out \in Seq(Nat)
      /\ \A e \in Ahead, o \in Elements(out) : o < e
  BY DEF ShownInOrder, FeedType
<1>4. watch.since \in Elements(out) /\ watch.since \in Nat
      /\ \A o \in Elements(out) : o \in Nat /\ o <= watch.since
  <2>1. Len(out) \in Nat \ {0} /\ DOMAIN out = 1 .. Len(out)
    BY <1>3, EmptySeq, LenProperties
  <2>2. Len(out) \in DOMAIN out /\ \A i \in DOMAIN out : i = Len(out) \/ i < Len(out)
    BY <2>1
  <2>3. \A i \in DOMAIN out : out[i] \in Nat
    BY <1>3
  <2>4. \A i, j \in DOMAIN out : i < j => out[i] < out[j]
    BY DEF ShownInOrder, Rising
  <2>5. \A i \in DOMAIN out : out[i] <= out[Len(out)]
    BY <2>2, <2>3, <2>4
  <2>. QED
    BY <1>3, <2>2, <2>3, <2>5 DEF Elements
<1>5. t \in Seq(Nat) /\ Rising(t) /\ (\A x \in Elements(t) : x \in Nat /\ watch.since < x)
  <2>1. \A x \in Elements(t) : x \in Nat
    BY DEF Found, Elements
  <2>. QED
    BY <2>1 DEF Found
<1>6. Rising(out') /\ Elements(out') = Elements(out) \union Elements(t)
  <2>1. \A o \in Elements(out), x \in Elements(t) : o < x
    BY <1>4, <1>5
  <2>2. Rising(out)
    BY DEF ShownInOrder
  <2>. QED
    BY <1>1, <1>3, <1>5, <2>1, <2>2, ConcatRises
<1>7. Elements(out') \subseteq Elements(stored')
  <2>1. Elements(s) \subseteq Elements(stored)
    BY DEF OneByOne
  <2>2. Elements(out) \subseteq Elements(stored) /\ Elements(stored') = Elements(stored)
    BY DEF ShownInOrder
  <2>. QED
    BY <1>6, <2>1, <2>2 DEF Found
<1>8. ASSUME NEW e \in Ahead PROVE e \in watch'.seen \/ \A o \in Elements(out') : o < e
  <2>1. watch.since < e /\ e \in Nat /\ \A o \in Elements(out) : o < e
    <3>1. watch.since < e /\ \A o \in Elements(out) : o < e
      BY <1>3, <1>4
    <3>2. e \in Nat
      BY DEF Ahead, FeedType, Emits, Watches, Elements, InFlight
    <3>. QED
      BY <3>1, <3>2
  <2>2. e \in Elements(s) \/ \A x \in Elements(s) : x < e
    <3>1. CASE e \in Elements(watch.chan)
      BY <3>1 DEF OneByOne
    <3>2. CASE e \notin Elements(watch.chan) /\ e \notin Elements(s)
      <4>1. e = last /\ \A x \in Elements(s) : x \in Nat /\ x <= last
        <5>1. e = last
          BY <3>2 DEF OneByOne, Ahead
        <5>2. Elements(s) \subseteq Elements(stored) /\ Elements(stored) \subseteq Nat
          BY NumbersOf DEF OneByOne, FeedType
        <5>3. \A x \in Elements(stored) : x <= last
          BY DEF OneByOne
        <5>. QED
          BY <5>1, <5>2, <5>3
      <4>. QED
        BY <2>1, <3>2, <4>1
    <3>. QED
      BY <3>1, <3>2
  <2>3. e \in Elements(t) \/ \A x \in Elements(t) : x < e
    BY <2>1, <2>2 DEF Found
  <2>. QED
    BY <1>1, <1>6, <2>1, <2>3
<1>. QED
  BY <1>1, <1>2, <1>6, <1>7, <1>8 DEF ShownInOrder

-----------------------------------------------------------------------------
\* At first no event was emitted (Init).
LEMMA InitialFeed == Init => FeedInv
<1>. SUFFICES ASSUME Init PROVE FeedInv
  OBVIOUS
<1>1. RingSize \in Nat \ {0} /\ BufSize \in Nat \ {0}
  BY FeedAssumption
<1>2. <<>> \in Seq(Nat) /\ Len(<<>>) = 0 /\ Elements(<<>>) = {} /\ Rising(<<>>)
  BY EmptySeq DEF Elements, Rising
<1>3. FeedType
  <2>1. ring \in Rings
    BY <1>1 DEF Init, NewRing, Rings, NoEvent
  <2>2. watch \in Watches /\ emits \in Emits
    BY <1>2 DEF Init, NotWatching, NotEmitting, Watches, Emits, NoEvent
  <2>. QED
    BY <1>2, <2>1, <2>2 DEF Init, FeedType
<1>4. Holds(ring, rung)
  BY <1>1, <1>2 DEF Init, NewRing, Holds
<1>5. InFlight = {} /\ watch.chan = <<>> /\ watch.at = "off"
  BY DEF Init, InFlight, NotEmitting, NotWatching
<1>6. OneByOne
  BY <1>2, <1>5 DEF Init, OneByOne
<1>7. ShownInOrder
  BY <1>2, <1>5 DEF Init, ShownInOrder
<1>. QED
  BY <1>3, <1>4, <1>6, <1>7 DEF FeedInv

\* The event of an emitter in flight, when one is on its way at a time.
LEMMA InFlightFacts ==
  ASSUME FeedType, OneByOne, NEW g \in Emitter, emits[g].at # "idle"
  PROVE  InFlight = {g} /\ emits[g].event = last /\ last \in Ahead
  BY DEF OneByOne, InFlight, Ahead

\* FanoutBus.Emit begins.
LEMMA EmitKeepsFeed ==
  ASSUME FeedInv, NEW g \in Emitter, Emit(g)
  PROVE  FeedInv'
<1>1. FeedType /\ Holds(ring, rung)
  BY DEF FeedInv
<1>2. FeedType'
  BY <1>1 DEF Emit, FeedType, Emits
<1>3. Holds(ring, rung)'
  BY <1>1 DEF Emit, Holds, Slot, Oldest
<1>4. ASSUME Undelayed' PROVE OneByOne' /\ ShownInOrder'
  <2>1. /\ Undelayed /\ InFlight = {}
    BY <1>4 DEF Emit, Undelayed, InFlight
  <2>2. OneByOne /\ ShownInOrder
    BY <2>1 DEF FeedInv
  <2>3. /\ InFlight' = {g} /\ emits'[g] = [at |-> "store", event |-> last'] /\ last' = last + 1
        /\ stored' = stored /\ rung' = rung /\ watch' = watch /\ out' = out
    BY <1>1, <2>1 DEF Emit, InFlight, FeedType, Emits
  <2>4. \A e \in Elements(stored) : e \in Nat /\ e <= last /\ e < last' /\ e <= last'
    BY <1>1, <2>2, <2>3, NumbersOf DEF OneByOne, FeedType
  <2>5. Elements(rung) \subseteq Elements(stored) /\ Elements(watch.chan) \subseteq Elements(rung)
        /\ Elements(out) \subseteq Elements(stored)
    BY <2>2 DEF OneByOne, ShownInOrder
  <2>6. last' \notin Elements(stored)
    BY <1>1, <2>3, <2>4 DEF FeedType
  <2>7. OneByOne'
    BY <2>2, <2>3, <2>4, <2>5, <2>6 DEF OneByOne
  <2>8. Ahead = Elements(watch.chan) /\ Ahead' = Elements(watch.chan) \union {last'}
    BY <2>1, <2>3 DEF Ahead
  <2>9. \A o \in Elements(out) : o < last'
    BY <2>4, <2>5
  <2>. QED
    BY <2>2, <2>3, <2>7, <2>8, <2>9 DEF ShownInOrder
<1>. QED
  BY <1>2, <1>3, <1>4 DEF FeedInv

\* StoreSink.
LEMMA StoreKeepsFeed ==
  ASSUME FeedInv, NEW g \in Emitter, StoreHandle(g)
  PROVE  FeedInv'
<1>1. FeedType /\ Holds(ring, rung)
  BY DEF FeedInv
<1>2. /\ emits[g] \in [at : {"idle", "store", "ring", "cast"}, event : Nat]
      /\ emits[g].at = "store" /\ emits[g].event \in Nat
      /\ last' = last /\ rung' = rung /\ ring' = ring /\ watch' = watch /\ out' = out
  BY <1>1 DEF FeedType, Emits, StoreHandle
<1>3. /\ emits' \in Emits /\ InFlight' = InFlight /\ emits'[g].at = "ring"
      /\ \A h \in Emitter : emits'[h].event = emits[h].event /\ (h # g => emits'[h] = emits[h])
  BY <1>1, <1>2 DEF FeedType, Emits, StoreHandle, InFlight
<1>4. stored' = stored \/ stored' = Append(stored, emits[g].event)
  BY DEF StoreHandle, InsertEvent
<1>5. FeedType'
  BY <1>1, <1>2, <1>3, <1>4, AppendRises DEF FeedType
<1>6. Holds(ring, rung)'
  BY <1>1, <1>2 DEF Holds, Slot, Oldest
<1>7. ASSUME Undelayed' PROVE OneByOne' /\ ShownInOrder'
  <2>1. Undelayed /\ stored' = Append(stored, emits[g].event)
    BY <1>7 DEF StoreHandle, Undelayed, InsertEvent
  <2>2. OneByOne /\ ShownInOrder
    BY <2>1 DEF FeedInv
  <2>3. InFlight = {g} /\ emits[g].event = last
    BY <1>1, <1>2, <2>2, InFlightFacts
  <2>4. stored \in Seq(Nat) /\ last \in Nat /\ \A e \in Elements(stored) : e <= last /\ e < last
    <3>1. last \notin Elements(stored) /\ \A e \in Elements(stored) : e <= last
      BY <1>2, <2>2, <2>3 DEF OneByOne
    <3>. QED
      BY <1>1, <3>1, NumbersOf DEF FeedType
  <2>5. Rising(stored') /\ Elements(stored') = Elements(stored) \union {last}
    BY <2>1, <2>2, <2>3, <2>4, AppendRises DEF OneByOne
  <2>6. Elements(rung) \subseteq Elements(stored) /\ last \notin Elements(rung) /\ last \notin Elements(watch.chan)
    BY <2>2, <2>3, <2>4 DEF OneByOne, FeedType
  <2>7. \A e \in Elements(stored') : e <= last
    BY <2>4, <2>5
  <2>8. OneByOne'
    BY <1>2, <1>3, <2>2, <2>3, <2>5, <2>6, <2>7 DEF OneByOne
  <2>9. Ahead' = Ahead
    BY <1>2, <1>3 DEF Ahead, InFlight
  <2>. QED
    BY <1>2, <2>2, <2>5, <2>8, <2>9 DEF ShownInOrder
<1>. QED
  BY <1>5, <1>6, <1>7 DEF FeedInv

\* RingBufferSink, the ring.
LEMMA RingKeepsFeed ==
  ASSUME FeedInv, NEW g \in Emitter, RingHandle(g)
  PROVE  FeedInv'
<1>1. FeedType /\ Holds(ring, rung)
  BY DEF FeedInv
<1>2. /\ emits[g] \in [at : {"idle", "store", "ring", "cast"}, event : Nat]
      /\ emits[g].at = "ring" /\ emits[g].event \in Nat
      /\ last' = last /\ stored' = stored /\ watch' = watch /\ out' = out /\ lapses' = lapses
      /\ ring' = RingAppend(ring, emits[g].event) /\ rung' = Append(rung, emits[g].event)
  BY <1>1 DEF FeedType, Emits, RingHandle
<1>3. /\ emits' \in Emits /\ InFlight' = InFlight /\ emits'[g].at = "cast"
      /\ \A h \in Emitter : emits'[h].event = emits[h].event /\ (h # g => emits'[h] = emits[h])
  BY <1>1, <1>2 DEF FeedType, Emits, RingHandle, InFlight
<1>4. ring' \in Rings /\ Holds(ring', rung')
  BY <1>1, <1>2, AppendHolds DEF FeedType
<1>5. FeedType'
  BY <1>1, <1>2, <1>3, <1>4, AppendRises DEF FeedType
<1>6. Holds(ring, rung)'
  BY <1>4 DEF Holds, Slot, Oldest
<1>7. ASSUME Undelayed' PROVE OneByOne' /\ ShownInOrder'
  <2>2. OneByOne /\ ShownInOrder
    BY <1>2, <1>7 DEF FeedInv, Undelayed
  <2>3. InFlight = {g} /\ emits[g].event = last
    BY <1>1, <1>2, <2>2, InFlightFacts
  <2>4. last \in Elements(stored) /\ last \notin Elements(rung) /\ last \notin Elements(watch.chan)
        /\ Elements(rung) \subseteq Elements(stored) /\ \A e \in Elements(stored) : e <= last
    BY <1>2, <2>2, <2>3 DEF OneByOne
  <2>5. \A e \in Elements(rung) : e < last
    BY <1>1, <2>4, NumbersOf DEF FeedType
  <2>6. Rising(rung') /\ Elements(rung') = Elements(rung) \union {last}
    BY <1>1, <1>2, <2>2, <2>3, <2>5, AppendRises DEF OneByOne, FeedType
  <2>8. OneByOne'
    BY <1>2, <1>3, <2>2, <2>3, <2>4, <2>6 DEF OneByOne
  <2>9. Ahead' = Ahead
    BY <1>2, <1>3 DEF Ahead, InFlight
  <2>. QED
    BY <1>2, <2>2, <2>8, <2>9 DEF ShownInOrder
<1>. QED
  BY <1>5, <1>6, <1>7 DEF FeedInv

\* RingBufferSink, the hub (SSEHub.Broadcast).
LEMMA BroadcastKeepsFeed ==
  ASSUME FeedInv, NEW g \in Emitter, Broadcast(g)
  PROVE  FeedInv'
<1>1. FeedType /\ Holds(ring, rung)
  BY DEF FeedInv
<1>2. /\ emits[g] \in [at : {"idle", "store", "ring", "cast"}, event : Nat]
      /\ emits[g].at = "cast" /\ emits[g].event \in Nat
      /\ last' = last /\ stored' = stored /\ rung' = rung /\ ring' = ring /\ out' = out
  BY <1>1 DEF FeedType, Emits, Broadcast
<1>3. emits' \in Emits /\ InFlight' = InFlight \ {g} /\ \A h \in Emitter \ {g} : emits'[h] = emits[h]
  BY <1>1, <1>2 DEF FeedType, Emits, Broadcast, InFlight, NotEmitting, NoEvent
<1>4. /\ watch'.at = watch.at /\ watch'.since = watch.since /\ watch'.seen = watch.seen
      /\ watch' \in Watches
      /\ \/ watch'.chan = watch.chan
         \/ watch.at # "off" /\ watch'.chan = Append(watch.chan, emits[g].event)
  <2>1. watch \in Watches /\ Append(watch.chan, emits[g].event) \in Seq(Nat)
    BY <1>1, <1>2, AppendRises DEF FeedType, Watches
  <2>. QED
    BY <2>1 DEF Broadcast, Offer, Watches
<1>5. FeedType'
  BY <1>1, <1>2, <1>3, <1>4 DEF FeedType
<1>6. Holds(ring, rung)'
  BY <1>1, <1>2 DEF Holds, Slot, Oldest
<1>7. ASSUME Undelayed' PROVE OneByOne' /\ ShownInOrder'
  <2>1. OneByOne /\ ShownInOrder
    BY <1>7 DEF Broadcast, Undelayed, FeedInv
  <2>2. InFlight = {g} /\ InFlight' = {} /\ emits[g].event = last /\ last \in Ahead
    BY <1>1, <1>2, <1>3, <2>1, InFlightFacts
  <2>3. last \in Elements(rung) /\ last \notin Elements(watch.chan)
        /\ Elements(watch.chan) \subseteq Elements(rung) /\ Elements(rung) \subseteq Elements(stored)
        /\ \A e \in Elements(stored) : e <= last
    BY <1>2, <2>1, <2>2 DEF OneByOne
  <2>4. \A e \in Elements(watch.chan) : e < last
    BY <1>1, <2>3, NumbersOf DEF FeedType
  <2>5. Rising(watch'.chan) /\ Elements(watch'.chan) \subseteq Elements(watch.chan) \union {last}
    <3>1. Rising(watch.chan) /\ watch.chan \in Seq(Nat) /\ last \in Nat
      BY <1>1, <2>1 DEF OneByOne, FeedType, Watches
    <3>. QED
      BY <1>4, <2>2, <2>4, <3>1, AppendRises
  <2>6. OneByOne'
    BY <1>2, <2>1, <2>2, <2>3, <2>5 DEF OneByOne
  <2>7. Ahead' \subseteq Ahead
    BY <2>2, <2>5 DEF Ahead
  <2>8. watch'.at = "off" => watch'.chan = <<>>
    BY <1>4, <2>1 DEF ShownInOrder
  <2>. QED
    BY <1>2, <1>4, <2>1, <2>6, <2>7, <2>8 DEF ShownInOrder
<1>. QED
  BY <1>5, <1>6, <1>7 DEF FeedInv

\* handleWatch subscribes.  A client that subscribes again resumes after all
\* it has been shown, and no event it was shown is still on its way.
LEMMA SubscribeKeepsFeed ==
  ASSUME FeedInv, Subscribe
  PROVE  FeedInv'
<1>1. FeedType /\ Holds(ring, rung)
  BY DEF FeedInv
<1>2. /\ last' = last /\ stored' = stored /\ rung' = rung /\ ring' = ring /\ out' = out
      /\ emits' = emits
  BY DEF Subscribe
<1>3. /\ watch'.at = (IF out = <<>> THEN "live" ELSE "ring")
      /\ watch'.since = (IF out = <<>> THEN NoEvent ELSE out[Len(out)])
      /\ watch'.chan = <<>> /\ watch'.seen = {}
  BY DEF Subscribe, NotWatching
<1>4. watch' \in Watches
  <2>1. out # <<>> => out[Len(out)] \in Nat
    BY <1>1, EmptySeq, ElementOfSeq DEF FeedType
  <2>2. <<>> \in Seq(Nat) /\ NoEvent \in Nat
    BY EmptySeq DEF NoEvent
  <2>. QED
    BY <2>1, <2>2 DEF Subscribe, NotWatching, Watches
<1>5. FeedType'
  BY <1>1, <1>2, <1>4 DEF FeedType
<1>6. Holds(ring, rung)'
  BY <1>1, <1>2 DEF Holds, Slot, Oldest
<1>7. ASSUME Undelayed' PROVE OneByOne' /\ ShownInOrder'
  <2>1. Undelayed /\ \A g \in Emitter : emits[g].event \notin Elements(out)
    BY <1>7 DEF Subscribe, Undelayed
  <2>2. OneByOne /\ ShownInOrder
    BY <2>1 DEF FeedInv
  <2>3. InFlight' = InFlight /\ Elements(watch'.chan) = {} /\ Rising(watch'.chan)
    BY <1>2, <1>3 DEF InFlight, Elements, Rising
  <2>4. OneByOne'
    BY <1>2, <2>2, <2>3 DEF OneByOne
  <2>5. ASSUME NEW e \in Ahead', NEW o \in Elements(out) PROVE o < e
    <3>1. PICK g \in InFlight : e = emits[g].event
      BY <1>2, <2>3 DEF Ahead
    <3>2. e = last /\ last \notin Elements(out)
      BY <2>1, <2>2, <3>1 DEF OneByOne, InFlight
    <3>3. o <= last /\ o \in Nat /\ last \in Nat
      BY <1>1, <2>2, NumbersOf DEF OneByOne, ShownInOrder, FeedType
    <3>. QED
      BY <3>2, <3>3
  <2>6. watch'.at \in {"live", "ring"} /\ (watch'.at = "ring" => out # <<>> /\ watch'.since = out[Len(out)])
    BY <1>3
  <2>. QED
    BY <1>2, <1>3, <2>2, <2>4, <2>5, <2>6 DEF ShownInOrder
<1>. QED
  BY <1>5, <1>6, <1>7 DEF FeedInv

\* A catch-up that finds a sequence of events is one of numbers
\* (handleWatch).
LEMMA ReplayTypes ==
  ASSUME FeedType, NEW t \in Seq(Nat), Replay(t)
  PROVE  out' \in Seq(Nat) /\ watch' \in Watches
  BY ConcatRises, NumbersOf DEF FeedType, Replay, Watches

\* The catch-up from the ring, or its miss.
LEMMA CatchUpRingKeepsFeed ==
  ASSUME FeedInv, CatchUpRing
  PROVE  FeedInv'
<1>1. FeedType /\ Holds(ring, rung)
  BY DEF FeedInv
<1>2. /\ last' = last /\ stored' = stored /\ rung' = rung /\ ring' = ring /\ lapses' = lapses
      /\ emits' = emits /\ watch.at = "ring" /\ rung \in Seq(Nat) /\ ring \in Rings
  BY <1>1 DEF CatchUpRing, FeedType
<1>3. Holds(ring, rung)'
  BY <1>1, <1>2 DEF Holds, Slot, Oldest
<1>4. CASE InRing(ring, watch.since) /\ Replay(Since(ring, watch.since))
  <2>0. /\ Since(ring, watch.since) \in Seq(Nat)
        /\ \E m \in 1 .. Len(rung) :
             /\ rung[m] = watch.since /\ m + Len(Since(ring, watch.since)) <= Len(rung)
             /\ \A i \in 1 .. Len(Since(ring, watch.since)) : Since(ring, watch.since)[i] = rung[m + i]
    <3>1. InRing(ring, watch.since) /\ ring \in Rings /\ rung \in Seq(Nat) /\ Holds(ring, rung)
      BY <1>1, <1>2, <1>4
    <3> HIDE <1>4
    <3>. QED
      BY <3>1, SinceIsTail
  <2> DEFINE t == Since(ring, watch.since)
  <2>1. t \in Seq(Nat)
    BY <2>0
  <2>2. PICK m \in 1 .. Len(rung) : /\ rung[m] = watch.since /\ m + Len(t) <= Len(rung)
                                    /\ \A i \in 1 .. Len(t) : t[i] = rung[m + i]
    BY <2>0
  <2> HIDE DEF t
  <2>3. FeedType'
    BY <1>1, <1>2, <1>4, <2>1, ReplayTypes DEF FeedType, t
  <2>4. ASSUME Undelayed' PROVE OneByOne' /\ ShownInOrder'
    <3>1. OneByOne /\ ShownInOrder
      BY <1>2, <2>4 DEF FeedInv, Undelayed
    <3>2. Found(rung, t)
      <4>1. Rising(rung)
        BY <3>1 DEF OneByOne
      <4>. QED
        BY <1>2, <2>1, <2>2, <4>1, WindowRises DEF Found
    <3>. QED
      BY <1>1, <1>2, <1>4, <3>1, <3>2, ReplayKeeps DEF t
  <2>. QED
    BY <1>3, <2>3, <2>4 DEF FeedInv
<1>5. CASE watch' = [watch EXCEPT !.at = "db"] /\ UNCHANGED out
  <2>1. /\ watch'.at = "db" /\ watch'.since = watch.since /\ watch'.chan = watch.chan
        /\ watch'.seen = watch.seen /\ watch' \in Watches /\ out' = out
    BY <1>1, <1>5 DEF FeedType, Watches
  <2>2. FeedType'
    BY <1>1, <1>2, <2>1 DEF FeedType
  <2>3. ASSUME Undelayed' PROVE OneByOne' /\ ShownInOrder'
    <3>1. OneByOne /\ ShownInOrder
      BY <1>2, <2>3 DEF FeedInv, Undelayed
    <3>2. OneByOne' /\ Ahead' = Ahead
      BY <1>2, <2>1, <3>1 DEF OneByOne, Ahead, InFlight
    <3>. QED
      BY <1>2, <2>1, <3>1, <3>2 DEF ShownInOrder
  <2>. QED
    BY <1>3, <2>2, <2>3 DEF FeedInv
<1>. QED
  BY <1>4, <1>5 DEF CatchUpRing

\* The catch-up from the store.
LEMMA CatchUpStoreKeepsFeed ==
  ASSUME FeedInv, CatchUpStore
  PROVE  FeedInv'
<1> DEFINE t == EventsSince(watch.since, RingSize)
<1>1. FeedType /\ Holds(ring, rung)
  BY DEF FeedInv
<1>2. /\ last' = last /\ stored' = stored /\ rung' = rung /\ ring' = ring
      /\ emits' = emits /\ watch.at = "db" /\ stored \in Seq(Nat) /\ Replay(t)
      /\ lapses \subseteq lapses'
  BY <1>1 DEF CatchUpStore, FeedType
<1>3. Holds(ring, rung)'
  BY <1>1, <1>2 DEF Holds, Slot, Oldest
<1>4. RingSize \in Nat
  BY FeedAssumption
<1>5. t \in Seq(Nat)
  BY <1>2, <1>4, EventsSinceIsRun
<1>6. FeedType'
  BY <1>1, <1>2, <1>5, ReplayTypes DEF FeedType
<1>7. ASSUME Undelayed' PROVE OneByOne' /\ ShownInOrder'
  <2>1. OneByOne /\ ShownInOrder
    BY <1>2, <1>7 DEF FeedInv, Undelayed
  <2>2. Found(stored, t)
    <3>1. CASE watch.since \in Elements(stored)
      <4>1. PICK m \in 1 .. Len(stored) : /\ stored[m] = watch.since /\ m + Len(t) <= Len(stored)
                                          /\ \A i \in 1 .. Len(t) : t[i] = stored[m + i]
        BY <1>2, <1>4, <3>1, EventsSinceIsRun
      <4> HIDE DEF t
      <4>2. Rising(stored)
        BY <2>1 DEF OneByOne
      <4>. QED
        BY <1>2, <1>5, <4>1, <4>2, WindowRises DEF Found
    <3>2. CASE watch.since \notin Elements(stored)
      <4>1. t = <<>>
        BY <1>2, <1>4, <3>2, EventsSinceIsRun
      <4>2. Elements(<<>>) = {} /\ Rising(<<>>)
        BY DEF Elements, Rising
      <4>. QED
        BY <1>5, <4>1, <4>2 DEF Found
    <3>. QED
      BY <3>1, <3>2
  <2> HIDE DEF t
  <2>. QED
    BY <1>1, <1>2, <2>1, <2>2, ReplayKeeps
<1>. QED
  BY <1>3, <1>6, <1>7 DEF FeedInv

\* The live loop.
LEMMA ForwardKeepsFeed ==
  ASSUME FeedInv, Forward
  PROVE  FeedInv'
<1> DEFINE e == Head(watch.chan)
<1>1. FeedType /\ Holds(ring, rung)
  BY DEF FeedInv
<1>2. /\ last' = last /\ stored' = stored /\ rung' = rung /\ ring' = ring /\ lapses' = lapses
      /\ emits' = emits /\ watch.at = "live" /\ watch.chan # <<>>
      /\ watch.chan \in Seq(Nat) /\ out \in Seq(Nat)
  BY <1>1 DEF Forward, FeedType, Watches
<1>3. Holds(ring, rung)'
  BY <1>1, <1>2 DEF Holds, Slot, Oldest
<1>4. /\ Tail(watch.chan) \in Seq(Nat) /\ e \in Nat
      /\ Elements(watch.chan) = {e} \union Elements(Tail(watch.chan))
      /\ Rising(watch.chan) => /\ Rising(Tail(watch.chan))
                               /\ \A x \in Elements(Tail(watch.chan)) : e < x
  BY <1>2, TailRises
<1> HIDE DEF e
<1>5. /\ watch'.at = "live" /\ watch'.chan = Tail(watch.chan) /\ watch' \in Watches
      /\ \/ e \in watch.seen /\ watch'.seen = watch.seen /\ out' = out
         \/ e \notin watch.seen /\ watch'.seen = {} /\ out' = Append(out, e)
  BY <1>1, <1>2, <1>4 DEF Forward, FeedType, Watches, e
<1>6. FeedType'
  BY <1>1, <1>2, <1>4, <1>5, AppendRises DEF FeedType
<1>7. ASSUME Undelayed' PROVE OneByOne' /\ ShownInOrder'
  <2>1. OneByOne /\ ShownInOrder
    BY <1>2, <1>7 DEF FeedInv, Undelayed
  <2>2. OneByOne'
    <3>1. InFlight' = InFlight /\ Rising(watch'.chan) /\ Elements(watch'.chan) \subseteq Elements(watch.chan)
      BY <1>2, <1>4, <1>5, <2>1 DEF InFlight, OneByOne
    <3>. QED
      BY <1>2, <2>1, <3>1 DEF OneByOne
  <2>3. Ahead' \subseteq Ahead /\ e \in Ahead
    BY <1>2, <1>4, <1>5 DEF Ahead, InFlight
  <2>4. \A d \in Ahead : d \in watch.seen \/ \A o \in Elements(out) : o < d
    BY <1>2, <2>1 DEF ShownInOrder
  <2>5. CASE e \in watch.seen /\ watch'.seen = watch.seen /\ out' = out
    BY <1>2, <1>5, <2>1, <2>2, <2>3, <2>4, <2>5 DEF ShownInOrder
  <2>6. CASE e \notin watch.seen /\ watch'.seen = {} /\ out' = Append(out, e)
    <3>1. \A o \in Elements(out) : o < e
      BY <2>3, <2>4, <2>6
    <3>2. Rising(out') /\ Elements(out') = Elements(out) \union {e}
      BY <1>2, <1>4, <2>1, <2>6, <3>1, AppendRises DEF ShownInOrder
    <3>3. Elements(out') \subseteq Elements(stored')
      BY <1>2, <1>4, <2>1, <3>2 DEF ShownInOrder, OneByOne
    <3>4. ASSUME NEW d \in Ahead' PROVE e < d
      <4>1. CASE d \in Elements(Tail(watch.chan))
        BY <1>4, <2>1, <4>1 DEF OneByOne
      <4>2. CASE d \notin Elements(Tail(watch.chan))
        <5>1. d = last /\ d \notin Elements(watch.chan)
          BY <1>2, <1>5, <2>1, <4>2 DEF Ahead, InFlight, OneByOne
        <5>2. e # last /\ e <= last /\ last \in Nat
          BY <1>1, <1>4, <2>1, <5>1 DEF OneByOne, FeedType
        <5>. QED
          BY <1>4, <5>1, <5>2
      <4>. QED
        BY <4>1, <4>2
    <3>5. ASSUME NEW d \in Ahead', NEW o \in Elements(out') PROVE o < d
      <4>1. d \in Nat /\ o \in Nat /\ e < d
        <5>1. Elements(watch'.chan) \subseteq Nat /\ Elements(out') \subseteq Nat
          BY <1>6, NumbersOf DEF FeedType, Watches
        <5>2. \A g \in Emitter : emits'[g].event \in Nat
          BY <1>6 DEF FeedType, Emits
        <5>. QED
          BY <3>4, <5>1, <5>2 DEF Ahead, InFlight
      <4>2. o = e \/ (o < e /\ o \in Nat)
        BY <3>1, <3>2, <4>1
      <4>. QED
        BY <1>4, <4>1, <4>2
    <3>. QED
      BY <1>5, <2>2, <3>2, <3>3, <3>5 DEF ShownInOrder
  <2>. QED
    BY <1>5, <2>5, <2>6
<1>. QED
  BY <1>3, <1>6, <1>7 DEF FeedInv

\* The handler unsubscribes.
LEMMA DisconnectKeepsFeed ==
  ASSUME FeedInv, Disconnect
  PROVE  FeedInv'
<1>1. FeedType /\ Holds(ring, rung)
  BY DEF FeedInv
<1>2. /\ last' = last /\ stored' = stored /\ rung' = rung /\ ring' = ring /\ lapses' = lapses
      /\ emits' = emits /\ out' = out
      /\ watch'.at = "off" /\ watch'.chan = <<>>
  BY DEF Disconnect, NotWatching
<1>3. <<>> \in Seq(Nat) /\ Elements(<<>>) = {} /\ Rising(<<>>)
  BY EmptySeq DEF Elements, Rising
<1>4. FeedType'
  BY <1>1, <1>2, <1>3 DEF FeedType, Disconnect, NotWatching, NoEvent, Watches
<1>5. Holds(ring, rung)'
  BY <1>1, <1>2 DEF Holds, Slot, Oldest
<1>6. ASSUME Undelayed' PROVE OneByOne' /\ ShownInOrder'
  <2>1. OneByOne /\ ShownInOrder
    BY <1>2, <1>6 DEF FeedInv, Undelayed
  <2>2. OneByOne'
    BY <1>2, <1>3, <2>1 DEF OneByOne, InFlight
  <2>. QED
    BY <1>2, <2>1, <2>2 DEF ShownInOrder
<1>. QED
  BY <1>4, <1>5, <1>6 DEF FeedInv

\* The control plane restarts: the store stays, and what the client was shown.
LEMMA RestartKeepsFeed ==
  ASSUME FeedInv, Restart
  PROVE  FeedInv'
<1>1. FeedType /\ Holds(ring, rung) /\ RingSize \in Nat \ {0}
  BY FeedAssumption DEF FeedInv
<1>2. /\ last' = last /\ stored' = stored /\ rung' = <<>> /\ ring' = NewRing /\ lapses' = lapses
      /\ emits' = [g \in Emitter |-> NotEmitting] /\ out' = out
      /\ watch' = NotWatching /\ watch'.at = "off" /\ watch'.chan = <<>>
  BY DEF Restart, NotWatching
<1>3. <<>> \in Seq(Nat) /\ Len(<<>>) = 0 /\ Elements(<<>>) = {} /\ Rising(<<>>)
  BY EmptySeq DEF Elements, Rising
<1>4. ring' \in Rings /\ Holds(ring', rung')
  BY <1>1, <1>2, <1>3 DEF NewRing, Rings, NoEvent, Holds
<1>5. FeedType'
  <2>1. emits' \in Emits /\ watch' \in Watches
    BY <1>2, <1>3 DEF NotEmitting, NotWatching, NoEvent, Emits, Watches
  <2>. QED
    BY <1>1, <1>2, <1>3, <1>4, <2>1 DEF FeedType
<1>6. Holds(ring, rung)'
  BY <1>4 DEF Holds, Slot, Oldest
<1>7. ASSUME Undelayed' PROVE OneByOne' /\ ShownInOrder'
  <2>1. OneByOne /\ ShownInOrder
    BY <1>2, <1>7 DEF FeedInv, Undelayed
  <2>2. InFlight' = {}
    BY <1>2 DEF InFlight, NotEmitting
  <2>3. OneByOne'
    BY <1>2, <1>3, <2>1, <2>2 DEF OneByOne
  <2>. QED
    BY <1>2, <2>1, <2>3 DEF ShownInOrder
<1>. QED
  BY <1>5, <1>6, <1>7 DEF FeedInv

\* The inductive invariant of the feed: the ring is the end of what was
\* appended to it, and while nothing delays an event, one is on its way at a
\* time, each place keeps the order of emission, and what may still reach the
\* client is remembered or newer than all it was shown.
THEOREM FeedInvariant == Spec => []FeedInv
<1>1. FeedInv /\ [Next]_vars => FeedInv'
  <2> SUFFICES ASSUME FeedInv, [Next]_vars PROVE FeedInv'
    OBVIOUS
  <2>1. CASE \E g \in Emitter : Emit(g) \/ StoreHandle(g) \/ RingHandle(g) \/ Broadcast(g)
    BY <2>1, EmitKeepsFeed, StoreKeepsFeed, RingKeepsFeed, BroadcastKeepsFeed
  <2>2. CASE Subscribe
    BY <2>2, SubscribeKeepsFeed
  <2>3. CASE CatchUpRing
    BY <2>3, CatchUpRingKeepsFeed
  <2>4. CASE CatchUpStore
    BY <2>4, CatchUpStoreKeepsFeed
  <2>5. CASE Forward
    BY <2>5, ForwardKeepsFeed
  <2>6. CASE Disconnect
    BY <2>6, DisconnectKeepsFeed
  <2>7. CASE Restart
    BY <2>7, RestartKeepsFeed
  <2>8. CASE UNCHANGED vars
    <3>1. /\ FeedType' = FeedType /\ Undelayed' = Undelayed /\ ShownInOrder' = ShownInOrder
          /\ OneByOne' = OneByOne
      BY <2>8 DEF vars, FeedType, Undelayed, ShownInOrder, OneByOne, Ahead, InFlight
    <3>2. Holds(ring, rung)' = Holds(ring, rung)
      BY <2>8 DEF vars, Holds, Slot, Oldest
    <3>. QED
      BY <3>1, <3>2 DEF FeedInv
  <2>. QED
    BY <2>1, <2>2, <2>3, <2>4, <2>5, <2>6, <2>7, <2>8 DEF Next
<1>. QED
  BY <1>1, InitialFeed, PTL DEF Spec

\* What a client of the ring and of the watch endpoint is shown is in order
\* and not twice, for any number of emitters, events, connections and
\* restarts and any sizes of the ring and of the channel (AgentRing.Recent,
\* handleWatch).
THEOREM FeedIsSound == Spec => []FeedSound
<1>1. FeedInv => FeedSound
  <2> SUFFICES ASSUME FeedInv PROVE RingIsTail /\ NoRepeat
    BY DEF FeedSound
  <2>1. FeedType /\ Holds(ring, rung)
    BY DEF FeedInv
  <2>2. RingIsTail
    BY <2>1, RecentIsTail DEF RingIsTail, FeedType
  <2>3. ASSUME Undelayed, NEW i \in DOMAIN out, NEW j \in DOMAIN out, out[i] = out[j] PROVE i = j
    <3>1. Rising(out) /\ DOMAIN out = 1 .. Len(out) /\ Len(out) \in Nat /\ out[i] \in Nat
      BY <2>1, <2>3, LenProperties, ElementOfSeq DEF FeedInv, ShownInOrder, FeedType
    <3>2. ~(i < j) /\ ~(j < i)
      BY <2>3, <3>1 DEF Rising
    <3>. QED
      BY <3>1, <3>2
  <2>. QED
    BY <2>2, <2>3 DEF NoRepeat, Undelayed
<1>. QED
  BY <1>1, FeedInvariant, PTL

=============================================================================
