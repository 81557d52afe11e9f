----------------------------- MODULE EventFeed -----------------------------
(***************************************************************************)
(* How an event of one agent reaches a client that watches it: FanoutBus   *)
(* hands it to the store, then to the ring buffer and the SSE hub; the     *)
(* watch handler catches a client up from ring or store and then forwards  *)
(* what the hub puts in its channel; the client reconnects with the id of  *)
(* the last event it saw.                                                  *)
(***************************************************************************)
EXTENDS Naturals, Sequences, FiniteSets

CONSTANTS
  Emitter,     \* goroutines that emit events of the agent
  MaxEvent,    \* bound: events emitted
  RingSize,    \* capacity of the agent's ring
  BufSize,     \* capacity of a subscriber's channel
  MaxConn,     \* bound: connections the client opens
  MaxRestart   \* bound: restarts of the control plane

ASSUME FeedAssumption ==
  /\ MaxEvent \in Nat /\ MaxConn \in Nat /\ MaxRestart \in Nat
  /\ RingSize \in Nat \ {0} /\ BufSize \in Nat \ {0}

VARIABLES
  last,      \* events emitted so far: an event is its number, its id too
  emits,     \* emitter -> the Emit call it is in
  stored,    \* agent_events, in insertion order
  ring,      \* AgentRing: slots, head, count
  rung,      \* every event appended to this ring
  watch,     \* the watch request being served
  out,       \* what the client has received
  conns,     \* connections opened so far
  restarts,  \* restarts so far
  lapses     \* history: what the feed does not make up for, of Lapse

vars == <<last, emits, stored, ring, rung, watch, out, conns, restarts, lapses>>

\* overlap: two emitters were at it at once.  full: an event met a full
\* channel.  unstored: the insert of an event failed.  evicted: a client had
\* missed more than the ring holds, or its last event is not in the store.
\* early: a client that was shown an event by a catch-up subscribed again
\* before the hub broadcast that event.
Lapse == {"overlap", "full", "unstored", "evicted", "early"}

Event   == 1 .. MaxEvent
NoEvent == 0

NewRing == [slots |-> [i \in 0 .. RingSize - 1 |-> NoEvent], head |-> 0, count |-> 0]
NotWatching == [at |-> "off", since |-> NoEvent, chan |-> <<>>, seen |-> {}]
NotEmitting == [at |-> "idle", event |-> NoEvent]

TypeOK ==
  /\ last \in 0 .. MaxEvent
  /\ emits \in [Emitter -> [at : {"idle", "store", "ring", "cast"},
                            event : Event \union {NoEvent}]]
  /\ \A s \in {stored, rung, out, watch.chan} : \A i \in DOMAIN s : s[i] \in Event
  /\ ring \in [slots : [0 .. RingSize - 1 -> Event \union {NoEvent}],
               head  : 0 .. RingSize - 1,
               count : 0 .. RingSize]
  /\ watch.at \in {"off", "ring", "db", "live"}
  /\ watch.since \in Event \union {NoEvent}
  /\ watch.seen \subseteq Event
  /\ Len(watch.chan) <= BufSize
  /\ conns \in 0 .. MaxConn /\ restarts \in 0 .. MaxRestart
  /\ lapses \subseteq Lapse

Init ==
  /\ last = 0
  /\ emits = [g \in Emitter |-> NotEmitting]
  /\ stored = <<>> /\ ring = NewRing /\ rung = <<>>
  /\ watch = NotWatching /\ out = <<>>
  /\ conns = 0 /\ restarts = 0 /\ lapses = {}

(***************************************************************************)
(* AgentRing                                                               *)
(***************************************************************************)
RingAppend(r, e) ==
  [slots |-> [r.slots EXCEPT ![r.head] = e],
   head  |-> (r.head + 1) % RingSize,
   count |-> IF r.count < RingSize THEN r.count + 1 ELSE r.count]

\* The last n events, oldest first.
Recent(r, n) ==
  LET k     == IF n > r.count THEN r.count ELSE n
      start == (r.head - k + RingSize) % RingSize
  IN  [i \in 1 .. k |-> r.slots[(start + i - 1) % RingSize]]

Oldest(r) == (r.head - r.count + RingSize) % RingSize

InRing(r, e) == \E i \in 0 .. r.count - 1 : r.slots[(Oldest(r) + i) % RingSize] = e

\* The events after e, for an e in the ring.
Since(r, e) ==
  LET found == CHOOSE i \in 0 .. r.count - 1 :
                 /\ r.slots[(Oldest(r) + i) % RingSize] = e
                 /\ \A j \in 0 .. i - 1 : r.slots[(Oldest(r) + j) % RingSize] # e
  IN  [i \in 1 .. r.count - found - 1 |-> r.slots[(Oldest(r) + found + i) % RingSize]]

(***************************************************************************)
(* FanoutBus.Emit: the sinks one after the other                           *)
(***************************************************************************)
Emit(g) ==
  /\ emits[g].at = "idle" /\ last < MaxEvent
  /\ last'  = last + 1
  /\ emits' = [emits EXCEPT ![g] = [at |-> "store", event |-> last + 1]]
  /\ lapses' = IF \E h \in Emitter : emits[h].at # "idle" THEN lapses \union {"overlap"} ELSE lapses
  /\ UNCHANGED <<stored, ring, rung, watch, out, conns, restarts>>

\* A row of agent_events, of either store; its id is its place.
InsertEvent(e) == stored' = Append(stored, e)

\* StoreSink; its failure is logged and Emit goes on.
StoreHandle(g) ==
  /\ emits[g].at = "store"
  /\ \/ /\ InsertEvent(emits[g].event)
        /\ UNCHANGED lapses
     \/ /\ lapses' = lapses \union {"unstored"}
        /\ UNCHANGED stored
  /\ emits' = [emits EXCEPT ![g].at = "ring"]
  /\ UNCHANGED <<last, ring, rung, watch, out, conns, restarts>>

\* RingBufferSink: EventStore.Append.
RingHandle(g) ==
  /\ emits[g].at = "ring"
  /\ ring'  = RingAppend(ring, emits[g].event)
  /\ rung'  = Append(rung, emits[g].event)
  /\ emits' = [emits EXCEPT ![g].at = "cast"]
  /\ UNCHANGED <<last, stored, watch, out, conns, restarts, lapses>>

\* Broadcast does not block: an event for a full channel is dropped.
Offer(chan, e) == IF Len(chan) < BufSize THEN Append(chan, e) ELSE chan

\* RingBufferSink: SSEHub.Broadcast.
Broadcast(g) ==
  /\ emits[g].at = "cast"
  /\ watch' = IF watch.at = "off" THEN watch
                ELSE [watch EXCEPT !.chan = Offer(@, emits[g].event)]
  /\ emits' = [emits EXCEPT ![g] = NotEmitting]
  /\ lapses' = IF watch.at # "off" /\ Len(watch.chan) = BufSize
                 THEN lapses \union {"full"} ELSE lapses
  /\ UNCHANGED <<last, stored, ring, rung, out, conns, restarts>>

(***************************************************************************)
(* The client and handleWatch                                              *)
(***************************************************************************)

Elements(s) == {s[i] : i \in DOMAIN s}

\* streamSSE connects with its last event id; the handler subscribes before
\* it looks at the history.
Subscribe ==
  /\ watch.at = "off" /\ conns < MaxConn
  /\ conns' = conns + 1
  /\ watch' = [NotWatching EXCEPT !.at    = IF out = <<>> THEN "live" ELSE "ring",
                                  !.since = IF out = <<>> THEN NoEvent ELSE out[Len(out)]]
  /\ lapses' = IF \E g \in Emitter : emits[g].event \in Elements(out)
                 THEN lapses \union {"early"} ELSE lapses
  /\ UNCHANGED <<last, emits, stored, ring, rung, out, restarts>>

\* The handler writes the history it found and remembers its ids.
Replay(events) ==
  /\ out'   = out \o events
  /\ watch' = [watch EXCEPT !.at = "live", !.seen = Elements(events)]

\* Catch-up from the ring; a miss goes to the store.
CatchUpRing ==
  /\ watch.at = "ring"
  /\ \/ InRing(ring, watch.since) /\ Replay(Since(ring, watch.since))
     \/ /\ ~InRing(ring, watch.since)
        /\ watch' = [watch EXCEPT !.at = "db"]
        /\ UNCHANGED out
  /\ UNCHANGED <<last, emits, stored, ring, rung, conns, restarts, lapses>>

\* EventsSince: the first limit rows after the row of since, none when that
\* row does not exist.
EventsSince(e, limit) ==
  LET at == CHOOSE i \in DOMAIN stored : stored[i] = e
  IN  IF e \notin Elements(stored) THEN <<>>
      ELSE SubSeq(stored, at + 1, IF at + limit < Len(stored) THEN at + limit ELSE Len(stored))

\* Mutant: a ring miss is taken for an empty history.
CatchUpStoreNothing ==
  /\ watch.at = "db"
  /\ Replay(<<>>)
  /\ UNCHANGED <<last, emits, stored, ring, rung, conns, restarts, lapses>>

\* Catch-up from the store.
CatchUpStore ==
  /\ watch.at = "db"
  /\ Replay(EventsSince(watch.since, RingSize))
  /\ lapses' = IF watch.since \in Elements(stored)
                    /\ EventsSince(watch.since, RingSize) = EventsSince(watch.since, MaxEvent)
                 THEN lapses ELSE lapses \union {"evicted"}
  /\ UNCHANGED <<last, emits, stored, ring, rung, conns, restarts>>

\* Mutant: nothing is deduplicated.
ForwardAlways ==
  /\ watch.at = "live" /\ watch.chan # <<>>
  /\ out'   = Append(out, Head(watch.chan))
  /\ watch' = [watch EXCEPT !.chan = Tail(@)]
  /\ UNCHANGED <<last, emits, stored, ring, rung, conns, restarts, lapses>>

\* The live loop: an event of the history is skipped; the first that is not
\* ends the deduplication.
Forward ==
  /\ watch.at = "live" /\ watch.chan # <<>>
  /\ LET e == Head(watch.chan) IN
       \/ /\ e \in watch.seen
          /\ watch' = [watch EXCEPT !.chan = Tail(@)]
          /\ UNCHANGED out
       \/ /\ e \notin watch.seen
          /\ watch' = [watch EXCEPT !.chan = Tail(@), !.seen = {}]
          /\ out'   = Append(out, e)
  /\ UNCHANGED <<last, emits, stored, ring, rung, conns, restarts, lapses>>

\* The connection breaks and the handler unsubscribes.  The last one of a
\* behaviour stays.
Disconnect ==
  /\ watch.at # "off" /\ conns < MaxConn
  /\ watch' = NotWatching
  /\ UNCHANGED <<last, emits, stored, ring, rung, out, conns, restarts, lapses>>

\* The control plane restarts: ring, hub and emits are gone.
Restart ==
  /\ restarts < MaxRestart /\ conns < MaxConn
  /\ restarts' = restarts + 1
  /\ emits' = [g \in Emitter |-> NotEmitting]
  /\ ring' = NewRing /\ rung' = <<>>
  /\ watch' = NotWatching
  /\ UNCHANGED <<last, stored, out, conns, lapses>>

Next ==
  \/ \E g \in Emitter : Emit(g) \/ StoreHandle(g) \/ RingHandle(g) \/ Broadcast(g)
  \/ Subscribe \/ CatchUpRing \/ CatchUpStore \/ Forward \/ Disconnect \/ Restart

Spec == Init /\ [][Next]_vars

(***************************************************************************)
(* Fairness: emits in flight and the handler go on, and the client         *)
(* reconnects, with backoff but for ever.                                  *)
(***************************************************************************)
Fairness ==
  /\ \A g \in Emitter : WF_vars(StoreHandle(g) \/ RingHandle(g) \/ Broadcast(g))
  /\ WF_vars(conns > 0 /\ Subscribe)
  /\ WF_vars(CatchUpRing \/ CatchUpStore) /\ WF_vars(Forward)

FairSpec == Spec /\ Fairness

(***************************************************************************)
(* Properties                                                              *)
(***************************************************************************)

\* Recent returns exactly the newest events appended, oldest first, for
\* every n, also after the ring has wrapped (AgentRing.Recent).
RingIsTail ==
  \A n \in 1 .. RingSize + 1 :
    LET k == IF n > Len(rung) THEN Len(rung) ELSE IF n > RingSize THEN RingSize ELSE n
    IN  Recent(ring, n) = SubSeq(rung, Len(rung) - k + 1, Len(rung))

\* A client is shown no event twice, across reconnects (the deduplication
\* of handleWatch), as long as the agent's events are all stored, and emitted
\* one after the other (ring and hub may else get them in different orders),
\* and the client does not subscribe again between the catch-up that showed
\* it an event and the broadcast of that event: seenIDs holds what this
\* request replayed, and not the event the client resumes from.
NoRepeat == lapses \subseteq {"full", "evicted"} => \A i, j \in DOMAIN out : out[i] = out[j] => i = j

\* What a client of the ring and of the watch endpoint is shown is in order and
\* not twice (AgentRing.Recent, handleWatch).
FeedSound == RingIsTail /\ NoRepeat

\* A client that has been shown an event is shown every event stored after
\* it, over reconnects and restarts (subscribing before catching up, ring
\* before store) - what is lost is lost to a lapse.
ClientCatchesUp ==
  <>[](\/ lapses \ {"early"} # {}
       \/ \A i, j \in DOMAIN stored :
            i < j /\ stored[i] \in Elements(out) => stored[j] \in Elements(out))

=============================================================================
