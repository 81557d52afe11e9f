---------------------------- MODULE MemoryQueue ----------------------------
(***************************************************************************)
(* The mission queue of a daemon without PostgreSQL (internal/queue/       *)
(* memory.go): a map of missions and a bounded channel in the memory of    *)
(* the daemon, beside agent rows that outlive it.  Enqueue inserts the row *)
(* and blocks on a full channel; the workers are goroutines of the daemon; *)
(* a restart forgets every mission, counts ids from one again and fails    *)
(* the agents whose missions it does not know (cmd/serve.go).              *)
(***************************************************************************)
EXTENDS Naturals, Sequences, FiniteSets

CONSTANTS
    Agent,            \* names of agents, each used once
    InProcess,       \* the daemon's workers
    Capacity,        \* of the channel
    MaxLife,         \* bound: starts of the daemon
    MaxKilling       \* bound: requests to kill at once
ASSUME MemoryAssumption == Capacity \in Nat \ {0} /\ MaxLife \in Nat \ {0}

VARIABLES
    row,             \* of each agent: its status and the id of its mission
    missions,        \* of each id: its status and its agent
    channel,         \* ids
    enqueue,         \* of each task, the place of its Enqueue
    holds,           \* of each worker, its place, id and task
    killing,         \* the requests to kill: task and id read from the row
    life, serving    \* the start of the daemon, and whether it is past reconciliation
memoryVars == <<row, missions, channel, enqueue, holds, killing, life, serving>>

NoRowYet == [status |-> "none", mission |-> 0]
Free == [at |-> "free", id |-> 0, task |-> "none"]

MemoryInit ==
    /\ row = [t \in Agent |-> NoRowYet] /\ missions = <<>> /\ channel = <<>>
    /\ enqueue = [t \in Agent |-> "none"] /\ holds = [w \in InProcess |-> Free]
    /\ killing = {} /\ life = 1 /\ serving = TRUE

MemoryTypeOK ==
    /\ \A t \in Agent : row[t].status \in {"none", "Queued", "Running", "Completed", "Failed", "Stopped"}
    /\ \A i \in DOMAIN missions : missions[i].status \in {"reserved", "pending", "claimed", "completed", "failed", "cancelled"}
    /\ Len(channel) <= Capacity /\ life \in 1..MaxLife

SetMission(i, s) == missions' = [missions EXCEPT ![i].status = s]
Known(i) == i \in DOMAIN missions /\ missions[i].status # "reserved"
Mark(t, from, to) == row' = IF row[t].status \in from THEN [row EXCEPT ![t].status = to] ELSE row

(***************************************************************************)
(* Enqueue: the id, the row, the map and then the channel.                 *)
(***************************************************************************)

Persist(t) ==
    /\ serving /\ enqueue[t] = "none"
    /\ missions' = Append(missions, [status |-> "reserved", task |-> t])
    /\ row' = [row EXCEPT ![t] = [status |-> "Queued", mission |-> Len(missions) + 1]]
    /\ enqueue' = [enqueue EXCEPT ![t] = "persisted"]
    /\ UNCHANGED <<channel, holds, killing, life, serving>>

PutPending(t) ==
    /\ enqueue[t] = "persisted" /\ SetMission(row[t].mission, "pending")
    /\ enqueue' = [enqueue EXCEPT ![t] = "sending"]
    /\ UNCHANGED <<row, channel, holds, killing, life, serving>>

Send(t) ==
    /\ enqueue[t] = "sending" /\ Len(channel) < Capacity
    /\ channel' = Append(channel, row[t].mission)
    /\ enqueue' = [enqueue EXCEPT ![t] = "ok"]
    /\ UNCHANGED <<row, missions, holds, killing, life, serving>>

\* The request was given up: row and mission stay.
SendCancelled(t) ==
    /\ enqueue[t] = "sending" /\ enqueue' = [enqueue EXCEPT ![t] = "given up"]
    /\ UNCHANGED <<row, missions, channel, holds, killing, life, serving>>

(***************************************************************************)
(* The workers.                                                            *)
(***************************************************************************)

\* Dequeue skips what was cancelled in the channel.
Dequeue(w) ==
    /\ holds[w].at = "free" /\ channel # <<>> /\ channel' = Tail(channel)
    /\ LET i == Head(channel) IN
       IF missions[i].status # "pending" THEN UNCHANGED <<holds, missions>>
       ELSE /\ SetMission(i, "claimed")
            /\ holds' = [holds EXCEPT ![w] = [at |-> "claim", id |-> i, task |-> missions[i].task]]
    /\ UNCHANGED <<row, enqueue, killing, life, serving>>

\* Ack and Fail write whatever the status is.
End(w, s) == SetMission(holds[w].id, s) /\ holds' = [holds EXCEPT ![w] = Free]

\* executeMission: the claim of the agent, the look at the mission, the work.
ClaimQueuedAgent(w) ==
    /\ holds[w].at = "claim" /\ Mark(holds[w].task, {"Queued"}, "Running")
    /\ IF row[holds[w].task].status = "Queued"
       THEN holds' = [holds EXCEPT ![w].at = "check"] /\ UNCHANGED missions
       ELSE End(w, "failed")
    /\ UNCHANGED <<channel, enqueue, killing, life, serving>>

CheckCancelled(w) ==
    /\ holds[w].at = "check"
    /\ IF missions[holds[w].id].status = "cancelled"
       THEN Mark(holds[w].task, {"Queued", "Running"}, "Stopped") /\ End(w, "failed")
       ELSE holds' = [holds EXCEPT ![w].at = "work"] /\ UNCHANGED <<row, missions>>
    /\ UNCHANGED <<channel, enqueue, killing, life, serving>>

\* A run that ends well for an agent that has already ended fails the mission.
Work(w) ==
    /\ holds[w].at = "work"
    /\ \/ /\ row[holds[w].task].status = "Running"
          /\ Mark(holds[w].task, {"Running"}, "Completed") /\ End(w, "completed")
       \/ Mark(holds[w].task, {"Queued", "Running"}, "Failed") /\ End(w, "failed")
    /\ UNCHANGED <<channel, enqueue, killing, life, serving>>

(***************************************************************************)
(* Kill of a queued agent, and the daemon.                                 *)
(***************************************************************************)

Kill(t) ==
    /\ serving /\ row[t].status \in {"Queued", "Running"} /\ Cardinality(killing) < MaxKilling
    /\ killing' = killing \cup {<<t, row[t].mission, "cancel">>}
    /\ UNCHANGED <<row, missions, channel, enqueue, holds, life, serving>>

\* Cancel, and then the row; a mission that is not known is no reason to stop.
Cancel(k) ==
    /\ k \in killing /\ k[3] = "cancel" /\ killing' = (killing \ {k}) \cup {<<k[1], k[2], "mark">>}
    /\ IF Known(k[2]) /\ missions[k[2]].status \in {"pending", "claimed"}
       THEN SetMission(k[2], "cancelled") ELSE UNCHANGED missions
    /\ UNCHANGED <<row, channel, enqueue, holds, life, serving>>

MarkStopped(k) ==
    /\ k \in killing /\ k[3] = "mark" /\ killing' = killing \ {k}
    /\ Mark(k[1], {"Queued", "Running"}, "Stopped")
    /\ UNCHANGED <<missions, channel, enqueue, holds, life, serving>>

Restart ==
    /\ life < MaxLife /\ life' = life + 1 /\ serving' = FALSE
    /\ missions' = <<>> /\ channel' = <<>> /\ killing' = {} /\ holds' = [w \in InProcess |-> Free]
    /\ enqueue' = [t \in Agent |-> IF enqueue[t] = "none" THEN "none" ELSE "given up"]
    /\ UNCHANGED row

ReconcileNothing ==
    /\ ~serving /\ serving' = TRUE /\ UNCHANGED <<row, missions, channel, enqueue, holds, killing, life>>

\* reconcileOrphanedQueuedAgents, before the daemon serves anybody: what it
\* cannot load or write stays, and nobody hears of it.
ForgottenRows == {t \in Agent : row[t].status = "Queued" /\ ~Known(row[t].mission)}

ReconcileOrphaned ==
    /\ ~serving /\ serving' = TRUE
    /\ \E missed \in SUBSET ForgottenRows :
         /\ row' = [t \in Agent |-> IF t \in ForgottenRows \ missed THEN [row[t] EXCEPT !.status = "Failed"] ELSE row[t]]
         /\ enqueue' = [t \in Agent |-> IF t \in missed THEN "missed" ELSE enqueue[t]]
    /\ UNCHANGED <<missions, channel, holds, killing, life>>

MemoryNext ==
    \/ \E t \in Agent : Persist(t) \/ PutPending(t) \/ Send(t) \/ SendCancelled(t) \/ Kill(t)
    \/ \E w \in InProcess : Dequeue(w) \/ ClaimQueuedAgent(w) \/ CheckCancelled(w) \/ Work(w)
    \/ \E k \in killing : Cancel(k) \/ MarkStopped(k)
    \/ Restart \/ ReconcileOrphaned

MemorySpec == MemoryInit /\ [][MemoryNext]_memoryVars

\* While the daemon serves (Enqueue, Dequeue, reconcileOrphanedQueuedAgents),
\* an agent shown as Queued is being enqueued, waits in the channel as a
\* pending mission, is in the hands of exactly one worker, or is being killed;
\* so nobody waits for a mission that a restart forgot or a full channel kept
\* out.  A worker's mission is its agent's and is in no other hands.  The
\* exceptions are a request given up at a full channel, whose row stays Queued,
\* a row whose reconciliation failed, and an id that a Running row of an earlier life still names: the kill of
\* that row cancels the mission of the new agent.
QueuedIsWaiting ==
    /\ serving => \A t \in Agent : row[t].status = "Queued" =>
         LET i == row[t].mission IN
         \/ enqueue[t] \in {"persisted", "sending"} \/ (enqueue[t] = "given up" /\ Known(i)) \/ enqueue[t] = "missed"
         \/ \E k \in killing : k[1] = t
         \/ Known(i) /\ missions[i].status = "cancelled" /\ \E u \in Agent \ {t} : row[u].mission = i
         \/ Known(i) /\ missions[i].task = t /\ missions[i].status = "pending"
              /\ Cardinality({n \in DOMAIN channel : channel[n] = i}) = 1
         \/ \E w \in InProcess : holds[w].id = i /\ holds[w].task = t
    /\ \A w, v \in InProcess : holds[w].at # "free" =>
         /\ missions[holds[w].id].task = holds[w].task /\ missions[holds[w].id].status \in {"claimed", "cancelled"}
         /\ holds[v].id = holds[w].id => v = w
         /\ \A n \in DOMAIN channel : channel[n] # holds[w].id
=============================================================================
