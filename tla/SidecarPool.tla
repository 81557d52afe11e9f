---------------------------- MODULE SidecarPool ----------------------------
(***************************************************************************)
(* The strategy runners: N Python processes, each behind a Unix socket     *)
(* with one connection and one mutex, and the pool that spreads the calls  *)
(* over them.  A call takes the mutex, writes its request and waits for    *)
(* the next line; nothing on the wire says which request a line answers.   *)
(* A broken connection is repaired by the call that meets it.              *)
(***************************************************************************)
EXTENDS Naturals, Sequences

CONSTANTS
  N,            \* size of the pool
  Reader,       \* callers of List and Describe
  Runner,       \* callers of Run
  Creator,      \* callers of Create, all for the same new strategy
  Managed,      \* who may restart a runner: a subset of Management
  MaxBreaks,    \* bound: connections or processes that break
  MaxRefusals   \* bound: local restarts that fail

\* gateway: the process is the gateway's child.  kubernetes: it is a container.
Management == {"gateway", "kubernetes"}

Caller  == Reader \union Runner \union Creator
Sidecar == 0..(N - 1)

ASSUME SidecarAssumption ==
  /\ N \in Nat \ {0}
  /\ Managed \subseteq Management
  /\ MaxBreaks \in Nat /\ MaxRefusals \in Nat
  /\ Reader \intersect Runner = {} /\ Creator \intersect (Reader \union Runner) = {}

VARIABLES
  managed,      \* who restarts the runners of this deployment; never changes
  side,         \* what the gateway knows of each sidecar
  wire,         \* each runner process and what is on its socket
  call,         \* the calls in progress
  executed,     \* how often the runners processed each call
  strategy,     \* the new strategy is in the strategy directory
  next,         \* the round-robin counter, modulo N
  breaks,
  refusals,
  late          \* a deadline has passed before the runner answered

work == <<side, wire, call, executed, strategy, next, breaks, refusals, late>>

vars == <<managed, work>>

(***************************************************************************)
(* Types                                                                   *)
(***************************************************************************)
NoOne == "none"

Conn == {"open", "closed", "nil"}  \* closed: by the peer

SideState == [conn : Conn, healthy : BOOLEAN, lastFailure : Nat, epoch : Nat]

\* epoch tells the connections of one sidecar apart; done is the request that
\* has been executed and not answered.
Request == [by : Caller, epoch : Nat]
Reply   == [by : Caller, ok : BOOLEAN]
Done    == [by : Caller, ok : BOOLEAN, epoch : Nat]

WireState == [up : BOOLEAN, requests : Seq(Request), done : Seq(Done),
              replies : Seq(Reply)]

Result == {"none", "ok", "error", "transport", "restarted"}

CallState == [pc      : {"ready", "pick", "oldest", "check", "heal", "send", "recv",
                         "restart", "again", "done", "panic"},
              sc      : Sidecar,     \* the sidecar of this call
              i       : 0..N,        \* loop counter of pick and broadcast
              attempt : {1, 2},      \* of withRetry
              round   : {1, 2},      \* of broadcast
              phase   : {"none", "write", "read"},
              result  : Result,
              answer  : Caller \union {NoOne}]

TypeOK ==
  /\ side \in [Sidecar -> SideState]
  /\ wire \in [Sidecar -> WireState]
  /\ call \in [Caller -> CallState]
  /\ executed \in [Caller -> Nat]
  /\ strategy \in BOOLEAN
  /\ next \in Sidecar
  /\ breaks \in 0..MaxBreaks /\ refusals \in 0..MaxRefusals
  /\ late \in BOOLEAN /\ managed \in Managed

NewCall == [pc |-> "ready", sc |-> 0, i |-> 0, attempt |-> 1, round |-> 1,
            phase |-> "none", result |-> "none", answer |-> NoOne]

Fresh == [up |-> TRUE, requests |-> <<>>, done |-> <<>>, replies |-> <<>>]

Init ==
  /\ managed \in Managed
  /\ side = [s \in Sidecar |-> [conn |-> "open", healthy |-> TRUE, lastFailure |-> 0,
                                epoch |-> 0]]
  /\ wire = [s \in Sidecar |-> Fresh]
  /\ call = [c \in Caller |-> NewCall]
  /\ executed = [c \in Caller |-> 0]
  /\ strategy = FALSE
  /\ next = 0
  /\ breaks = 0
  /\ refusals = 0
  /\ late = FALSE

\* The mutex is held from the write to the read of sendRecv.
Locked(s) == \E c \in Caller : call[c].pc = "recv" /\ call[c].sc = s

At(c, pc) == call[c].pc = pc

Become(c, k) == call' = [call EXCEPT ![c] = k]

(***************************************************************************)
(* Choosing a sidecar                                                      *)
(***************************************************************************)
Start(c) ==
  /\ At(c, "ready")
  /\ IF c \in Creator
       THEN Become(c, [call[c] EXCEPT !.pc = "check"]) /\ UNCHANGED next
       ELSE /\ Become(c, [call[c] EXCEPT !.pc = "pick", !.sc = next])
            /\ next' = (next + 1) % N
  /\ UNCHANGED <<side, wire, executed, strategy, breaks, refusals, late>>

\* pick: Healthy() of the next sidecar waits for that sidecar's mutex.
Pick(c) ==
  /\ At(c, "pick") /\ ~Locked(call[c].sc)
  /\ Become(c, IF side[call[c].sc].healthy THEN [call[c] EXCEPT !.pc = "send", !.i = 0]
               ELSE IF call[c].i + 1 = N THEN [call[c] EXCEPT !.pc = "oldest", !.i = 1, !.sc = 0]
               ELSE [call[c] EXCEPT !.i = @ + 1, !.sc = (@ + 1) % N])
  /\ UNCHANGED <<side, wire, executed, strategy, next, breaks, refusals, late>>

\* All unhealthy: the one that failed first.
Oldest(c) ==
  /\ At(c, "oldest") /\ ~Locked(call[c].sc)
  /\ LET i == call[c].i IN
       IF i = N THEN Become(c, [call[c] EXCEPT !.pc = "send", !.i = 0])
       ELSE /\ ~Locked(i)
            /\ Become(c, [call[c] EXCEPT !.i = @ + 1,
                            !.sc = IF side[i].lastFailure < side[@].lastFailure THEN i ELSE @])
  /\ UNCHANGED <<side, wire, executed, strategy, next, breaks, refusals, late>>

\* broadcast: sidecar i, healed first when it is unhealthy.
Check(c) ==
  /\ At(c, "check") /\ ~Locked(call[c].i)
  /\ Become(c, [call[c] EXCEPT !.sc = call[c].i, !.attempt = 1, !.round = 1,
                  !.pc = IF side[call[c].i].healthy THEN "send" ELSE "heal"])
  /\ UNCHANGED <<side, wire, executed, strategy, next, breaks, refusals, late>>

NextSidecar(k) ==
  IF k.i + 1 = N THEN [k EXCEPT !.pc = "done", !.result = "ok"]
  ELSE [k EXCEPT !.pc = "check", !.i = @ + 1]

(***************************************************************************)
(* sendRecv, withRetry, broadcast                                          *)
(***************************************************************************)

\* withRetry returned r; broadcast tries a sidecar once more.
Return(c, k, r) ==
  IF c \notin Creator THEN [k EXCEPT !.pc = "done", !.result = r]
  ELSE IF r = "ok" THEN NextSidecar(k)
  ELSE IF r = "transport" /\ k.round = 1 THEN [k EXCEPT !.pc = "again"]
  ELSE IF r = "restarted" /\ k.round = 1
    THEN [k EXCEPT !.pc = "send", !.attempt = 1, !.round = 2]
  ELSE [k EXCEPT !.pc = "done", !.result = r]

\* A transport error of fn: the first is followed by a restart.
TransportError(c, phase) ==
  IF call[c].attempt = 1 THEN [call[c] EXCEPT !.pc = "restart", !.phase = phase]
  ELSE Return(c, call[c], "transport")

Unhealthy(s) ==
  side' = [side EXCEPT ![s].healthy = FALSE,
             ![s].lastFailure = 1 + CHOOSE m \in {side[x].lastFailure : x \in Sidecar} :
                                      \A x \in Sidecar : side[x].lastFailure <= m]

\* The write of sendRecv, once the mutex is held.
Write(c) ==
  /\ At(c, "send")
  /\ LET s == call[c].sc IN
       \/ /\ side[s].conn = "open"
          /\ wire' = [wire EXCEPT ![s].requests = Append(@, [by |-> c, epoch |-> side[s].epoch])]
          /\ Become(c, [call[c] EXCEPT !.pc = "recv"])
          /\ UNCHANGED side
       \/ /\ side[s].conn = "closed"
          /\ Unhealthy(s)
          /\ Become(c, TransportError(c, "write"))
          /\ UNCHANGED wire
       \/ /\ side[s].conn = "nil"       \* s.conn.SetDeadline on a nil interface
          /\ Become(c, [call[c] EXCEPT !.pc = "panic"])
          /\ UNCHANGED <<side, wire>>
  /\ UNCHANGED <<executed, strategy, next, breaks, refusals, late>>

\* Mutant: sendRecv without the mutex.
SendUnlocked(c) == Write(c)

Send(c) == ~Locked(call[c].sc) /\ Write(c)

\* The next line of the socket, whoever it is for.
Recv(c) ==
  /\ At(c, "recv")
  /\ LET s == call[c].sc
         r == Head(wire[s].replies) IN
       /\ wire[s].replies # <<>>
       /\ wire' = [wire EXCEPT ![s].replies = Tail(@)]
       /\ Become(c, Return(c, [call[c] EXCEPT !.answer = r.by],
                           IF r.ok THEN "ok" ELSE "error"))
  /\ UNCHANGED <<side, executed, strategy, next, breaks, refusals, late>>

RecvEof(c) ==
  /\ At(c, "recv")
  /\ wire[call[c].sc].replies = <<>>
  /\ side[call[c].sc].conn = "closed"
  /\ Unhealthy(call[c].sc)
  /\ Become(c, TransportError(c, "read"))
  /\ UNCHANGED <<wire, executed, strategy, next, breaks, refusals, late>>

\* Mutant: only Run sets a deadline.
RecvTimeoutRunOnly(c) ==
  /\ c \in Runner
  /\ At(c, "recv")
  /\ wire[call[c].sc].replies = <<>>
  /\ Become(c, Return(c, call[c], "error"))
  /\ late' = TRUE
  /\ UNCHANGED <<side, wire, executed, strategy, next, breaks, refusals>>

\* A passed deadline is no transport error; the connection stays as it is.
RecvTimeout(c) ==
  /\ At(c, "recv")
  /\ wire[call[c].sc].replies = <<>>
  /\ Become(c, Return(c, call[c], "error"))
  /\ late' = TRUE
  /\ UNCHANGED <<side, wire, executed, strategy, next, breaks, refusals>>

(***************************************************************************)
(* restart: under the mutex, with the connection set to nil first          *)
(***************************************************************************)
Restarted(s) ==
  /\ side' = [side EXCEPT ![s].conn = "open", ![s].healthy = TRUE, ![s].epoch = @ + 1]
  /\ IF managed = "kubernetes"
       THEN wire[s].up /\ wire' = [wire EXCEPT ![s].replies = <<>>]
       ELSE wire' = [wire EXCEPT ![s] = Fresh]
  /\ UNCHANGED refusals

RestartFailed(s) ==
  /\ side' = [side EXCEPT ![s].conn = "nil"]
  /\ IF managed = "kubernetes"
       THEN /\ ~wire[s].up
            /\ wire' = [wire EXCEPT ![s].replies = <<>>]
            /\ UNCHANGED refusals
       ELSE /\ refusals < MaxRefusals
            /\ refusals' = refusals + 1
            /\ wire' = [wire EXCEPT ![s] = [Fresh EXCEPT !.up = FALSE]]

\* Mutants: Run is retried after a read failure too; no call is.
RetryAlways(c)    == c \in Reader \union Runner
RetryWriteOnly(c) == c \notin Creator /\ call[c].phase = "write"

\* The restart of withRetry, and what follows it.
RetryAllowed(c) == c \in Reader \/ (c \in Runner /\ call[c].phase = "write")

Restart(c) ==
  /\ At(c, "restart") /\ ~Locked(call[c].sc)
  /\ \/ /\ Restarted(call[c].sc)
        /\ Become(c, IF RetryAllowed(c) THEN [call[c] EXCEPT !.pc = "send", !.attempt = 2]
                     ELSE Return(c, call[c], "restarted"))
     \/ /\ RestartFailed(call[c].sc)
        /\ Become(c, Return(c, call[c], "transport"))
  /\ UNCHANGED <<executed, strategy, next, breaks, late>>


\* The restarts of broadcast: before the call and after a transport error.
Heal(c) ==
  /\ At(c, "heal") /\ ~Locked(call[c].sc)
  /\ \/ Restarted(call[c].sc) /\ Become(c, [call[c] EXCEPT !.pc = "send"])
     \/ RestartFailed(call[c].sc) /\ Become(c, NextSidecar(call[c]))
  /\ UNCHANGED <<executed, strategy, next, breaks, late>>

Again(c) ==
  /\ At(c, "again") /\ ~Locked(call[c].sc)
  /\ \/ /\ Restarted(call[c].sc)
        /\ Become(c, [call[c] EXCEPT !.pc = "send", !.attempt = 1, !.round = 2])
     \/ /\ RestartFailed(call[c].sc)
        /\ Become(c, [call[c] EXCEPT !.pc = "done", !.result = "transport"])
  /\ UNCHANGED <<executed, strategy, next, breaks, late>>

(***************************************************************************)
(* The runner process                                                      *)
(***************************************************************************)

\* handle_request: one request at a time, in order.  Creating a strategy that
\* is already there is an error (force is not set).
Process(s) ==
  /\ wire[s].up /\ wire[s].requests # <<>> /\ wire[s].done = <<>>
  /\ LET r == Head(wire[s].requests) IN
       /\ executed' = [executed EXCEPT ![r.by] = @ + 1]
       /\ strategy' = (strategy \/ r.by \in Creator)
       /\ wire' = [wire EXCEPT ![s].requests = Tail(@),
                     ![s].done = <<[by |-> r.by, ok |-> ~(r.by \in Creator /\ strategy),
                                    epoch |-> r.epoch]>>]
  /\ UNCHANGED <<side, call, next, breaks, refusals, late>>

Answer(s) ==
  /\ wire[s].done # <<>>
  /\ LET d == Head(wire[s].done) IN
       wire' = [wire EXCEPT ![s].done = <<>>,
                  ![s].replies = IF d.epoch = side[s].epoch /\ side[s].conn = "open"
                                   THEN Append(@, [by |-> d.by, ok |-> d.ok]) ELSE @]
  /\ UNCHANGED <<side, call, executed, strategy, next, breaks, refusals, late>>

\* handle_connection raises or the connection was idle too long: the runner
\* closes it and waits for another.
Disconnect(s) ==
  /\ breaks < MaxBreaks /\ wire[s].up /\ side[s].conn = "open"
  /\ breaks' = breaks + 1
  /\ side' = [side EXCEPT ![s].conn = "closed"]
  /\ wire' = [wire EXCEPT ![s].requests = <<>>, ![s].done = <<>>]
  /\ UNCHANGED <<call, executed, strategy, next, refusals, late>>

RunnerCrash(s) ==
  /\ breaks < MaxBreaks /\ wire[s].up
  /\ breaks' = breaks + 1
  /\ side' = [side EXCEPT ![s].conn = IF @ = "open" THEN "closed" ELSE @]
  /\ wire' = [wire EXCEPT ![s].up = FALSE, ![s].requests = <<>>, ![s].done = <<>>]
  /\ UNCHANGED <<call, executed, strategy, next, refusals, late>>

\* Kubernetes starts the container again.
RunnerReturns(s) ==
  /\ managed = "kubernetes" /\ ~wire[s].up
  /\ wire' = [wire EXCEPT ![s].up = TRUE]
  /\ UNCHANGED <<side, call, executed, strategy, next, breaks, refusals, late>>

(***************************************************************************)
(* Specification                                                           *)
(***************************************************************************)
CallerStep(c) ==
  \/ Start(c) \/ Pick(c) \/ Oldest(c) \/ Check(c) \/ Send(c)
  \/ Recv(c) \/ RecvEof(c) \/ RecvTimeout(c)
  \/ Restart(c) \/ Heal(c) \/ Again(c)

RunnerStep(s) == Process(s) \/ Answer(s)

Next ==
  /\ \/ \E c \in Caller : CallerStep(c)
     \/ \E s \in Sidecar : \/ RunnerStep(s) \/ Disconnect(s) \/ RunnerCrash(s)
                          \/ RunnerReturns(s)
  /\ UNCHANGED managed

Spec == Init /\ [][Next]_vars

\* A call that was made runs on.  A strategy may compute for ever: the runners
\* owe nothing.  A mutex that is free again and again is obtained.
Fairness == \A c \in Caller : SF_work(~At(c, "ready") /\ CallerStep(c))

FairSpec == Spec /\ Fairness

(***************************************************************************)
(* Properties                                                              *)
(***************************************************************************)

\* A strategy run is executed at most once per Run call, whatever breaks and
\* whoever restarts the runner: only a request that was never written is sent
\* again.
RunAtMostOnce == \A c \in Runner : executed[c] <= 1

\* A call that ends well got the answer to its own request, although nothing
\* on the wire says so, connections break under it and a container outlives
\* them.  After a passed deadline it may not: the late line stays in the socket
\* and the next call takes it.
AnswerIsOwn ==
  ~late => \A c \in Caller :
    At(c, "done") /\ call[c].result \in {"ok", "error"} => call[c].answer \in {c, NoOne}

\* One broken connection or process is invisible to the readers, although all
\* callers on it fail and restart it one after the other - if the first restart
\* works and the container is back.
OneBreakInvisible ==
  managed = "gateway" /\ breaks <= 1 /\ refusals = 0 /\ ~late =>
    \A c \in Reader : At(c, "done") => call[c].result = "ok"

\* What callers of the sidecars may rely on (withRetry, sendRecv, Restart).
SidecarSound == RunAtMostOnce /\ AnswerIsOwn /\ OneBreakInvisible

\* Every call that was made returns in the end, even when its runner never
\* answers and others hold the mutex before it.
EveryCallReturns ==
  <>[](\A c \in Caller : call[c].pc \in {"ready", "done", "panic"})

=============================================================================
