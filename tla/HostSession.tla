----------------------------- MODULE HostSession -----------------------------
(***************************************************************************)
(* The host sessions: a Claude process that speaks JSON lines (claude),    *)
(* a Codex app server over pipes (codex) or a WebSocket (codexws), an      *)
(* OpenCode server started here (opencode) or in a pod (opencodepod).      *)
(* All have one shape: a reader goroutine moves what the host emits into a *)
(* bounded channel, Send holds a mutex, writes a message and receives from *)
(* the channel until its turn is over, Close ends the host and waits for   *)
(* done.  What differs is who closes done and the channel, in which order, *)
(* whether the reader can be interrupted while the channel is full, and    *)
(* what Send takes for the end of its turn.                                *)
(*                                                                         *)
(* The host itself is external: to a message it answers with one of the    *)
(* scripts its protocol allows, it may emit events nobody asked for, and   *)
(* it may die.  Text is represented by the turn it belongs to.             *)
(***************************************************************************)
EXTENDS Naturals, Sequences, SequencesExt

CONSTANTS
    Kind,        \* the kinds of session that are considered
    Turn,        \* messages, each sent by a caller of its own
    ChanCap,     \* capacity of the channel (256 in the code)
    StepLimit,   \* steps OpenCode may take in a turn (20 in the code)
    MaxNoise     \* bound: events the host emits unasked

ASSUME HostSessionAssumption ==
    /\ Kind \subseteq {"claude", "codex", "codexws", "opencode", "opencodepod"}
    /\ ChanCap \in Nat \ {0} /\ StepLimit \in Nat /\ MaxNoise \in Nat

VARIABLES
    kind,        \* which session this is
    start,       \* where StartStream stands
    proc,        \* the host: "none", "up" or "gone"
    script,      \* what the host is about to emit
    noise,       \* events emitted unasked so far
    wire,        \* emitted and not read yet
    chan,        \* the channel from the reader to Send
    chanClosed,  \* it is closed
    done,        \* the done channel is closed
    stdin,       \* the host can still be written to (stdin, ctx, SSE body)
    mu,          \* the caller that holds the mutex, or Nobody
    turn,        \* locals of the Send that holds it
    call,        \* place of each caller
    answer,      \* turns whose text the returned answer holds
    early,       \* some Send returned before its turn was over
    closing      \* where Close stands

hostVars == <<kind, start, proc, script, noise, wire, chan, chanClosed, done,
              stdin, mu, turn, call, answer, early, closing>>

Nobody == "nobody"
Codex == {"codex", "codexws"}
OpenCode == {"opencode", "opencodepod"}
Local == {"claude", "codex", "opencode"}
Event(what, t) == [what |-> what, turn |-> t]
NoTurn == [text |-> {}, busy |-> FALSE, steps |-> 0, failed |-> FALSE]
EventSet == [what : {"text", "result", "completed", "fatal", "reject", "started",
                     "garbled", "busy", "idle", "step", "error", "noise"},
             turn : Turn \cup {Nobody}]

HostTypeOK ==
    /\ kind \in Kind
    /\ start \in {"launch", "boot", "health", "create", "subscribe",
                  "stopping", "open", "failed"}
    /\ proc \in {"none", "up", "gone"}
    /\ script \in Seq(EventSet) /\ wire \in Seq(EventSet) /\ chan \in Seq(EventSet)
    /\ noise \in 0..MaxNoise
    /\ Len(chan) <= ChanCap
    /\ chanClosed \in BOOLEAN /\ done \in BOOLEAN /\ stdin \in BOOLEAN
    /\ mu \in Turn \cup {Nobody}
    /\ turn \in [text : SUBSET Turn, busy : BOOLEAN, steps : Nat, failed : BOOLEAN]
    /\ call \in [Turn -> {"none", "lock", "recv", "answered", "error"}]
    /\ answer \in [Turn -> SUBSET Turn]
    /\ early \in BOOLEAN
    /\ closing \in {"no", "interrupt", "wait", "closed"}

HostInit ==
    /\ kind \in Kind
    /\ start = "launch"
    /\ proc = IF kind \in Local THEN "none" ELSE "up"
    /\ script = <<>> /\ noise = 0 /\ wire = <<>> /\ chan = <<>>
    /\ chanClosed = FALSE /\ done = FALSE /\ stdin = TRUE
    /\ mu = Nobody /\ turn = NoTurn
    /\ call = [t \in Turn |-> "none"]
    /\ answer = [t \in Turn |-> {}]
    /\ early = FALSE
    /\ closing = "no"

------------------------------------------------------------------------------
(* The host (external) *)

\* What a host of kind k may emit for message t.
Scripts(k, t) ==
    CASE k = "claude" ->
           {<<Event("text", t), Event("result", t)>>}
      [] k \in Codex ->
           {<<Event("text", t), Event("completed", t)>>,
            <<Event("fatal", t), Event("completed", t)>>,
            <<Event("reject", t)>>}
      [] k \in OpenCode ->
           {<<Event("busy", t), Event("text", t), Event("idle", t)>>,
            <<Event("busy", t), Event("error", t), Event("idle", t)>>,
            <<Event("busy", t)>> \o [i \in 1..StepLimit + 1 |-> Event("step", t)]
                \o <<Event("text", t), Event("idle", t)>>}

\* An interrupted (codex) or aborted (opencode) turn ends at once.
Interrupted ==
    IF script = <<>> \/ kind = "claude" THEN script
    ELSE <<Event(IF kind \in Codex THEN "completed" ELSE "idle", script[1].turn)>>

HostEmit ==
    /\ proc = "up" /\ script # <<>>
    /\ wire' = Append(wire, Head(script))
    /\ script' = Tail(script)
    /\ UNCHANGED <<kind, start, proc, noise, chan, chanClosed, done, stdin, mu,
                   turn, call, answer, early, closing>>

HostNoise ==
    /\ proc = "up" /\ start # "launch" /\ noise < MaxNoise
    /\ kind \in OpenCode => script = <<>>   \* idle is not reported within a turn
    /\ noise' = noise + 1
    /\ wire' = Append(wire, Event(IF kind \in OpenCode THEN "idle" ELSE "noise", Nobody))
    /\ UNCHANGED <<kind, start, proc, script, chan, chanClosed, done, stdin, mu,
                   turn, call, answer, early, closing>>

HostDies ==
    /\ proc = "up"
    /\ proc' = "gone" /\ script' = <<>>
    /\ UNCHANGED <<kind, start, noise, wire, chan, chanClosed, done, stdin, mu,
                   turn, call, answer, early, closing>>

------------------------------------------------------------------------------
(* StartStream *)

Become(p) ==
    /\ start' = p
    /\ UNCHANGED <<kind, noise, wire, chanClosed, mu, turn, call, answer, early, closing>>

\* The command cannot be started (or the WebSocket not be dialled): no session.
LaunchFails ==
    /\ start = "launch"
    /\ Become("failed")
    /\ UNCHANGED <<proc, script, chan, done, stdin>>

\* claude: the process and its reader are all there is to start.
StartStream ==
    /\ start = "launch" /\ kind = "claude"
    /\ proc' = "up"
    /\ Become("open")
    /\ UNCHANGED <<script, chan, done, stdin>>

\* codex: start the process, write thread/start; the answer may be no
\* thread/started at all, or one that cannot be parsed.
NewAppServerSession ==
    /\ start = "launch" /\ kind = "codex"
    /\ proc' = "up"
    /\ script' \in {<<Event(w, Nobody)>> : w \in {"started", "garbled", "reject"}}
    /\ Become("boot")
    /\ UNCHANGED <<chan, done, stdin>>

NewWebSocketAppServerSession ==
    /\ start = "launch" /\ kind = "codexws" /\ proc = "up"
    /\ script' \in {<<Event(w, Nobody)>> : w \in {"started", "garbled", "reject"}}
    /\ Become("boot")
    /\ UNCHANGED <<proc, chan, done, stdin>>

\* Receive until thread/started; anything else is consumed and ignored.  What
\* cannot be parsed, or a host that died before, ends the start: close stdin
\* (cancel the context) and wait for done.
AwaitStarted ==
    /\ start = "boot" /\ chan # <<>>
    /\ chan' = Tail(chan)
    /\ Become(CASE Head(chan).what = "started" -> "open"
                [] Head(chan).what = "garbled" -> "stopping"
                [] OTHER -> "boot")
    /\ stdin' = (stdin /\ Head(chan).what # "garbled")
    /\ UNCHANGED <<proc, script, done>>

AwaitStartedEOF ==
    /\ start = "boot" /\ chan = <<>> /\ chanClosed
    /\ stdin' = FALSE
    /\ Become("stopping")
    /\ UNCHANGED <<proc, script, chan, done>>

BootstrapThread == kind = "codex" /\ (AwaitStarted \/ AwaitStartedEOF)

WsBootstrapThread == kind = "codexws" /\ (AwaitStarted \/ AwaitStartedEOF)

\* opencode: start the server and its exit monitor.
StartServeSession ==
    /\ start = "launch" /\ kind = "opencode"
    /\ proc' = "up"
    /\ Become("health")
    /\ UNCHANGED <<script, chan, done, stdin>>

NewRemoteServeSession ==
    /\ start = "launch" /\ kind = "opencodepod"
    /\ Become("health")
    /\ UNCHANGED <<proc, script, chan, done, stdin>>

\* A step of the start that fails calls Close, which kills the server; without
\* a server of its own the session returns at once.
ServeGivesUp ==
    /\ IF kind = "opencode" THEN proc' = "gone" /\ Become("stopping")
                            ELSE UNCHANGED proc /\ Become("failed")
    /\ UNCHANGED <<script, chan, done, stdin>>

WaitForHealth ==
    /\ start = "health"
    /\ \/ proc = "up" /\ Become("create") /\ UNCHANGED <<proc, script, chan, done, stdin>>
       \/ ServeGivesUp

CreateSession ==
    /\ start = "create"
    /\ \/ proc = "up" /\ Become("subscribe") /\ UNCHANGED <<proc, script, chan, done, stdin>>
       \/ ServeGivesUp

\* From here on the reader runs.  A pod's session that cannot subscribe is
\* closed, which closes done.
SubscribeSSE ==
    /\ start = "subscribe"
    /\ \/ proc = "up" /\ Become("open") /\ UNCHANGED <<proc, script, chan, done, stdin>>
       \/ kind = "opencode" /\ ServeGivesUp
       \/ /\ kind = "opencodepod" /\ Become("failed") /\ done' = TRUE
          /\ UNCHANGED <<proc, script, chan, stdin>>

StartFailed ==
    /\ start = "stopping" /\ done
    /\ Become("failed")
    /\ UNCHANGED <<proc, script, chan, done, stdin>>

------------------------------------------------------------------------------
(* The reader goroutine *)

Reading ==
    /\ start \in {"boot", "open", "stopping"}
    /\ kind \in OpenCode => start = "open"
    /\ ~chanClosed

\* Events the reader of this kind does not forward (a response without method).
Dropped(e) == kind \in Codex /\ e.what = "reject"

\* The reader waits for room in the channel.
Blocked == wire # <<>> /\ ~Dropped(Head(wire)) /\ Len(chan) = ChanCap

Forwards ==
    /\ Reading /\ wire # <<>>
    /\ IF Dropped(Head(wire)) THEN UNCHANGED chan
       ELSE Len(chan) < ChanCap /\ chan' = Append(chan, Head(wire))
    /\ wire' = Tail(wire)
    /\ UNCHANGED <<kind, start, proc, script, noise, chanClosed, done, stdin, mu,
                   turn, call, answer, early, closing>>

ClaudeReader == kind = "claude" /\ Forwards
CodexReader == kind = "codex" /\ Forwards
WsReader == kind = "codexws" /\ stdin /\ Forwards
SseReader == kind \in OpenCode /\ stdin /\ Forwards

\* No more to read: end of file, or the connection was cancelled.
ReadEnds == IF kind \in {"claude", "codex"} THEN wire = <<>> /\ proc = "gone"
            ELSE ~stdin \/ (wire = <<>> /\ proc = "gone")

\* claude, codex: close the channel, Wait, then close done.
ReaderCloses ==
    /\ Reading /\ kind \in {"claude", "codex"} /\ ReadEnds
    /\ chanClosed' = TRUE
    /\ UNCHANGED <<kind, start, proc, script, noise, wire, chan, done, stdin, mu,
                   turn, call, answer, early, closing>>

ReaderWaits ==
    /\ kind \in {"claude", "codex"} /\ chanClosed /\ ~done
    /\ done' = TRUE
    /\ UNCHANGED <<kind, start, proc, script, noise, wire, chan, chanClosed, stdin,
                   mu, turn, call, answer, early, closing>>

\* codexws: the deferred calls close done before the channel.  A reader that
\* waits for room in the channel does not notice that it was cancelled.
WsReaderEnds ==
    /\ Reading /\ kind = "codexws" /\ ReadEnds
    /\ ~Blocked
    /\ \/ ~done /\ done' = TRUE /\ UNCHANGED chanClosed
       \/ done /\ chanClosed' = TRUE /\ UNCHANGED done
    /\ UNCHANGED <<kind, start, proc, script, noise, wire, chan, stdin, mu, turn,
                   call, answer, early, closing>>

\* Mutant: a pod's session does not tell that its stream ended.
SseReaderEndsSilently ==
    /\ Reading /\ kind \in OpenCode
    /\ ReadEnds \/ (done /\ wire # <<>>)
    /\ chanClosed' = TRUE
    /\ UNCHANGED <<kind, start, proc, script, noise, wire, chan, done, stdin, mu, turn,
                   call, answer, early, closing>>

\* opencode: the reader also ends when done is closed; in a pod, where no
\* process is watched, it is the reader that closes done.
SseReaderEnds ==
    /\ Reading /\ kind \in OpenCode
    /\ ReadEnds \/ (done /\ wire # <<>>)
    /\ chanClosed' = TRUE
    /\ done' = (done \/ kind = "opencodepod")
    /\ UNCHANGED <<kind, start, proc, script, noise, wire, chan, stdin, mu, turn,
                   call, answer, early, closing>>

\* opencode: cmd.Wait in a goroutine of its own.
MonitorExit ==
    /\ kind = "opencode" /\ proc = "gone" /\ ~done
    /\ done' = TRUE
    /\ UNCHANGED <<kind, start, proc, script, noise, wire, chan, chanClosed, stdin,
                   mu, turn, call, answer, early, closing>>

------------------------------------------------------------------------------
(* Send *)

Keep == UNCHANGED <<kind, start, proc, noise, wire, chanClosed, done, stdin, closing>>

Call(t) ==
    /\ start = "open" /\ call[t] = "none"
    /\ call' = [call EXCEPT ![t] = "lock"]
    /\ Keep /\ UNCHANGED <<script, chan, mu, turn, answer, early>>

\* Send returns: the mutex is released.  txt is what a good answer holds; over
\* says whether the turn has ended with it.
Return(t, outcome, txt, over) ==
    /\ call' = [call EXCEPT ![t] = outcome]
    /\ answer' = [answer EXCEPT ![t] = IF outcome = "answered" THEN txt ELSE {}]
    /\ early' = (early \/ ~over)
    /\ mu' = Nobody /\ turn' = NoTurn

\* Lock, look at done, write the message.  Writing to a host that is gone or
\* closed fails.
Write(t) ==
    /\ mu = Nobody /\ call[t] = "lock"
    /\ Keep /\ UNCHANGED chan
    /\ IF ~done /\ proc = "up" /\ stdin
       THEN /\ mu' = t /\ turn' = NoTurn
            /\ \E s \in Scripts(kind, t) : script' = script \o s
            /\ call' = [call EXCEPT ![t] = "recv"]
            /\ UNCHANGED <<answer, early>>
       ELSE Return(t, "error", {}, TRUE) /\ UNCHANGED script

ClaudeWrite(t) == kind = "claude" /\ Write(t)
CodexWrite(t) == kind = "codex" /\ Write(t)
WsWrite(t) == kind = "codexws" /\ Write(t)

\* opencode: a prompt is a request of its own, which also works while Close
\* stops the reader; it may be refused, or be accepted and its response lost
\* (httpTimeout).
PromptAsync(t) ==
    /\ kind \in OpenCode /\ mu = Nobody /\ call[t] = "lock"
    /\ Keep /\ UNCHANGED chan
    /\ \/ /\ ~done /\ proc = "up"
          /\ mu' = t /\ turn' = NoTurn
          /\ \E s \in Scripts(kind, t) : script' = script \o s
          /\ call' = [call EXCEPT ![t] = "recv"]
          /\ UNCHANGED <<answer, early>>
       \/ Return(t, "error", {}, TRUE) /\ UNCHANGED script
       \/ /\ ~done /\ proc = "up"
          /\ Return(t, "error", {}, FALSE)
          /\ \E s \in Scripts(kind, t) : script' = script \o s

\* The next event is received by the Send that holds the mutex.
Received(t, what) ==
    /\ mu = t /\ call[t] = "recv" /\ chan # <<>>
    /\ Head(chan).what \in what
    /\ chan' = Tail(chan)
    /\ Keep

GoOn == UNCHANGED <<call, answer, early, mu>>

\* claude: text is only logged; the result event is the answer.
ClaudeSend(t) ==
    /\ kind = "claude"
    /\ \/ Received(t, {"result"}) /\ Return(t, "answered", {Head(chan).turn}, TRUE)
       \/ Received(t, {"text", "noise"}) /\ GoOn /\ UNCHANGED turn
    /\ UNCHANGED script

Collected == turn.text \cup {Head(chan).turn}

\* codex: collect deltas until turn/completed; an error that is not retried
\* makes the answer an error, and the loop goes on.
CodexTurn(t) ==
    /\ \/ Received(t, {"text"}) /\ turn' = [turn EXCEPT !.text = Collected] /\ GoOn
       \/ Received(t, {"fatal"}) /\ turn' = [turn EXCEPT !.failed = TRUE] /\ GoOn
       \/ Received(t, {"noise", "started", "garbled"}) /\ UNCHANGED turn /\ GoOn
       \/ /\ Received(t, {"completed"})
          /\ Return(t, IF turn.failed THEN "error" ELSE "answered", turn.text, TRUE)
    /\ UNCHANGED script

CodexSend(t) == kind = "codex" /\ CodexTurn(t)
WsSend(t) == kind = "codexws" /\ CodexTurn(t)

\* Mutant: any idle ends the turn.
SessionStatusAnyIdle(t) ==
    \/ Received(t, {"busy"}) /\ turn' = [turn EXCEPT !.busy = TRUE] /\ GoOn
    \/ Received(t, {"idle"}) /\ Return(t, "answered", turn.text, TRUE)

\* opencode: the turn is over with the first idle after a busy.
SessionStatus(t) ==
    \/ Received(t, {"busy"}) /\ turn' = [turn EXCEPT !.busy = TRUE] /\ GoOn
    \/ Received(t, {"idle"}) /\ ~turn.busy /\ UNCHANGED turn /\ GoOn
    \/ Received(t, {"idle"}) /\ turn.busy /\ Return(t, "answered", turn.text, TRUE)

\* opencode: steps are counted once the turn is busy; one too many aborts it.
StepStart(t) ==
    \/ Received(t, {"step"}) /\ ~turn.busy /\ UNCHANGED <<turn, script>> /\ GoOn
    \/ /\ Received(t, {"step"}) /\ turn.busy /\ turn.steps < StepLimit
       /\ turn' = [turn EXCEPT !.steps = @ + 1]
       /\ GoOn /\ UNCHANGED script
    \/ /\ Received(t, {"step"}) /\ turn.busy /\ turn.steps >= StepLimit
       /\ script' \in {script, Interrupted}
       /\ Return(t, "error", {}, FALSE)

\* opencode: text counts whether or not the turn is busy, and so does an error.
OpenCodeSend(t) ==
    /\ kind \in OpenCode
    /\ \/ /\ Received(t, {"text"}) /\ turn' = [turn EXCEPT !.text = Collected]
          /\ GoOn /\ UNCHANGED script
       \/ Received(t, {"error"}) /\ Return(t, "error", {}, FALSE) /\ UNCHANGED script
       \/ SessionStatus(t) /\ UNCHANGED script
       \/ StepStart(t)

\* The channel was closed and is empty; OpenCode's Send also watches done.
SendEnds(t) ==
    /\ mu = t /\ call[t] = "recv"
    /\ (chan = <<>> /\ chanClosed) \/ (kind \in OpenCode /\ done)
    /\ Return(t, "error", {}, TRUE)
    /\ Keep /\ UNCHANGED <<script, chan>>

------------------------------------------------------------------------------
(* Close *)

KeepSend == UNCHANGED <<kind, start, noise, wire, chan, chanClosed, mu, turn, call,
                        answer, early>>

\* Best effort: interrupt the turn (codex) or abort it (opencode).
CloseInterrupt ==
    /\ start = "open" /\ closing = "no"
    /\ closing' = "interrupt"
    /\ script' \in {script, Interrupted}
    /\ KeepSend /\ UNCHANGED <<proc, done, stdin>>

\* claude, codex: close stdin; codexws: cancel the context.
Shut ==
    /\ closing = "interrupt"
    /\ closing' = "wait"
    /\ stdin' = FALSE
    /\ KeepSend /\ UNCHANGED <<script, proc, done>>

ClaudeClose == kind = "claude" /\ Shut
CodexClose == kind = "codex" /\ Shut
WsClose == kind = "codexws" /\ Shut

\* opencode: stop the SSE reader and kill the server, or just close done.
CloseServe ==
    /\ closing = "interrupt" /\ kind \in OpenCode
    /\ closing' = "wait"
    /\ stdin' = FALSE
    /\ IF kind = "opencode" THEN proc' = "gone" /\ script' = <<>> /\ UNCHANGED done
                            ELSE done' = TRUE /\ UNCHANGED <<proc, script>>
    /\ KeepSend

CloseReturn ==
    /\ closing = "wait" /\ done
    /\ closing' = "closed"
    /\ KeepSend /\ UNCHANGED <<script, proc, done, stdin>>

------------------------------------------------------------------------------
Starting ==
    \/ LaunchFails \/ StartStream \/ NewAppServerSession
    \/ NewWebSocketAppServerSession \/ BootstrapThread \/ WsBootstrapThread
    \/ StartServeSession \/ NewRemoteServeSession
    \/ WaitForHealth \/ CreateSession \/ SubscribeSSE \/ StartFailed

Reader ==
    \/ ClaudeReader \/ CodexReader \/ WsReader \/ SseReader
    \/ ReaderCloses \/ ReaderWaits \/ WsReaderEnds \/ SseReaderEnds \/ MonitorExit

Sending(t) ==
    \/ ClaudeWrite(t) \/ CodexWrite(t) \/ WsWrite(t) \/ PromptAsync(t)
    \/ ClaudeSend(t) \/ CodexSend(t) \/ WsSend(t) \/ OpenCodeSend(t) \/ SendEnds(t)

Ending == ClaudeClose \/ CodexClose \/ WsClose \/ CloseServe \/ CloseReturn

HostNext ==
    \/ HostEmit \/ HostNoise \/ HostDies
    \/ Starting \/ Reader \/ CloseInterrupt \/ Ending
    \/ \E t \in Turn : Call(t) \/ Sending(t)

\* Goroutines are scheduled; a host whose stdin is closed exits.  Nothing is
\* assumed about a host that was not told to stop.
HostFairness ==
    /\ WF_hostVars(Reader) /\ WF_hostVars(Ending)
    /\ \A t \in Turn : WF_hostVars(Sending(t))
    /\ WF_hostVars(~stdin /\ kind \in {"claude", "codex"} /\ HostDies)

HostSpec == HostInit /\ [][HostNext]_hostVars /\ HostFairness

------------------------------------------------------------------------------
(* Properties *)

\* The promise of host.StreamSession, StreamSession.SessionSpec: with the
\* phases of the five implementations mapped to it, every step of a session is
\* one the interface allows.  In particular an answer is the whole answer to
\* the caller's own message, unless the session is being closed or an earlier
\* OpenCode turn was left before its end; a failed start and a returned Close
\* leave no process of this session running.
Contract == INSTANCE StreamSession WITH
    phase   <- IF start \in {"open", "failed"} THEN start ELSE "starting",
    up      <- kind \in Local /\ proc = "up",
    call    <- [t \in Turn |-> IF call[t] \in {"lock", "recv"} THEN "sent" ELSE call[t]],
    closing <- IF closing \in {"interrupt", "wait"} THEN "called" ELSE closing

IsSession == Contract!SessionSpec

\* The reader waits for room in a full channel and nobody receives: neither the
\* exit of the host nor Close gets past it (stream.go:171, appserver.go:186).
\* Close does get past the reader of a pod's OpenCode session (server.go:536).
Stuffed ==
    /\ kind # "opencode" /\ (kind = "opencodepod" => closing = "no")
    /\ mu = Nobody /\ start \notin {"boot", "launch"}
    /\ Blocked

\* Once the host is gone, or Close was called, done is closed, Close returns and
\* so does every Send that was waiting, whichever of them comes first; the only
\* way out is the full channel of Stuffed.
SessionEnds ==
    <>[](start = "open" /\ (proc = "gone" \/ closing # "no") =>
        \/ Stuffed
        \/ /\ done /\ closing \in {"no", "closed"}
           /\ \A t \in Turn : call[t] \notin {"lock", "recv"})
==============================================================================
