---------------------------- MODULE StreamSession ----------------------------
(***************************************************************************)
(* What a host session promises its callers (host.StreamSession,           *)
(* host.go:85): starting it gives an open session or leaves nothing        *)
(* running; a Send returns the whole answer to its own message and nothing *)
(* else, or an error; after Close returned the host process is gone.       *)
(*                                                                         *)
(* The promise has two limits, both kept as state so that they are visible *)
(* in the specification: an answer given while the session is being closed *)
(* may be cut short, and after a Send that returned before its turn was    *)
(* over (early) answers may hold what is left of that turn.                *)
(***************************************************************************)
CONSTANTS
    Turn         \* the messages that are sent, each by a caller of its own

VARIABLES
    phase,       \* "starting", "open" or "failed"
    up,          \* a host process that this session started is running
    call,        \* what became of the message: "none", "sent", "answered", "error"
    answer,      \* the messages whose text the answer holds
    early,       \* a Send returned before its turn was over
    closing      \* "no", "called" or "closed"

sessionVars == <<phase, up, call, answer, early, closing>>

SessionInit ==
    /\ phase = "starting" /\ up = FALSE
    /\ call = [t \in Turn |-> "none"]
    /\ answer = [t \in Turn |-> {}]
    /\ early = FALSE
    /\ closing = "no"

Launch ==
    /\ phase = "starting" /\ up' = TRUE
    /\ UNCHANGED <<phase, call, answer, early, closing>>

Ready ==
    /\ phase = "starting" /\ phase' = "open"
    /\ UNCHANGED <<call, answer, early, closing>> /\ up' \in {up, TRUE}

\* A session that cannot be started is given up only when its process is gone.
GiveUp ==
    /\ phase = "starting" /\ phase' = "failed"
    /\ up = FALSE
    /\ UNCHANGED <<up, call, answer, early, closing>>

Send(t) ==
    /\ phase = "open" /\ call[t] = "none"
    /\ call' = [call EXCEPT ![t] = "sent"]
    /\ UNCHANGED <<phase, up, answer, early, closing>>

Answer(t) ==
    /\ call[t] = "sent"
    /\ call' = [call EXCEPT ![t] = "answered"]
    /\ \E a \in SUBSET Turn :
          /\ early \/ a = {t} \/ (closing # "no" /\ a \subseteq {t})
          /\ answer' = [answer EXCEPT ![t] = a]
    /\ UNCHANGED <<phase, up, early, closing>>

Err(t) ==
    /\ call[t] = "sent"
    /\ call' = [call EXCEPT ![t] = "error"]
    /\ early' \in {early, TRUE}
    /\ UNCHANGED <<phase, up, answer, closing>>

HostEnds ==
    /\ up /\ up' = FALSE
    /\ UNCHANGED <<phase, call, answer, early, closing>>

Close ==
    /\ phase = "open" /\ closing = "no" /\ closing' = "called"
    /\ UNCHANGED <<phase, up, call, answer, early>>

CloseReturns ==
    /\ closing = "called" /\ closing' = "closed"
    /\ up = FALSE
    /\ UNCHANGED <<phase, up, call, answer, early>>

SessionNext ==
    \/ Launch \/ Ready \/ GiveUp \/ HostEnds \/ Close \/ CloseReturns
    \/ \E t \in Turn : Send(t) \/ Answer(t) \/ Err(t)

SessionSpec == SessionInit /\ [][SessionNext]_sessionVars
==============================================================================
