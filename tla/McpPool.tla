------------------------------ MODULE McpPool ------------------------------
(***************************************************************************)
(* mcpclient.Pool for one backend MCP server: the connection that all tool *)
(* calls and discoveries share.  The first caller connects, others wait on *)
(* a condition variable; a failed call marks the connection for reconnect; *)
(* the reconciler disconnects and re-adds the server.  Every lock region   *)
(* of the code is one step; the entry a caller holds may meanwhile have    *)
(* been replaced in the pool's map.                                        *)
(***************************************************************************)
EXTENDS Naturals, FiniteSets

CONSTANTS
  Goroutine,        \* goroutines that call or discover tools
  MaxCall,       \* bound: operations of one caller
  MaxClient,     \* bound: clients ever started
  ConnectFails,  \* bound: connection attempts that fail
  CallFails,     \* bound: calls that fail on an open client
  MaxRemove      \* bound: times the reconciler disconnects the server

ASSUME PoolAssumption ==
  /\ IsFiniteSet(Goroutine)
  /\ MaxCall \in Nat /\ MaxClient \in Nat /\ ConnectFails \in Nat
  /\ CallFails \in Nat /\ MaxRemove \in Nat

VARIABLES
  configured,  \* Pool.config has the server
  current,     \* entry of the server in Pool.servers, 0 when there is none
  entry,       \* entry -> [state, client, listed]
  client,      \* client -> "new", "open" or "closed"
  caller,      \* caller -> its call
  remover,     \* the reconciler's DisconnectServer
  fails,       \* failures so far: [connect, call]
  crossed      \* history: a failed call, or a removal, hit an entry it
               \* should have left alone

poolVars == <<configured, current, entry, client, caller, remover, fails, crossed>>

Entry  == 1 .. MaxRemove + Cardinality(Goroutine) * MaxCall + 1
Client == 1 .. MaxClient
Nil    == 0

Place == {"idle", "configured", "waiting", "check", "close_old", "open", "install",
          "settle_ok", "settle_failed", "ready", "call", "mark_failed", "panic"}

PoolTypeOK ==
  /\ configured \in BOOLEAN /\ current \in Entry \union {Nil}
  /\ entry \in [Entry -> [state : {"unused", "Idle", "Connecting", "Ready", "Failed"},
                          client : Client \union {Nil}, listed : BOOLEAN]]
  /\ client \in [Client -> {"new", "open", "closed"}]
  /\ caller \in [Goroutine -> [at : Place, entry : Entry \union {Nil},
                            client : Client \union {Nil}, calls : 0 .. MaxCall]]
  /\ remover \in [at : {"idle", "close"}, entry : Entry \union {Nil}, removes : 0 .. MaxRemove]
  /\ fails \in [connect : 0 .. ConnectFails, call : 0 .. CallFails] /\ crossed \in BOOLEAN
  /\ \A p \in Goroutine : caller[p].at \notin {"idle", "configured"} => caller[p].entry # Nil

PoolInit ==
  /\ configured = TRUE /\ current = Nil
  /\ entry  = [e \in Entry |-> [state |-> "unused", client |-> Nil, listed |-> FALSE]]
  /\ client = [c \in Client |-> "new"]
  /\ caller = [p \in Goroutine |-> [at |-> "idle", entry |-> Nil, client |-> Nil, calls |-> 0]]
  /\ remover = [at |-> "idle", entry |-> Nil, removes |-> 0]
  /\ fails = [connect |-> 0, call |-> 0] /\ crossed = FALSE

(***************************************************************************)
(* The pool's map                                                          *)
(***************************************************************************)

\* newServerEntry: the next entry, idle.
FreshEntry == CHOOSE e \in Entry : entry[e].state = "unused"
                                   /\ \A d \in Entry : entry[d].state = "unused" => e <= d

Create ==
  /\ current' = FreshEntry
  /\ entry'   = [entry EXCEPT ![FreshEntry].state = "Idle"]

\* The client of an entry, if any, is closed.
CloseClientOf(e) ==
  IF entry[e].client = Nil THEN client ELSE [client EXCEPT ![entry[e].client] = "closed"]

\* Some caller holds entry e; some caller is connecting it.
InUse(e)      == \E p \in Goroutine : caller[p].at \notin {"idle", "configured"} /\ caller[p].entry = e
ConnectPlace  == {"close_old", "open", "install", "settle_ok", "settle_failed"}
Connecting(e) == \E p \in Goroutine : caller[p].at \in ConnectPlace /\ caller[p].entry = e

Move(p, to) == caller' = [caller EXCEPT ![p].at = to]

(***************************************************************************)
(* getOrConnect                                                            *)
(***************************************************************************)

\* CallTool, DiscoverTools: the configuration is looked up without a lock.
Begin(p) ==
  /\ caller[p].at = "idle" /\ caller[p].calls < MaxCall
  /\ configured
  /\ caller' = [caller EXCEPT ![p].at = "configured", ![p].calls = @ + 1]
  /\ UNCHANGED <<configured, current, entry, client, remover, fails, crossed>>

\* getEntry: returns or creates the entry.
GetEntry(p) ==
  /\ caller[p].at = "configured"
  /\ IF current = Nil THEN Create ELSE UNCHANGED <<current, entry>>
  /\ caller' = [caller EXCEPT ![p].at = "check", ![p].entry = current']
  /\ UNCHANGED <<configured, client, remover, fails, crossed>>

\* Mutant: a caller that meets a connecting goroutine connects as well.
CheckEntryNoWait(p) ==
  /\ caller[p].at = "check"
  /\ LET e == caller[p].entry IN
     \/ /\ entry[e].state = "Ready" /\ Move(p, "ready") /\ UNCHANGED entry
     \/ /\ entry[e].state # "Ready"
        /\ entry' = [entry EXCEPT ![e].state = "Connecting"] /\ Move(p, "close_old")
  /\ UNCHANGED <<configured, current, client, remover, fails, crossed>>

\* The loop over the entry's state: ready, wait, or own the connecting.
CheckEntry(p) ==
  /\ caller[p].at = "check"
  /\ LET e == caller[p].entry IN
     \/ /\ entry[e].state = "Ready" /\ Move(p, "ready") /\ UNCHANGED entry
     \/ /\ entry[e].state = "Connecting" /\ Move(p, "waiting") /\ UNCHANGED entry
     \/ /\ entry[e].state \in {"Idle", "Failed"}
        /\ entry' = [entry EXCEPT ![e].state = "Connecting"] /\ Move(p, "close_old")
  /\ UNCHANGED <<configured, current, client, remover, fails, crossed>>

\* connect, step 1: the previous client is closed.
CloseOld(p) ==
  /\ caller[p].at = "close_old"
  /\ LET e == caller[p].entry IN
     /\ client' = CloseClientOf(e)
     /\ entry'  = [entry EXCEPT ![e].client = Nil]
  /\ Move(p, "open")
  /\ UNCHANGED <<configured, current, remover, fails, crossed>>

\* connect, steps 2 to 6, as far as they succeed: a started, initialized
\* client whose tools are listed.
Open(p) ==
  /\ caller[p].at = "open"
  /\ \E c \in Client :
       /\ client[c] = "new" /\ \A d \in Client : client[d] = "new" => c <= d
       /\ client' = [client EXCEPT ![c] = "open"]
       /\ caller' = [caller EXCEPT ![p].at = "install", ![p].client = c]
  /\ UNCHANGED <<configured, current, entry, remover, fails, crossed>>

\* Mutant: a client that was started is left running when a later step fails.
OpenFailsRunning(p) ==
  /\ caller[p].at = "open" /\ fails.connect < ConnectFails
  /\ fails' = [fails EXCEPT !.connect = @ + 1]
  /\ \E c \in Client : client[c] = "new" /\ client' = [client EXCEPT ![c] = "open"]
  /\ Move(p, "settle_failed")
  /\ UNCHANGED <<configured, current, entry, remover, crossed>>

\* No transport, or start, initialize or list tools failed; a client that
\* was started is closed again.
OpenFails(p) ==
  /\ caller[p].at = "open"
  /\ \/ fails.connect < ConnectFails /\ fails' = [fails EXCEPT !.connect = @ + 1]
     \/ (\A c \in Client : client[c] # "new") /\ UNCHANGED fails
  /\ Move(p, "settle_failed")
  /\ UNCHANGED <<configured, current, entry, client, remover, crossed>>

\* connect, end: the client and its tools become the entry's.
Install(p) ==
  /\ caller[p].at = "install"
  /\ entry' = [entry EXCEPT ![caller[p].entry].client = caller[p].client,
                            ![caller[p].entry].listed = TRUE]
  /\ Move(p, "settle_ok")
  /\ UNCHANGED <<configured, current, client, remover, fails, crossed>>

\* Broadcast: callers that wait on entry e look again.
Woken(e, q) == caller[q].at = "waiting" /\ caller[q].entry = e

\* Mutant: a failed connection is settled without waking the waiters.
SettleSilently(p) ==
  /\ caller[p].at \in {"settle_ok", "settle_failed"}
  /\ LET e  == caller[p].entry
         ok == caller[p].at = "settle_ok" IN
     /\ entry'  = [entry EXCEPT ![e].state = IF ok THEN "Ready" ELSE "Failed"]
     /\ caller' = [q \in Goroutine |->
                     IF q = p THEN [caller[q] EXCEPT !.at = IF ok THEN "ready" ELSE "idle",
                                                     !.client = Nil]
                     ELSE IF Woken(e, q) /\ ok THEN [caller[q] EXCEPT !.at = "check"]
                     ELSE caller[q]]
  /\ UNCHANGED <<configured, current, client, remover, fails, crossed>>

\* getOrConnect, after connect: the state, then Broadcast.
Settle(p) ==
  /\ caller[p].at \in {"settle_ok", "settle_failed"}
  /\ LET e  == caller[p].entry
         ok == caller[p].at = "settle_ok" IN
     /\ entry'  = [entry EXCEPT ![e].state = IF ok THEN "Ready" ELSE "Failed"]
     /\ caller' = [q \in Goroutine |->
                     IF q = p THEN [caller[q] EXCEPT !.at = IF ok THEN "ready" ELSE "idle",
                                                     !.client = Nil]
                     ELSE IF Woken(e, q) THEN [caller[q] EXCEPT !.at = "check"]
                     ELSE caller[q]]
  /\ UNCHANGED <<configured, current, client, remover, fails, crossed>>

(***************************************************************************)
(* CallTool, CallToolRaw, DiscoverTools                                    *)
(***************************************************************************)

\* The cached tools and the client pointer are read; DiscoverTools, and a
\* call of a tool the cache does not have, end here.
Grab(p) ==
  /\ caller[p].at = "ready"
  /\ LET e == entry[caller[p].entry] IN
     \/ Move(p, "idle")
     \/ /\ e.listed /\ e.client # Nil
        /\ caller' = [caller EXCEPT ![p].at = "call", ![p].client = e.client]
     \/ /\ e.listed /\ e.client = Nil
        /\ Move(p, "panic")
  /\ UNCHANGED <<configured, current, entry, client, remover, fails, crossed>>

\* The call succeeds.
CallOK(p) ==
  /\ caller[p].at = "call" /\ client[caller[p].client] = "open"
  /\ caller' = [caller EXCEPT ![p].at = "idle", ![p].client = Nil]
  /\ UNCHANGED <<configured, current, entry, client, remover, fails, crossed>>

\* A transport error: the client is closed, or the backend is in trouble.
CallFail(p) ==
  /\ caller[p].at = "call"
  /\ \/ client[caller[p].client] = "closed" /\ UNCHANGED fails
     \/ /\ client[caller[p].client] = "open" /\ fails.call < CallFails
        /\ fails' = [fails EXCEPT !.call = @ + 1]
  /\ Move(p, "mark_failed")
  /\ UNCHANGED <<configured, current, entry, client, remover, crossed>>

\* Whatever the entry's state is by now, it is marked for reconnect.
MarkFailed(p) ==
  /\ caller[p].at = "mark_failed"
  /\ entry'  = [entry EXCEPT ![caller[p].entry].state = "Failed"]
  /\ caller' = [caller EXCEPT ![p].at = "idle", ![p].client = Nil]
  /\ crossed' = (crossed \/ Connecting(caller[p].entry))
  /\ UNCHANGED <<configured, current, client, remover, fails>>

(***************************************************************************)
(* The reconciler                                                          *)
(***************************************************************************)

\* DisconnectServer, first part: out of the map and the configuration.
DisconnectServer ==
  /\ remover.at = "idle" /\ remover.removes < MaxRemove /\ current # Nil
  /\ remover' = [at |-> "close", entry |-> current, removes |-> remover.removes + 1]
  /\ current' = Nil /\ configured' = FALSE
  /\ crossed' = (crossed \/ InUse(current))
  /\ UNCHANGED <<entry, client, caller, fails>>

\* DisconnectServer, second part: the entry's client is closed.
DisconnectClose ==
  /\ remover.at = "close"
  /\ client' = CloseClientOf(remover.entry)
  /\ entry'  = [entry EXCEPT ![remover.entry].client = Nil, ![remover.entry].state = "Idle"]
  /\ remover' = [remover EXCEPT !.at = "idle", !.entry = Nil]
  /\ UNCHANGED <<configured, current, caller, fails, crossed>>

\* AddServer: the configuration, and an idle entry unless there is one.
AddServer ==
  /\ remover.at = "idle" /\ ~configured
  /\ configured' = TRUE
  /\ IF current = Nil THEN Create ELSE UNCHANGED <<current, entry>>
  /\ UNCHANGED <<client, caller, remover, fails, crossed>>

PoolNext ==
  \/ \E p \in Goroutine : \/ Begin(p) \/ GetEntry(p) \/ CheckEntry(p) \/ CloseOld(p) \/ Open(p)
                       \/ OpenFails(p) \/ Install(p) \/ Settle(p) \/ Grab(p)
                       \/ CallOK(p) \/ CallFail(p) \/ MarkFailed(p)
  \/ DisconnectServer \/ DisconnectClose \/ AddServer

PoolSpec == PoolInit /\ [][PoolNext]_poolVars

(***************************************************************************)
(* Fairness: goroutines go on, connecting and calling end one way or the   *)
(* other (they run under a timeout).                                       *)
(***************************************************************************)
Proceed(p) ==
  \/ GetEntry(p) \/ CheckEntry(p) \/ CloseOld(p) \/ Open(p) \/ OpenFails(p) \/ Install(p)
  \/ Settle(p) \/ Grab(p) \/ CallOK(p) \/ CallFail(p) \/ MarkFailed(p)

PoolFairness == \A p \in Goroutine : WF_poolVars(Proceed(p))

PoolFairSpec == PoolSpec /\ PoolFairness

(***************************************************************************)
(* Properties                                                              *)
(***************************************************************************)

\* One goroutine at a time connects an entry (ConnConnecting).  The failure
\* path of a call sets ConnFailed whatever the entry's state is by then, and
\* lets a second one in when it crosses a reconnect.
SingleFlight ==
  ~crossed =>
    \A p, q \in Goroutine :
      /\ caller[p].at \in ConnectPlace /\ caller[q].at \in ConnectPlace
      /\ caller[p].entry = caller[q].entry
      => p = q

\* No operation is under way.
Quiet == remover.at = "idle" /\ \A p \in Goroutine : caller[p].at \in {"idle", "panic"}

\* When nothing is under way, an open client is that of the entry in the
\* pool's map, and an entry shown as ready has an open client: whatever
\* failed and was reconnected, disconnected and added again, no connection
\* or subprocess is left behind and none is taken for open that is not
\* (connect, DisconnectServer).  A server removed under a caller's hands
\* keeps the client that caller opens.
ConnectionOwned ==
  Quiet /\ ~crossed =>
    /\ \A c \in Client : client[c] = "open" => current # Nil /\ entry[current].client = c
    /\ current # Nil /\ entry[current].state = "Ready"
         => entry[current].client # Nil /\ client[entry[current].client] = "open"

\* The connection a backend's callers share is made by one of them and lost by
\* none (getOrConnect, connect).
PoolSound == SingleFlight /\ ConnectionOwned

\* Every operation ends, also one that waits for another goroutine's
\* connection (Broadcast on every path of getOrConnect).
OperationsEnd == <>[](\A p \in Goroutine : caller[p].at \in {"idle", "panic"})

=============================================================================
