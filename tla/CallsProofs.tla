----------------------------- MODULE CallsProofs -----------------------------
(***************************************************************************)
(* Two pools that calls of tools go through.                               *)
(*                                                                         *)
(* McpPool: the shared connection of a backend is made by one goroutine at *)
(* a time and no client is left behind, for any number of goroutines,      *)
(* calls, clients, failures and removals by the reconciler.                *)
(*                                                                         *)
(* SidecarPool: a strategy run is executed once, a call reads its own      *)
(* answer, and one broken connection is mended without a reader being      *)
(* told, for any number of sidecars, callers, breaks and refusals.         *)
(***************************************************************************)
EXTENDS McpPool, SidecarPool, FiniteSetTheorems, WellFoundedInduction, TLAPS

\* The entries made so far: one for every removal, and the one in the map.
Made == remover.removes + (IF current = Nil THEN 0 ELSE 1)

\* The caller holds an entry (getEntry returned).
Uses(p) == caller[p].at \notin {"idle", "configured"}

\* Entries are made in order; the reconciler holds the one it removed last.
Counted ==
    /\ \A e \in Entry : entry[e].state # "unused" <=> e <= Made
    /\ current # Nil => current = Made
    /\ remover.at = "close" => remover.entry = remover.removes /\ remover.entry # Nil
    /\ \A p \in Goroutine : Uses(p) => caller[p].entry <= Made

\* Until something crossed, the entry in use is the one in the map, and the
\* state ConnConnecting belongs to one goroutine.
Flight ==
    /\ \A p \in Goroutine : Uses(p) => caller[p].entry = current
    /\ \A p \in Goroutine : caller[p].at \in ConnectPlace => entry[current].state = "Connecting"
    /\ \A p, q \in Goroutine :
         caller[p].at \in ConnectPlace /\ caller[q].at \in ConnectPlace => p = q

\* Who has the client c: the entry in the map, the reconciler that is about to
\* close it, or the goroutine that opened it and has not installed it yet.
Has(c) ==
    \/ current # Nil /\ entry[current].client = c
    \/ remover.at = "close" /\ entry[remover.entry].client = c
    \/ \E p \in Goroutine : caller[p].at = "install" /\ caller[p].client = c

\* No entry has a client that was not started; no two have the same.
Apart ==
    /\ \A e \in Entry : entry[e].client # Nil => client[entry[e].client] # "new"
    /\ \A d, e \in Entry : entry[d].client # Nil /\ entry[d].client = entry[e].client => d = e

\* What the goroutine that connects has at hand, and what a ready entry has.
Hands ==
    /\ \A p \in Goroutine : caller[p].at = "install" =>
         /\ caller[p].client # Nil /\ client[caller[p].client] = "open"
         /\ \A e \in Entry : entry[e].client # caller[p].client
    /\ \A p \in Goroutine : caller[p].at \in {"open", "install", "settle_failed"} =>
         entry[current].client = Nil
    /\ (current # Nil /\ entry[current].state = "Ready")
         \/ (\E p \in Goroutine : caller[p].at = "settle_ok") =>
         entry[current].client # Nil /\ client[entry[current].client] = "open"

AllOwned == \A c \in Client : client[c] = "open" => Has(c)

PoolInv ==
    /\ PoolTypeOK /\ Counted
    /\ ~crossed => Flight /\ Apart /\ Hands /\ AllOwned

\* The numbers of entries: there is always one for the next getEntry.
LEMMA EntriesAreNumbers ==
    /\ Nil \notin Entry /\ Entry \subseteq Nat /\ Nil \notin Client
    /\ MaxRemove \in Nat
    /\ \A n \in 0 .. MaxRemove : n + 1 \in Entry
<1>1. Cardinality(Goroutine) \in Nat
    BY PoolAssumption, FS_CardinalityType
<1>2. Cardinality(Goroutine) * MaxCall \in Nat
    <2>1. \A m, n \in Nat : m * n \in Nat
        OBVIOUS
    <2>. QED
        BY <1>1, <2>1, PoolAssumption
<1>. QED
    BY <1>2, PoolAssumption DEF Entry, Client, Nil

\* newServerEntry makes the next entry in order, while the map has none.
LEMMA FreshIsNext ==
    ASSUME PoolTypeOK, Counted, current = Nil
    PROVE  /\ FreshEntry = remover.removes + 1
           /\ FreshEntry \in Entry /\ entry[FreshEntry].state = "unused"
<1>1. remover.removes \in 0 .. MaxRemove
    BY DEF PoolTypeOK
<1>2. remover.removes + 1 \in Entry
    BY <1>1, EntriesAreNumbers
<1>3. \A e \in Entry : entry[e].state = "unused" <=> remover.removes + 1 <= e
    BY <1>1, EntriesAreNumbers DEF Counted, Made
<1>4. \A e \in Entry : e \in Nat
    BY EntriesAreNumbers
<1>. DEFINE First(e) == entry[e].state = "unused" /\ \A d \in Entry : entry[d].state = "unused" => e <= d
<1>5. First(remover.removes + 1)
    BY <1>1, <1>2, <1>3
<1>6. \A e \in Entry : First(e) => e = remover.removes + 1
    BY <1>1, <1>2, <1>3, <1>4
<1>7. FreshEntry = CHOOSE e \in Entry : First(e)
    BY DEF FreshEntry
<1>. HIDE DEF First
<1>8. FreshEntry \in Entry /\ First(FreshEntry)
    BY <1>2, <1>5, <1>7
<1>. QED
    BY <1>6, <1>8 DEF First

\* The parts of the type invariant, so that a step names the one it disturbs.
CallerOK ==
    caller \in [Goroutine -> [at : Place, entry : Entry \union {Nil},
                              client : Client \union {Nil}, calls : 0 .. MaxCall]]
EntryOK ==
    entry \in [Entry -> [state : {"unused", "Idle", "Connecting", "Ready", "Failed"},
                         client : Client \union {Nil}, listed : BOOLEAN]]
ClientOK  == client \in [Client -> {"new", "open", "closed"}]
HeldOK    == \A p \in Goroutine : Uses(p) => caller[p].entry # Nil
RemoverOK == remover \in [at : {"idle", "close"}, entry : Entry \union {Nil},
                          removes : 0 .. MaxRemove]
PlainOK   == /\ configured \in BOOLEAN /\ current \in Entry \union {Nil}
             /\ fails \in [connect : 0 .. ConnectFails, call : 0 .. CallFails]
             /\ crossed \in BOOLEAN

LEMMA TypeParts ==
    /\ PoolTypeOK <=> CallerOK /\ EntryOK /\ ClientOK /\ HeldOK /\ RemoverOK /\ PlainOK
    /\ PoolTypeOK' <=> CallerOK' /\ EntryOK' /\ ClientOK' /\ HeldOK' /\ RemoverOK' /\ PlainOK'
    BY DEF PoolTypeOK, CallerOK, EntryOK, ClientOK, HeldOK, RemoverOK, PlainOK, Uses

\* One more of something that is bounded (an operation, a failure, a removal).
LEMMA OneMore ==
    /\ \A n \in 0 .. MaxCall : n < MaxCall => n + 1 \in 0 .. MaxCall
    /\ \A n \in 0 .. ConnectFails : n < ConnectFails => n + 1 \in 0 .. ConnectFails
    /\ \A n \in 0 .. CallFails : n < CallFails => n + 1 \in 0 .. CallFails
    /\ \A n \in 0 .. MaxRemove : n < MaxRemove => n + 1 \in 0 .. MaxRemove
    BY PoolAssumption

LEMMA PlacesOfCallers ==
    {"idle", "configured", "waiting", "check", "close_old", "open", "install",
     "settle_ok", "settle_failed", "ready", "call", "mark_failed", "panic"} = Place
    BY DEF Place

\* A call that ends, one way or the other.
LEMMA CallEnds ==
    ASSUME CallerOK, HeldOK, NEW p \in Goroutine,
           caller' = [caller EXCEPT ![p].at = "idle", ![p].client = Nil]
    PROVE  CallerOK' /\ HeldOK'
<1>1. "idle" \in Place
    BY PlacesOfCallers
<1>2. CallerOK'
    BY <1>1 DEF CallerOK
<1>3. \A q \in Goroutine : Uses(q)' => Uses(q) /\ caller'[q].entry = caller[q].entry
    BY DEF CallerOK, Uses
<1>. QED
    BY <1>2, <1>3 DEF HeldOK

\* Callers that move on with the entries they hold do not disturb the order.
LEMMA StillCounted ==
    ASSUME Counted, CallerOK, EntryOK,
           current' = current, remover' = remover,
           \A e \in Entry : entry'[e].state = "unused" <=> entry[e].state = "unused",
           \A q \in Goroutine : Uses(q)' => Uses(q) /\ caller'[q].entry = caller[q].entry
    PROVE  Counted'
    BY DEF Counted, Made

\* The entry that getEntry or AddServer makes keeps the order.
LEMMA NextCounted ==
    ASSUME PoolTypeOK, Counted, current = Nil,
           current' = FreshEntry,
           entry' = [entry EXCEPT ![FreshEntry].state = "Idle"],
           remover' = remover,
           \A q \in Goroutine : Uses(q)' =>
              (Uses(q) /\ caller'[q].entry = caller[q].entry) \/ caller'[q].entry = current'
    PROVE  Counted'
<1>1. FreshEntry = remover.removes + 1 /\ FreshEntry \in Entry
    BY FreshIsNext
<1>2. current' # Nil /\ Made' = remover.removes + 1 /\ Made = remover.removes
    BY <1>1, EntriesAreNumbers DEF Made, PoolTypeOK
<1>3. EntryOK /\ RemoverOK
    BY TypeParts
<1>4. \A e \in Entry : entry'[e].state # "unused" <=> e <= Made'
    <2>. SUFFICES ASSUME NEW e \in Entry PROVE entry'[e].state # "unused" <=> e <= Made'
        OBVIOUS
    <2>1. e \in Nat /\ remover.removes \in Nat
        BY <1>3, EntriesAreNumbers DEF RemoverOK
    <2>2. entry'[e].state # "unused" <=> e = FreshEntry \/ entry[e].state # "unused"
        BY <1>1, <1>3 DEF EntryOK
    <2>. QED
        BY <1>1, <1>2, <2>1, <2>2 DEF Counted
<1>5. \A p \in Goroutine : Uses(p)' => caller'[p].entry <= Made'
    <2>. SUFFICES ASSUME NEW p \in Goroutine, Uses(p)' PROVE caller'[p].entry <= Made'
        OBVIOUS
    <2>1. CASE caller'[p].entry = current'
        BY <1>1, <1>2, <1>3, <2>1 DEF RemoverOK
    <2>2. CASE Uses(p) /\ caller'[p].entry = caller[p].entry
        <3>1. caller[p].entry <= remover.removes /\ caller[p].entry \in Nat
            BY <1>2, <2>2, EntriesAreNumbers DEF Counted, PoolTypeOK, Uses
        <3>. QED
            BY <1>2, <1>3, <2>2, <3>1 DEF RemoverOK
    <2>. QED
        BY <2>1, <2>2
<1>. QED
    BY <1>1, <1>2, <1>4, <1>5 DEF Counted

\* Type correctness and the order of the entries, step by step.
THEOREM PoolTypeCorrect == PoolSpec => [](PoolTypeOK /\ Counted)
<1>1. PoolInit => PoolTypeOK /\ Counted
  <2>. SUFFICES ASSUME PoolInit PROVE PoolTypeOK /\ Counted
    OBVIOUS
  <2>1. CallerOK /\ HeldOK
    BY PoolAssumption, PlacesOfCallers DEF PoolInit, CallerOK, HeldOK, Uses
  <2>2. EntryOK /\ ClientOK /\ RemoverOK
    BY EntriesAreNumbers DEF PoolInit, EntryOK, ClientOK, RemoverOK
  <2>3. PlainOK
    <3>1. fails \in [connect : 0 .. ConnectFails, call : 0 .. CallFails]
      BY PoolAssumption DEF PoolInit
    <3>2. configured \in BOOLEAN /\ crossed \in BOOLEAN /\ current \in Entry \union {Nil}
      BY Zenon DEF PoolInit
    <3>. QED
      BY <3>1, <3>2 DEF PlainOK
  <2>4. Counted
    BY EntriesAreNumbers DEF PoolInit, Counted, Made, Uses, Nil, Entry
  <2>. QED
    BY <2>1, <2>2, <2>3, <2>4, TypeParts
<1>2. PoolTypeOK /\ Counted /\ [PoolNext]_poolVars => PoolTypeOK' /\ Counted'
  <2>. SUFFICES ASSUME PoolTypeOK, Counted, [PoolNext]_poolVars
                PROVE  PoolTypeOK' /\ Counted'
    OBVIOUS
  <2>0. CallerOK /\ EntryOK /\ ClientOK /\ HeldOK /\ RemoverOK /\ PlainOK
    BY TypeParts
  <2>. USE <2>0 DEF Uses, Move
  <2>1. ASSUME NEW p \in Goroutine, Begin(p) PROVE PoolTypeOK' /\ Counted'
    <3>1. CallerOK' /\ HeldOK'
      BY <2>1, PlacesOfCallers, OneMore DEF Begin, CallerOK, HeldOK
    <3>2. EntryOK' /\ ClientOK'
      BY <2>1 DEF Begin, EntryOK, ClientOK, CallerOK, HeldOK
    <3>3. RemoverOK' /\ PlainOK'
      BY <2>1 DEF Begin, RemoverOK, PlainOK, Connecting, InUse
    <3>4. Counted'
      BY <2>1, <3>3, EntriesAreNumbers DEF Begin, Counted, Made, CallerOK, EntryOK, HeldOK, RemoverOK, PlainOK
    <3>. QED
      BY <3>1, <3>2, <3>3, <3>4, TypeParts
  <2>2. ASSUME NEW p \in Goroutine, GetEntry(p) PROVE PoolTypeOK' /\ Counted'
    <3>1. CallerOK' /\ HeldOK'
      <4>. DEFINE held == current'
      <4>1. held \in Entry /\ held # Nil
        BY <2>2, EntriesAreNumbers, FreshIsNext DEF GetEntry, PlainOK, Create
      <4>2. caller' = [caller EXCEPT ![p].at = "check", ![p].entry = held]
        BY <2>2 DEF GetEntry
      <4>3. "check" \in Place
        BY PlacesOfCallers
      <4>. HIDE DEF held
      <4>4. CallerOK'
        BY <4>1, <4>2, <4>3 DEF CallerOK
      <4>5. HeldOK'
        BY <4>1, <4>2 DEF CallerOK, HeldOK
      <4>. QED
        BY <4>4, <4>5
    <3>2. EntryOK' /\ ClientOK'
      <4>1. \E e \in Entry : entry' = [entry EXCEPT ![e].state = "Idle"] \/ entry' = entry
        BY <2>2, EntriesAreNumbers, FreshIsNext DEF GetEntry, PlainOK, Create
      <4>. QED
        BY <2>2, <4>1 DEF GetEntry, EntryOK, ClientOK
    <3>3. RemoverOK' /\ PlainOK'
      BY <2>2, EntriesAreNumbers, FreshIsNext DEF GetEntry, RemoverOK, PlainOK, Connecting, InUse, Create
    <3>4. Counted'
      <4>1. CASE current # Nil
        BY <2>2, <3>3, <4>1, EntriesAreNumbers DEF GetEntry, Counted, Made, CallerOK, RemoverOK, PlainOK
      <4>2. CASE current = Nil
        BY <2>2, <4>2, NextCounted DEF GetEntry, Create, CallerOK
      <4>. QED
        BY <4>1, <4>2
    <3>. QED
      BY <3>1, <3>2, <3>3, <3>4, TypeParts
  <2>3. ASSUME NEW p \in Goroutine, CheckEntry(p) PROVE PoolTypeOK' /\ Counted'
    <3>1. CallerOK' /\ HeldOK'
      BY <2>3, PlacesOfCallers DEF CheckEntry, CallerOK, HeldOK
    <3>2. EntryOK' /\ ClientOK'
      <4>1. \E e \in Entry : entry' = [entry EXCEPT ![e].state = "Connecting"] \/ entry' = entry
        BY <2>3 DEF CheckEntry, CallerOK, HeldOK
      <4>. QED
        BY <2>3, <4>1 DEF CheckEntry, EntryOK, ClientOK
    <3>3. RemoverOK' /\ PlainOK'
      BY <2>3 DEF CheckEntry, RemoverOK, PlainOK, Connecting, InUse
    <3>4. Counted'
      <4>1. /\ \A q \in Goroutine : Uses(q)' => Uses(q) /\ caller'[q].entry = caller[q].entry
            /\ current' = current /\ remover' = remover
        BY <2>3 DEF CheckEntry, CallerOK
      <4>2. \A e \in Entry : entry'[e].state = "unused" <=> entry[e].state = "unused"
        BY <2>3 DEF CheckEntry, EntryOK
      <4>. QED
        BY <4>1, <4>2, StillCounted
    <3>. QED
      BY <3>1, <3>2, <3>3, <3>4, TypeParts
  <2>4. ASSUME NEW p \in Goroutine, CloseOld(p) PROVE PoolTypeOK' /\ Counted'
    <3>1. CallerOK' /\ HeldOK'
      BY <2>4, PlacesOfCallers DEF CloseOld, CallerOK, HeldOK
    <3>2. EntryOK' /\ ClientOK'
      <4>1. caller[p].entry \in Entry
        BY <2>4 DEF CloseOld, CallerOK, HeldOK
      <4>2. /\ client' = CloseClientOf(caller[p].entry)
            /\ entry' = [entry EXCEPT ![caller[p].entry].client = Nil]
        BY <2>4 DEF CloseOld
      <4>3. EntryOK'
        BY <4>1, <4>2 DEF EntryOK
      <4>4. ClientOK'
        BY <4>1, <4>2 DEF ClientOK, EntryOK, CloseClientOf
      <4>. QED
        BY <4>3, <4>4
    <3>3. RemoverOK' /\ PlainOK'
      BY <2>4 DEF CloseOld, RemoverOK, PlainOK, Connecting, InUse, CloseClientOf
    <3>4. Counted'
      BY <2>4, <3>3, EntriesAreNumbers DEF CloseOld, Counted, Made, CallerOK, EntryOK, HeldOK, RemoverOK, PlainOK, CloseClientOf
    <3>. QED
      BY <3>1, <3>2, <3>3, <3>4, TypeParts
  <2>5. ASSUME NEW p \in Goroutine, Open(p) PROVE PoolTypeOK' /\ Counted'
    <3>1. CallerOK' /\ HeldOK'
      <4>1. PICK c \in Client : caller' = [caller EXCEPT ![p].at = "install", ![p].client = c]
        BY <2>5 DEF Open
      <4>2. caller[p].at = "open"
        BY <2>5 DEF Open
      <4>. QED
        <5>1. "install" \in Place
          BY PlacesOfCallers
        <5>2. CallerOK'
          BY <4>1, <5>1 DEF CallerOK
        <5>3. \A q \in Goroutine : Uses(q)' => Uses(q) /\ caller'[q].entry = caller[q].entry
          BY <4>1, <4>2 DEF CallerOK
        <5>. QED
          BY <5>2, <5>3 DEF HeldOK
    <3>2. EntryOK' /\ ClientOK'
      BY <2>5 DEF Open, EntryOK, ClientOK, CallerOK, HeldOK
    <3>3. RemoverOK' /\ PlainOK'
      BY <2>5 DEF Open, RemoverOK, PlainOK, Connecting, InUse
    <3>4. Counted'
      BY <2>5, <3>3, EntriesAreNumbers DEF Open, Counted, Made, CallerOK, EntryOK, HeldOK, RemoverOK, PlainOK
    <3>. QED
      BY <3>1, <3>2, <3>3, <3>4, TypeParts
  <2>6. ASSUME NEW p \in Goroutine, OpenFails(p) PROVE PoolTypeOK' /\ Counted'
    <3>1. CallerOK' /\ HeldOK'
      BY <2>6, PlacesOfCallers DEF OpenFails, CallerOK, HeldOK
    <3>2. EntryOK' /\ ClientOK'
      BY <2>6 DEF OpenFails, EntryOK, ClientOK, CallerOK, HeldOK
    <3>3. RemoverOK' /\ PlainOK'
      BY <2>6, OneMore DEF OpenFails, RemoverOK, PlainOK, Connecting, InUse
    <3>4. Counted'
      BY <2>6, <3>3, EntriesAreNumbers DEF OpenFails, Counted, Made, CallerOK, EntryOK, HeldOK, RemoverOK, PlainOK
    <3>. QED
      BY <3>1, <3>2, <3>3, <3>4, TypeParts
  <2>7. ASSUME NEW p \in Goroutine, Install(p) PROVE PoolTypeOK' /\ Counted'
    <3>1. CallerOK' /\ HeldOK'
      BY <2>7, PlacesOfCallers DEF Install, CallerOK, HeldOK
    <3>2. EntryOK' /\ ClientOK'
      BY <2>7 DEF Install, EntryOK, ClientOK, CallerOK, HeldOK
    <3>3. RemoverOK' /\ PlainOK'
      BY <2>7 DEF Install, RemoverOK, PlainOK, Connecting, InUse
    <3>4. Counted'
      BY <2>7, <3>3, EntriesAreNumbers DEF Install, Counted, Made, CallerOK, EntryOK, HeldOK, RemoverOK, PlainOK
    <3>. QED
      BY <3>1, <3>2, <3>3, <3>4, TypeParts
  <2>8. ASSUME NEW p \in Goroutine, Settle(p) PROVE PoolTypeOK' /\ Counted'
    <3>1. CallerOK' /\ HeldOK'
      <4>1. {"check", "idle", "ready"} \subseteq Place
        BY PlacesOfCallers
      <4>2. CallerOK'
        BY <2>8, <4>1, ZenonT(60) DEF Settle, Woken, CallerOK
      <4>3. \A q \in Goroutine : Uses(q)' => Uses(q) /\ caller'[q].entry = caller[q].entry
        BY <2>8 DEF Settle, Woken, CallerOK
      <4>. QED
        BY <4>2, <4>3 DEF HeldOK
    <3>2. EntryOK' /\ ClientOK'
      <4>1. client' = client /\ \E e \in Entry : \E x \in {"Ready", "Failed"} :
              entry' = [entry EXCEPT ![e].state = x]
        BY <2>8 DEF Settle, CallerOK, HeldOK
      <4>. QED
        BY <4>1 DEF EntryOK, ClientOK
    <3>3. RemoverOK' /\ PlainOK'
      BY <2>8 DEF Settle, RemoverOK, PlainOK, Connecting, InUse, Woken
    <3>4. Counted'
      <4>1. \A q \in Goroutine : Uses(q)' => Uses(q) /\ caller'[q].entry = caller[q].entry
        BY <2>8 DEF Settle, Woken, CallerOK
      <4>2. \E e \in Entry : entry[e].state # "unused" /\ \E x \in {"Ready", "Failed"} :
              entry' = [entry EXCEPT ![e].state = x]
        BY <2>8, EntriesAreNumbers DEF Settle, CallerOK, HeldOK, Counted
      <4>. QED
        <5>1. \A e \in Entry : entry'[e].state = "unused" <=> entry[e].state = "unused"
          BY <4>2 DEF EntryOK
        <5>. QED
          BY <2>8, <4>1, <5>1, StillCounted DEF Settle
    <3>. QED
      BY <3>1, <3>2, <3>3, <3>4, TypeParts
  <2>9. ASSUME NEW p \in Goroutine, Grab(p) PROVE PoolTypeOK' /\ Counted'
    <3>1. CallerOK' /\ HeldOK'
      BY <2>9, PlacesOfCallers DEF Grab, CallerOK, HeldOK, EntryOK
    <3>2. EntryOK' /\ ClientOK'
      BY <2>9 DEF Grab, EntryOK, ClientOK, CallerOK, HeldOK
    <3>3. RemoverOK' /\ PlainOK'
      BY <2>9 DEF Grab, RemoverOK, PlainOK, Connecting, InUse
    <3>4. Counted'
      <4>1. /\ \A q \in Goroutine : Uses(q)' => Uses(q) /\ caller'[q].entry = caller[q].entry
            /\ entry' = entry /\ current' = current /\ remover' = remover
        BY <2>9 DEF Grab, CallerOK
      <4>. QED
        BY <4>1, StillCounted
    <3>. QED
      BY <3>1, <3>2, <3>3, <3>4, TypeParts
  <2>10. ASSUME NEW p \in Goroutine, CallOK(p) PROVE PoolTypeOK' /\ Counted'
    <3>1. CallerOK' /\ HeldOK'
      BY <2>10, CallEnds DEF CallOK
    <3>2. EntryOK' /\ ClientOK'
      BY <2>10 DEF CallOK, EntryOK, ClientOK, CallerOK, HeldOK
    <3>3. RemoverOK' /\ PlainOK'
      BY <2>10 DEF CallOK, RemoverOK, PlainOK, Connecting, InUse
    <3>4. Counted'
      BY <2>10, <3>3, EntriesAreNumbers DEF CallOK, Counted, Made, CallerOK, EntryOK, HeldOK, RemoverOK, PlainOK
    <3>. QED
      BY <3>1, <3>2, <3>3, <3>4, TypeParts
  <2>11. ASSUME NEW p \in Goroutine, CallFail(p) PROVE PoolTypeOK' /\ Counted'
    <3>1. CallerOK' /\ HeldOK'
      BY <2>11, PlacesOfCallers DEF CallFail, CallerOK, HeldOK
    <3>2. EntryOK' /\ ClientOK'
      BY <2>11 DEF CallFail, EntryOK, ClientOK, CallerOK, HeldOK
    <3>3. RemoverOK' /\ PlainOK'
      BY <2>11, OneMore DEF CallFail, RemoverOK, PlainOK, Connecting, InUse
    <3>4. Counted'
      BY <2>11, <3>3, EntriesAreNumbers DEF CallFail, Counted, Made, CallerOK, EntryOK, HeldOK, RemoverOK, PlainOK
    <3>. QED
      BY <3>1, <3>2, <3>3, <3>4, TypeParts
  <2>12. ASSUME NEW p \in Goroutine, MarkFailed(p) PROVE PoolTypeOK' /\ Counted'
    <3>1. CallerOK' /\ HeldOK'
      BY <2>12, CallEnds DEF MarkFailed
    <3>2. EntryOK' /\ ClientOK'
      <4>1. caller[p].entry \in Entry
        BY <2>12 DEF MarkFailed, CallerOK, HeldOK
      <4>2. client' = client /\ entry' = [entry EXCEPT ![caller[p].entry].state = "Failed"]
        BY <2>12 DEF MarkFailed
      <4>. QED
        BY <4>1, <4>2 DEF EntryOK, ClientOK
    <3>3. RemoverOK' /\ PlainOK'
      BY <2>12 DEF MarkFailed, RemoverOK, PlainOK, Connecting, InUse
    <3>4. Counted'
      BY <2>12, <3>3, EntriesAreNumbers DEF MarkFailed, Counted, Made, CallerOK, EntryOK, HeldOK, RemoverOK, PlainOK
    <3>. QED
      BY <3>1, <3>2, <3>3, <3>4, TypeParts
  <2>13. ASSUME DisconnectServer PROVE PoolTypeOK' /\ Counted'
    <3>1. CallerOK' /\ HeldOK'
      BY <2>13, PlacesOfCallers DEF DisconnectServer, CallerOK, HeldOK
    <3>2. EntryOK' /\ ClientOK'
      BY <2>13 DEF DisconnectServer, EntryOK, ClientOK, RemoverOK, Counted
    <3>3. RemoverOK' /\ PlainOK'
      BY <2>13, OneMore DEF DisconnectServer, RemoverOK, PlainOK, Connecting, InUse
    <3>4. Counted'
      BY <2>13, <3>3, EntriesAreNumbers DEF DisconnectServer, Counted, Made, CallerOK, EntryOK, HeldOK, RemoverOK, PlainOK
    <3>. QED
      BY <3>1, <3>2, <3>3, <3>4, TypeParts
  <2>14. ASSUME DisconnectClose PROVE PoolTypeOK' /\ Counted'
    <3>1. CallerOK' /\ HeldOK'
      BY <2>14, PlacesOfCallers DEF DisconnectClose, CallerOK, HeldOK
    <3>2. EntryOK' /\ ClientOK'
      BY <2>14 DEF DisconnectClose, EntryOK, ClientOK, RemoverOK, Counted, CloseClientOf
    <3>3. RemoverOK' /\ PlainOK'
      BY <2>14 DEF DisconnectClose, RemoverOK, PlainOK, Connecting, InUse, CloseClientOf
    <3>4. Counted'
      BY <2>14, <3>3, EntriesAreNumbers DEF DisconnectClose, Counted, Made, CallerOK, EntryOK, HeldOK, RemoverOK, PlainOK, CloseClientOf
    <3>. QED
      BY <3>1, <3>2, <3>3, <3>4, TypeParts
  <2>15. ASSUME AddServer PROVE PoolTypeOK' /\ Counted'
    <3>1. CallerOK' /\ HeldOK'
      BY <2>15, PlacesOfCallers, EntriesAreNumbers, FreshIsNext DEF AddServer, CallerOK, HeldOK, Create
    <3>2. EntryOK' /\ ClientOK'
      BY <2>15, EntriesAreNumbers, FreshIsNext DEF AddServer, EntryOK, ClientOK, RemoverOK, Counted, Create
    <3>3. RemoverOK' /\ PlainOK'
      BY <2>15, EntriesAreNumbers, FreshIsNext DEF AddServer, RemoverOK, PlainOK, Connecting, InUse, Create
    <3>4. Counted'
      <4>1. CASE current # Nil
        BY <2>15, <4>1 DEF AddServer, Counted, Made
      <4>2. CASE current = Nil
        BY <2>15, <4>2, NextCounted DEF AddServer, Create
      <4>. QED
        BY <4>1, <4>2
    <3>. QED
      BY <3>1, <3>2, <3>3, <3>4, TypeParts
  <2>16. ASSUME UNCHANGED poolVars PROVE PoolTypeOK' /\ Counted'
    BY <2>16 DEF poolVars, PoolTypeOK, Counted, Made
  <2>. QED
    BY <2>1, <2>2, <2>3, <2>4, <2>5, <2>6, <2>7, <2>8, <2>9, <2>10, <2>11, <2>12, <2>13, <2>14, <2>15, <2>16 DEF PoolNext
<1>. QED
    BY <1>1, <1>2, PTL DEF PoolSpec

\* What a caller at the entry's state does to the entry (the loop of getOrConnect).
LEMMA CheckedEntry ==
    ASSUME NEW p \in Goroutine, CheckEntry(p), CallerOK, EntryOK, HeldOK
    PROVE  \E e \in Entry :
              /\ e = caller[p].entry
              /\ \/ entry' = entry /\ caller' \in {[caller EXCEPT ![p].at = "ready"],
                                                   [caller EXCEPT ![p].at = "waiting"]}
                 \/ /\ entry' = [entry EXCEPT ![e].state = "Connecting"]
                    /\ caller' = [caller EXCEPT ![p].at = "close_old"]
                    /\ entry[e].state \in {"Idle", "Failed"}
    BY DEF CheckEntry, CallerOK, HeldOK, Uses, Move

\* What settling a connection leaves: nobody connects, waiters look again.
LEMMA SettledEntry ==
    ASSUME NEW p \in Goroutine, Settle(p), CallerOK, EntryOK, HeldOK, PlainOK, Flight
    PROVE  /\ caller[p].at \in {"settle_ok", "settle_failed"} /\ caller[p].entry = current
           /\ current # Nil /\ current \in Entry
           /\ current' = current /\ client' = client /\ remover' = remover
           /\ \A q \in Goroutine : Uses(q)' => Uses(q) /\ caller'[q].entry = caller[q].entry
           /\ \A q \in Goroutine : caller'[q].at \notin ConnectPlace
           /\ \A q \in Goroutine : caller[q].at # "install"
           /\ \A d \in Entry : entry'[d].client = entry[d].client
           /\ entry'[current].state = "Ready" => caller[p].at = "settle_ok"
<1>1. /\ caller[p].at \in {"settle_ok", "settle_failed"} /\ caller[p].entry = current
      /\ current # Nil /\ current \in Entry
    BY DEF Settle, Flight, Uses, HeldOK, PlainOK
<1>2. /\ \A q \in Goroutine : q # p => caller[q].at \notin ConnectPlace
      /\ caller[p].at \in ConnectPlace
    BY <1>1 DEF Flight, ConnectPlace
<1>3. \A q \in Goroutine : Uses(q)' => Uses(q) /\ caller'[q].entry = caller[q].entry
    BY DEF Settle, Woken, CallerOK, Uses
<1>4. \A q \in Goroutine : caller'[q].at \notin ConnectPlace
    BY <1>2 DEF Settle, Woken, CallerOK, ConnectPlace
<1>5. entry' = [entry EXCEPT ![current].state = IF caller[p].at = "settle_ok" THEN "Ready" ELSE "Failed"]
    BY <1>1 DEF Settle
<1>6. \A d \in Entry : entry'[d].client = entry[d].client
    BY <1>1, <1>5 DEF EntryOK
<1>7. entry'[current].state = "Ready" => caller[p].at = "settle_ok"
    BY <1>1, <1>5 DEF EntryOK
<1>8. \A q \in Goroutine : caller[q].at # "install"
    BY <1>1, <1>2 DEF ConnectPlace
<1>. QED
    BY <1>1, <1>3, <1>4, <1>6, <1>7, <1>8 DEF Settle

\* A step within the types, until something crossed: who uses and who has what.
THEOREM PoolInvariant == PoolSpec => []PoolInv
<1>1. PoolInit => (~crossed => Flight /\ Apart /\ Hands /\ AllOwned)
    BY EntriesAreNumbers DEF PoolInit, Flight, Apart, Hands, AllOwned, Uses, ConnectPlace, Nil
<1>2. PoolInv /\ PoolTypeOK' /\ Counted' /\ [PoolNext]_poolVars
        => (~crossed' => Flight' /\ Apart' /\ Hands' /\ AllOwned')
  <2>. SUFFICES ASSUME PoolInv, PoolTypeOK', Counted', [PoolNext]_poolVars, ~crossed'
                PROVE  Flight' /\ Apart' /\ Hands' /\ AllOwned'
    OBVIOUS
  <2>0. /\ CallerOK /\ EntryOK /\ ClientOK /\ HeldOK /\ RemoverOK /\ PlainOK /\ Counted
        /\ CallerOK' /\ EntryOK' /\ ClientOK' /\ HeldOK' /\ RemoverOK' /\ PlainOK' /\ Counted'
    BY TypeParts DEF PoolInv
  <2>. USE <2>0 DEF Uses, Move, ConnectPlace
  <2>1. ASSUME NEW p \in Goroutine, Begin(p) PROVE Flight' /\ Apart' /\ Hands' /\ AllOwned'
    <3>0. ~crossed /\ Flight /\ Apart /\ Hands /\ AllOwned
      BY <2>1 DEF Begin, PoolInv
    <3>1. Flight'
      BY <2>1, <3>0 DEF Begin, Flight, CallerOK, EntryOK, HeldOK, PlainOK
    <3>2. Apart'
      BY <2>1, <3>0 DEF Begin, Apart, EntryOK, ClientOK, Hands, Flight, CallerOK, HeldOK
    <3>3. Hands'
      BY <2>1, <3>0, <3>1 DEF Begin, Hands, Apart, Flight, CallerOK, EntryOK, ClientOK, HeldOK
    <3>4. AllOwned'
      BY <2>1, <3>0, <3>1 DEF Begin, AllOwned, Has, Hands, Apart, Flight, CallerOK, EntryOK, ClientOK, HeldOK
    <3>. QED
      BY <3>1, <3>2, <3>3, <3>4
  <2>2. ASSUME NEW p \in Goroutine, GetEntry(p) PROVE Flight' /\ Apart' /\ Hands' /\ AllOwned'
    <3>0. ~crossed /\ Flight /\ Apart /\ Hands /\ AllOwned
      BY <2>2 DEF GetEntry, PoolInv
    <3>5. /\ client' = client /\ remover' = remover /\ current' \in Entry
          /\ \A d \in Entry : entry'[d].client = entry[d].client
          /\ current # Nil => current' = current
          /\ caller[p].at = "configured" /\ caller'[p].at = "check"
          /\ \A q \in Goroutine : q # p => caller'[q] = caller[q]
      <4>1. caller[p].at = "configured" /\ client' = client /\ remover' = remover
        BY <2>2 DEF GetEntry
      <4>2. caller'[p].at = "check" /\ \A q \in Goroutine : q # p => caller'[q] = caller[q]
        BY <2>2 DEF GetEntry, CallerOK
      <4>3. CASE current # Nil
        BY <2>2, <4>1, <4>2, <4>3 DEF GetEntry, PlainOK
      <4>4. CASE current = Nil
        <5>1. FreshEntry \in Entry
          BY <4>4, FreshIsNext DEF PoolInv
        <5>2. current' = FreshEntry /\ entry' = [entry EXCEPT ![FreshEntry].state = "Idle"]
          BY <2>2, <4>4 DEF GetEntry, Create
        <5>. QED
          BY <4>1, <4>2, <4>4, <5>1, <5>2 DEF EntryOK
      <4>. QED
        BY <4>3, <4>4
    <3>1. Flight'
      BY <2>2, <3>0, EntriesAreNumbers, FreshIsNext DEF GetEntry, Flight, CallerOK, EntryOK, HeldOK, PlainOK, Create
    <3>2. Apart'
      BY <3>0, <3>5 DEF Apart
    <3>3. Hands'
      BY <2>2, <3>0, <3>1, EntriesAreNumbers, FreshIsNext DEF GetEntry, Hands, Apart, Flight, CallerOK, EntryOK, ClientOK, HeldOK, Create
    <3>4. AllOwned'
      BY <3>0, <3>5, EntriesAreNumbers DEF AllOwned, Has, RemoverOK, Counted
    <3>. QED
      BY <3>1, <3>2, <3>3, <3>4
  <2>3. ASSUME NEW p \in Goroutine, CheckEntry(p) PROVE Flight' /\ Apart' /\ Hands' /\ AllOwned'
    <3>0. ~crossed /\ Flight /\ Apart /\ Hands /\ AllOwned
      BY <2>3 DEF CheckEntry, PoolInv
    <3>5. /\ caller[p].at = "check" /\ caller[p].entry = current
          /\ current # Nil /\ current \in Entry
          /\ current' = current /\ client' = client /\ remover' = remover
          /\ caller'[p].entry = caller[p].entry
          /\ \A q \in Goroutine : q # p => caller'[q] = caller[q]
          /\ \A d \in Entry : entry'[d].client = entry[d].client
          /\ \/ caller'[p].at \in {"ready", "waiting"} /\ entry' = entry
             \/ /\ caller'[p].at = "close_old" /\ entry[current].state \in {"Idle", "Failed"}
                /\ entry'[current].state = "Connecting"
      <4>1. PICK e \in Entry :
              /\ e = caller[p].entry
              /\ \/ entry' = entry /\ caller' \in {[caller EXCEPT ![p].at = "ready"],
                                                   [caller EXCEPT ![p].at = "waiting"]}
                 \/ /\ entry' = [entry EXCEPT ![e].state = "Connecting"]
                    /\ caller' = [caller EXCEPT ![p].at = "close_old"]
                    /\ entry[e].state \in {"Idle", "Failed"}
        BY <2>3, CheckedEntry
      <4>2. caller[p].at = "check" /\ e = current /\ current # Nil
        BY <2>3, <3>0, <4>1 DEF CheckEntry, Flight, HeldOK
      <4>. QED
        <5>1. current' = current /\ client' = client /\ remover' = remover
          BY <2>3 DEF CheckEntry
        <5>2. CASE /\ entry' = entry
                   /\ caller' \in {[caller EXCEPT ![p].at = "ready"],
                                  [caller EXCEPT ![p].at = "waiting"]}
          <6>1. /\ caller'[p].at \in {"ready", "waiting"} /\ caller'[p].entry = caller[p].entry
                /\ \A q \in Goroutine : q # p => caller'[q] = caller[q]
            BY <5>2 DEF CallerOK
          <6>. QED
            BY <4>1, <4>2, <5>1, <5>2, <6>1
        <5>3. CASE /\ entry' = [entry EXCEPT ![e].state = "Connecting"]
                   /\ caller' = [caller EXCEPT ![p].at = "close_old"]
                   /\ entry[e].state \in {"Idle", "Failed"}
          <6>1. \A d \in Entry : entry'[d].client = entry[d].client
            BY <5>3 DEF EntryOK
          <6>2. entry'[current].state = "Connecting"
            BY <4>2, <5>3 DEF EntryOK
          <6>3. /\ caller'[p].at = "close_old" /\ caller'[p].entry = caller[p].entry
                /\ \A q \in Goroutine : q # p => caller'[q] = caller[q]
            BY <5>3 DEF CallerOK
          <6>. QED
            BY <4>1, <4>2, <5>1, <5>3, <6>1, <6>2, <6>3
        <5>. QED
          BY <4>1, <5>2, <5>3
    <3>1. Flight'
      BY <3>0, <3>5 DEF Flight
    <3>2. Apart'
      BY <3>0, <3>5 DEF Apart
    <3>3. Hands'
      BY <3>0, <3>5, <3>1 DEF Hands, Flight
    <3>4. AllOwned'
      BY <3>0, <3>5 DEF AllOwned, Has, RemoverOK, Counted
    <3>. QED
      BY <3>1, <3>2, <3>3, <3>4
  <2>4. ASSUME NEW p \in Goroutine, CloseOld(p) PROVE Flight' /\ Apart' /\ Hands' /\ AllOwned'
    <3>0. ~crossed /\ Flight /\ Apart /\ Hands /\ AllOwned
      BY <2>4 DEF CloseOld, PoolInv
    <3>1. Flight'
      BY <2>4, <3>0 DEF CloseOld, Flight, CallerOK, EntryOK, HeldOK, PlainOK, CloseClientOf
    <3>2. Apart'
      BY <2>4, <3>0 DEF CloseOld, Apart, EntryOK, ClientOK, Hands, Flight, CallerOK, HeldOK, CloseClientOf
    <3>3. Hands'
      BY <2>4, <3>0, <3>1 DEF CloseOld, Hands, Apart, Flight, CallerOK, EntryOK, ClientOK, HeldOK, CloseClientOf
    <3>4. AllOwned'
      BY <2>4, <3>0, <3>1 DEF CloseOld, AllOwned, Has, Hands, Apart, Flight, CallerOK, EntryOK, ClientOK, HeldOK, CloseClientOf
    <3>. QED
      BY <3>1, <3>2, <3>3, <3>4
  <2>5. ASSUME NEW p \in Goroutine, Open(p) PROVE Flight' /\ Apart' /\ Hands' /\ AllOwned'
    <3>0. ~crossed /\ Flight /\ Apart /\ Hands /\ AllOwned
      BY <2>5 DEF Open, PoolInv
    <3>5. \E c \in Client :
          /\ caller[p].at = "open" /\ client[c] = "new" /\ entry' = entry /\ current' = current
          /\ client'[c] = "open" /\ \A d \in Client : d # c => client'[d] = client[d]
          /\ caller'[p].at = "install" /\ caller'[p].client = c
          /\ \A q \in Goroutine : q # p => caller'[q] = caller[q]
      BY <2>5 DEF Open, CallerOK, ClientOK
    <3>1. Flight'
      BY <2>5, <3>0 DEF Open, Flight, CallerOK, EntryOK, HeldOK, PlainOK
    <3>2. Apart'
      BY <2>5, <3>0 DEF Open, Apart, EntryOK, ClientOK, Hands, Flight, CallerOK, HeldOK
    <3>3. Hands'
      BY <3>0, <3>5, EntriesAreNumbers DEF Hands, Apart, Flight, EntryOK, PlainOK, CallerOK, HeldOK
    <3>4. AllOwned'
      BY <2>5, <3>0, <3>1 DEF Open, AllOwned, Has, Hands, Apart, Flight, CallerOK, EntryOK, ClientOK, HeldOK
    <3>. QED
      BY <3>1, <3>2, <3>3, <3>4
  <2>6. ASSUME NEW p \in Goroutine, OpenFails(p) PROVE Flight' /\ Apart' /\ Hands' /\ AllOwned'
    <3>0. ~crossed /\ Flight /\ Apart /\ Hands /\ AllOwned
      BY <2>6 DEF OpenFails, PoolInv
    <3>1. Flight'
      BY <2>6, <3>0 DEF OpenFails, Flight, CallerOK, EntryOK, HeldOK, PlainOK
    <3>2. Apart'
      BY <2>6, <3>0 DEF OpenFails, Apart, EntryOK, ClientOK, Hands, Flight, CallerOK, HeldOK
    <3>3. Hands'
      BY <2>6, <3>0, <3>1 DEF OpenFails, Hands, Apart, Flight, CallerOK, EntryOK, ClientOK, HeldOK
    <3>4. AllOwned'
      BY <2>6, <3>0, <3>1 DEF OpenFails, AllOwned, Has, Hands, Apart, Flight, CallerOK, EntryOK, ClientOK, HeldOK
    <3>. QED
      BY <3>1, <3>2, <3>3, <3>4
  <2>7. ASSUME NEW p \in Goroutine, Install(p) PROVE Flight' /\ Apart' /\ Hands' /\ AllOwned'
    <3>0. ~crossed /\ Flight /\ Apart /\ Hands /\ AllOwned
      BY <2>7 DEF Install, PoolInv
    <3>5. /\ caller[p].at = "install" /\ caller[p].entry = current
          /\ current # Nil /\ current \in Entry
          /\ current' = current /\ client' = client /\ remover' = remover
          /\ \A q \in Goroutine : q # p => caller'[q] = caller[q] /\ caller[q].at # "install"
          /\ entry[current].client = Nil /\ entry'[current].client = caller[p].client
          /\ caller'[p].at = "settle_ok"
          /\ \A d \in Entry : d # current => entry'[d].client = entry[d].client
      BY <2>7, <3>0 DEF Install, CallerOK, EntryOK, HeldOK, PlainOK, Flight, Hands
    <3>1. Flight'
      BY <2>7, <3>0 DEF Install, Flight, CallerOK, EntryOK, HeldOK, PlainOK
    <3>2. Apart'
      BY <3>0, <3>5 DEF Apart, Hands
    <3>3. Hands'
      BY <3>0, <3>5 DEF Hands, Flight
    <3>4. AllOwned'
      BY <3>0, <3>5, EntriesAreNumbers DEF AllOwned, Has, RemoverOK, Counted
    <3>. QED
      BY <3>1, <3>2, <3>3, <3>4
  <2>8. ASSUME NEW p \in Goroutine, Settle(p) PROVE Flight' /\ Apart' /\ Hands' /\ AllOwned'
    <3>0. ~crossed /\ Flight /\ Apart /\ Hands /\ AllOwned
      BY <2>8 DEF Settle, PoolInv
    <3>5. /\ caller[p].at \in {"settle_ok", "settle_failed"} /\ caller[p].entry = current
          /\ current # Nil /\ current \in Entry
          /\ current' = current /\ client' = client /\ remover' = remover
          /\ \A q \in Goroutine : Uses(q)' => Uses(q) /\ caller'[q].entry = caller[q].entry
          /\ \A q \in Goroutine : caller'[q].at \notin ConnectPlace
          /\ \A q \in Goroutine : caller[q].at # "install"
          /\ \A d \in Entry : entry'[d].client = entry[d].client
          /\ entry'[current].state = "Ready" => caller[p].at = "settle_ok"
      BY SettledEntry, <2>8, <3>0
    <3>1. Flight'
      BY <3>0, <3>5 DEF Flight
    <3>2. Apart'
      BY <3>0, <3>5 DEF Apart
    <3>3. Hands'
      BY <3>0, <3>5 DEF Hands
    <3>4. AllOwned'
      BY <3>0, <3>5 DEF AllOwned, Has, RemoverOK, Counted
    <3>. QED
      BY <3>1, <3>2, <3>3, <3>4
  <2>9. ASSUME NEW p \in Goroutine, Grab(p) PROVE Flight' /\ Apart' /\ Hands' /\ AllOwned'
    <3>0. ~crossed /\ Flight /\ Apart /\ Hands /\ AllOwned
      BY <2>9 DEF Grab, PoolInv
    <3>5. /\ caller[p].at = "ready" /\ caller'[p].at \in {"idle", "call", "panic"}
          /\ caller'[p].entry = caller[p].entry
          /\ \A q \in Goroutine : q # p => caller'[q] = caller[q]
          /\ entry' = entry /\ client' = client /\ current' = current
      BY <2>9 DEF Grab, CallerOK
    <3>1. Flight'
      BY <3>0, <3>5 DEF Flight
    <3>2. Apart'
      BY <2>9, <3>0 DEF Grab, Apart, EntryOK, ClientOK, Hands, Flight, CallerOK, HeldOK
    <3>3. Hands'
      BY <3>0, <3>5 DEF Hands
    <3>4. AllOwned'
      BY <2>9, <3>0, <3>1 DEF Grab, AllOwned, Has, Hands, Apart, Flight, CallerOK, EntryOK, ClientOK, HeldOK
    <3>. QED
      BY <3>1, <3>2, <3>3, <3>4
  <2>10. ASSUME NEW p \in Goroutine, CallOK(p) PROVE Flight' /\ Apart' /\ Hands' /\ AllOwned'
    <3>0. ~crossed /\ Flight /\ Apart /\ Hands /\ AllOwned
      BY <2>10 DEF CallOK, PoolInv
    <3>1. Flight'
      BY <2>10, <3>0 DEF CallOK, Flight, CallerOK, EntryOK, HeldOK, PlainOK
    <3>2. Apart'
      BY <2>10, <3>0 DEF CallOK, Apart, EntryOK, ClientOK, Hands, Flight, CallerOK, HeldOK
    <3>3. Hands'
      BY <2>10, <3>0, <3>1 DEF CallOK, Hands, Apart, Flight, CallerOK, EntryOK, ClientOK, HeldOK
    <3>4. AllOwned'
      BY <2>10, <3>0, <3>1 DEF CallOK, AllOwned, Has, Hands, Apart, Flight, CallerOK, EntryOK, ClientOK, HeldOK
    <3>. QED
      BY <3>1, <3>2, <3>3, <3>4
  <2>11. ASSUME NEW p \in Goroutine, CallFail(p) PROVE Flight' /\ Apart' /\ Hands' /\ AllOwned'
    <3>0. ~crossed /\ Flight /\ Apart /\ Hands /\ AllOwned
      BY <2>11 DEF CallFail, PoolInv
    <3>1. Flight'
      BY <2>11, <3>0 DEF CallFail, Flight, CallerOK, EntryOK, HeldOK, PlainOK
    <3>2. Apart'
      BY <2>11, <3>0 DEF CallFail, Apart, EntryOK, ClientOK, Hands, Flight, CallerOK, HeldOK
    <3>3. Hands'
      BY <2>11, <3>0, <3>1 DEF CallFail, Hands, Apart, Flight, CallerOK, EntryOK, ClientOK, HeldOK
    <3>4. AllOwned'
      BY <2>11, <3>0, <3>1 DEF CallFail, AllOwned, Has, Hands, Apart, Flight, CallerOK, EntryOK, ClientOK, HeldOK
    <3>. QED
      BY <3>1, <3>2, <3>3, <3>4
  <2>12. ASSUME NEW p \in Goroutine, MarkFailed(p) PROVE Flight' /\ Apart' /\ Hands' /\ AllOwned'
    <3>0. ~crossed /\ Flight /\ Apart /\ Hands /\ AllOwned
      BY <2>12 DEF MarkFailed, PoolInv
    <3>5. /\ caller[p].at = "mark_failed" /\ caller[p].entry = current
          /\ \A q \in Goroutine : caller[q].at \notin ConnectPlace
          /\ caller'[p].at = "idle" /\ current' = current /\ client' = client /\ remover' = remover
          /\ \A d \in Entry : entry'[d].client = entry[d].client
          /\ current \in Entry => entry'[current].state = "Failed"
          /\ \A q \in Goroutine : q # p => caller'[q] = caller[q]
      <4>1. caller[p].at = "mark_failed" /\ caller[p].entry = current
        BY <2>12, <3>0 DEF MarkFailed, Flight
      <4>2. /\ entry' = [entry EXCEPT ![current].state = "Failed"]
            /\ caller' = [caller EXCEPT ![p].at = "idle", ![p].client = Nil]
            /\ current' = current /\ client' = client /\ remover' = remover
            /\ ~Connecting(current)
        BY <2>12, <4>1 DEF MarkFailed
      <4>3. \A q \in Goroutine : caller[q].at \notin ConnectPlace
        BY <3>0, <4>2 DEF Flight, Connecting
      <4>4. /\ \A d \in Entry : entry'[d].client = entry[d].client
            /\ current \in Entry => entry'[current].state = "Failed"
        BY <4>2 DEF EntryOK
      <4>. QED
        BY <4>1, <4>2, <4>3, <4>4 DEF CallerOK
    <3>1. Flight'
      BY <3>0, <3>5 DEF Flight
    <3>2. Apart'
      BY <3>0, <3>5 DEF Apart
    <3>3. Hands'
      BY <3>0, <3>5, EntriesAreNumbers DEF Hands, PlainOK
    <3>4. AllOwned'
      BY <3>0, <3>5 DEF AllOwned, Has, PlainOK, RemoverOK, Counted
    <3>. QED
      BY <3>1, <3>2, <3>3, <3>4
  <2>13. ASSUME DisconnectServer PROVE Flight' /\ Apart' /\ Hands' /\ AllOwned'
    <3>0. ~crossed /\ Flight /\ Apart /\ Hands /\ AllOwned
      BY <2>13 DEF DisconnectServer, PoolInv
    <3>1. Flight'
      BY <2>13, <3>0, EntriesAreNumbers DEF DisconnectServer, Flight, CallerOK, EntryOK, HeldOK, PlainOK, InUse
    <3>2. Apart'
      BY <2>13, <3>0, EntriesAreNumbers DEF DisconnectServer, Apart, EntryOK, ClientOK, Hands, Flight, CallerOK, HeldOK, InUse
    <3>3. Hands'
      BY <2>13, <3>0, <3>1, EntriesAreNumbers DEF DisconnectServer, Hands, Apart, Flight, CallerOK, EntryOK, ClientOK, HeldOK, InUse
    <3>4. AllOwned'
      BY <2>13, <3>0, <3>1, EntriesAreNumbers DEF DisconnectServer, AllOwned, Has, Hands, Apart, Flight, CallerOK, EntryOK, ClientOK, HeldOK, InUse
    <3>. QED
      BY <3>1, <3>2, <3>3, <3>4
  <2>14. ASSUME DisconnectClose PROVE Flight' /\ Apart' /\ Hands' /\ AllOwned'
    <3>0. ~crossed /\ Flight /\ Apart /\ Hands /\ AllOwned
      BY <2>14 DEF DisconnectClose, PoolInv
    <3>5. /\ remover.at = "close" /\ remover'.at = "idle" /\ current' = current /\ caller' = caller
          /\ remover.entry \in Entry /\ remover.entry # current
          /\ entry'[remover.entry].client = Nil
          /\ \A d \in Entry : d # remover.entry => entry'[d] = entry[d]
          /\ \A c \in Client : client'[c] = IF c = entry[remover.entry].client THEN "closed" ELSE client[c]
      BY <2>14, <3>0, EntriesAreNumbers DEF DisconnectClose, CloseClientOf, Counted, Made, EntryOK, ClientOK, RemoverOK, PlainOK
    <3>1. Flight'
      BY <2>14, <3>0, EntriesAreNumbers DEF DisconnectClose, Flight, CallerOK, EntryOK, HeldOK, PlainOK, CloseClientOf
    <3>2. Apart'
      BY <3>0, <3>5 DEF Apart, EntryOK
    <3>3. Hands'
      <4>1. \A p \in Goroutine : Uses(p) => caller[p].entry = current /\ current \in Entry
        BY <3>0, EntriesAreNumbers DEF Flight, HeldOK, PlainOK
      <4>2. current # Nil => entry'[current] = entry[current] /\ current \in Entry
        BY <3>5 DEF PlainOK
      <4>3. \A d \in Entry : entry'[d].client # Nil => entry'[d].client # entry[remover.entry].client
        BY <3>0, <3>5 DEF Apart
      <4>4. \A p \in Goroutine : caller[p].at = "install" =>
              caller[p].client \in Client /\ caller[p].client # entry[remover.entry].client
        BY <3>0, <3>5 DEF Hands, CallerOK
      <4>5. \A d \in Entry : entry[d].client # Nil => entry[d].client \in Client
        BY DEF EntryOK
      <4>6. \A p \in Goroutine : Uses(p) => current # Nil
        BY <4>1 DEF HeldOK
      <4>7. \A p \in Goroutine : caller'[p].at = "install" =>
              /\ caller'[p].client # Nil /\ client'[caller'[p].client] = "open"
              /\ \A e \in Entry : entry'[e].client # caller'[p].client
        BY <3>0, <3>5, <4>4 DEF Hands
      <4>8. \A p \in Goroutine : caller'[p].at \in {"open", "install", "settle_failed"} =>
              entry'[current'].client = Nil
        BY <3>0, <3>5, <4>2, <4>6 DEF Hands
      <4>9. (current' # Nil /\ entry'[current'].state = "Ready")
               \/ (\E p \in Goroutine : caller'[p].at = "settle_ok") =>
              entry'[current'].client # Nil /\ client'[entry'[current'].client] = "open"
        BY <3>0, <3>5, <4>2, <4>3, <4>5, <4>6 DEF Hands
      <4>. QED
        BY <4>7, <4>8, <4>9 DEF Hands
    <3>4. AllOwned'
      BY <3>0, <3>5, EntriesAreNumbers DEF AllOwned, Has, PlainOK, EntryOK, Apart
    <3>. QED
      BY <3>1, <3>2, <3>3, <3>4
  <2>15. ASSUME AddServer PROVE Flight' /\ Apart' /\ Hands' /\ AllOwned'
    <3>0. ~crossed /\ Flight /\ Apart /\ Hands /\ AllOwned
      BY <2>15 DEF AddServer, PoolInv
    <3>5. /\ client' = client /\ caller' = caller
          /\ \A d \in Entry : entry'[d].client = entry[d].client
          /\ \/ current' = current /\ entry' = entry
             \/ /\ current = Nil /\ current' # Nil /\ entry'[current'].state = "Idle"
                /\ \A q \in Goroutine : ~Uses(q)
      BY <2>15, <3>0, EntriesAreNumbers, FreshIsNext DEF AddServer, Create, EntryOK, PlainOK, Flight, HeldOK
    <3>1. Flight'
      BY <3>0, <3>5 DEF Flight
    <3>2. Apart'
      BY <2>15, <3>0, EntriesAreNumbers, FreshIsNext DEF AddServer, Apart, EntryOK, ClientOK, Hands, Flight, CallerOK, HeldOK, Create
    <3>3. Hands'
      BY <3>0, <3>5 DEF Hands
    <3>4. AllOwned'
      BY <2>15, <3>0, <3>1, EntriesAreNumbers, FreshIsNext DEF AddServer, AllOwned, Has, Hands, Apart, Flight, CallerOK, EntryOK, ClientOK, HeldOK, Create
    <3>. QED
      BY <3>1, <3>2, <3>3, <3>4
  <2>16. ASSUME UNCHANGED poolVars PROVE Flight' /\ Apart' /\ Hands' /\ AllOwned'
    BY <2>16 DEF poolVars, PoolInv, Flight, Apart, Hands, AllOwned, Has
  <2>. QED
    BY <2>1, <2>2, <2>3, <2>4, <2>5, <2>6, <2>7, <2>8, <2>9, <2>10, <2>11, <2>12, <2>13, <2>14, <2>15, <2>16, Zenon DEF PoolNext, PoolInv
<1>. QED
    BY <1>1, <1>2, PoolTypeCorrect, PTL DEF PoolSpec, PoolInv

\* One goroutine at a time connects, and no client is left behind, unless a
\* failed call or a removal crossed a reconnect.
THEOREM PoolIsSound == PoolSpec => []PoolSound
<1>1. PoolInv => SingleFlight
    BY DEF PoolInv, SingleFlight, Flight
<1>2. PoolInv => ConnectionOwned
    BY DEF PoolInv, ConnectionOwned, Quiet, AllOwned, Has, Hands
<1>. QED
    BY <1>1, <1>2, PoolInvariant, PTL DEF PoolSound

(***************************************************************************)
(* The pool of sidecars                                                    *)
(***************************************************************************)

\* The call c holds the mutex of sidecar s.
Receives(c, s) == call[c].pc = "recv" /\ call[c].sc = s

\* The mutex of a sidecar is held by one call.
OneReceiver ==
  \A c, d \in Caller : \A s \in Sidecar : Receives(c, s) /\ Receives(d, s) => c = d

\* Only broadcast heals, only the other calls pick, and the counters of their
\* loops stay below the size of the pool.
Places ==
  \A c \in Caller :
    /\ call[c].pc \in {"check", "heal", "again"} => c \in Creator
    /\ call[c].pc \in {"pick", "oldest"} => c \notin Creator
    /\ call[c].pc # "oldest" => call[c].i < N
    /\ call[c].pc \in {"ready", "pick", "oldest"} => call[c].attempt = 1

\* There is a time of the last failure.
Timed == \E b \in Nat : \A s \in Sidecar : side[s].lastFailure <= b

(***************************************************************************)
(* A strategy run is executed once                                         *)
(***************************************************************************)

\* The request of c has not been written.
Unsent(c) ==
  \/ call[c].pc \in {"ready", "pick", "oldest", "send"}
  \/ call[c].pc = "restart" /\ call[c].phase = "write"

\* The i-th request on the socket of s is c's.
Waits(c, s, i) == i \in DOMAIN wire[s].requests /\ wire[s].requests[i].by = c

\* A run that was executed is not on any socket, and it is on one only once.
SentOnce ==
  \A c \in Runner :
    /\ executed[c] <= 1
    /\ Unsent(c) => executed[c] = 0
    /\ \A s \in Sidecar, i \in Nat : Waits(c, s, i) => ~Unsent(c) /\ executed[c] = 0
    /\ \A s, t \in Sidecar, i, j \in Nat : Waits(c, s, i) /\ Waits(c, t, j) => s = t /\ i = j

(***************************************************************************)
(* A line on the socket answers the call that holds the mutex              *)
(***************************************************************************)

\* What the runner does with e will reach the connection that is open now.
Live(s, e) == e.epoch = side[s].epoch /\ side[s].conn = "open"

LiveRequest(s, i) == Live(s, wire[s].requests[i])
LiveDone(s)       == wire[s].done # <<>> /\ Live(s, wire[s].done[1])

\* No request is of a connection that is yet to be made.
Dated ==
  \A s \in Sidecar :
    /\ \A i \in DOMAIN wire[s].requests : wire[s].requests[i].epoch <= side[s].epoch
    /\ Len(wire[s].done) <= 1
    /\ wire[s].done # <<>> => wire[s].done[1].epoch <= side[s].epoch

\* Only the creation of a strategy is refused.
Refused ==
  \A s \in Sidecar :
    /\ wire[s].done # <<>> => wire[s].done[1].ok \/ wire[s].done[1].by \in Creator
    /\ \A i \in DOMAIN wire[s].replies : wire[s].replies[i].ok \/ wire[s].replies[i].by \in Creator

\* A line on the socket of s is of c: a request, one executed, or an answer.
Concerns(c, s) ==
  \/ \E i \in DOMAIN wire[s].requests : LiveRequest(s, i) /\ wire[s].requests[i].by = c
  \/ LiveDone(s) /\ wire[s].done[1].by = c
  \/ wire[s].replies # <<>> /\ wire[s].replies[1].by = c

\* There is one line at most, and it is the receiver's.
OneLine ==
  \A s \in Sidecar :
    /\ \A i \in DOMAIN wire[s].requests : LiveRequest(s, i) =>
         /\ ~LiveDone(s) /\ wire[s].replies = <<>>
         /\ \A j \in DOMAIN wire[s].requests : LiveRequest(s, j) => i = j
    /\ LiveDone(s) => wire[s].replies = <<>>
    /\ Len(wire[s].replies) <= 1
    /\ \A c \in Caller : Concerns(c, s) => Receives(c, s)

OwnAnswers == \A c \in Caller : call[c].answer \in {c, NoOne}

(***************************************************************************)
(* One broken connection                                                   *)
(***************************************************************************)

\* The sidecar s broke: its connection, or a call that met it.
Hit(s) ==
  \/ side[s].conn = "closed"
  \/ \E c \in Caller : call[c].sc = s /\ (call[c].pc = "restart" \/ call[c].attempt = 2)

Sturdy == managed = "gateway" /\ breaks <= 1 /\ refusals = 0 /\ ~late

\* One sidecar at most is hit, a call that is repeated finds it mended, and no
\* reader is told.
OneHit ==
  /\ \A s \in Sidecar : side[s].conn # "nil"
  /\ breaks = 0 => \A s \in Sidecar : ~Hit(s)
  /\ \A s, t \in Sidecar : Hit(s) /\ Hit(t) => s = t
  /\ \A c \in Caller : call[c].attempt = 2 => side[call[c].sc].conn = "open"
  /\ \A c \in Reader : call[c].pc = "done" => call[c].result = "ok"

SidecarInv ==
  /\ TypeOK /\ Timed /\ OneReceiver /\ Places /\ SentOnce /\ Dated /\ Refused
  /\ ~late => OneLine /\ OwnAnswers
  /\ Sturdy => OneHit

\* The sidecars are numbered from 0; round robin stays among them.
LEMMA Pool == /\ Sidecar \subseteq Nat /\ 0 \in Sidecar
              /\ \A s \in Sidecar : (s + 1) % N \in Sidecar
              /\ \A i \in 0..N : i < N <=> i \in Sidecar
  BY SidecarAssumption DEF Sidecar

\* What withRetry returned ends the call or leads broadcast on.
LEMMA ReturnFacts ==
  ASSUME NEW c \in Caller, NEW k \in CallState, k.i < N,
         NEW r \in {"ok", "error", "transport", "restarted"}
  PROVE  LET n == Return(c, k, r) IN
         /\ n \in CallState /\ n.i < N
         /\ n.sc = k.sc /\ n.answer = k.answer
         /\ n.pc \in {"done", "check", "again", "send"}
         /\ n.attempt \in {1, k.attempt}
         /\ c \notin Creator => n.pc = "done" /\ n.result = r /\ n.attempt = k.attempt
         /\ n.pc \in {"check", "again", "send"} => c \in Creator
         /\ r = "error" => n.pc = "done"
         /\ r = "ok" => n.pc \in {"done", "check"}
<1>1. k.i \in 0..N /\ k.i + 1 # N => k.i + 1 \in 0..N /\ k.i + 1 < N
  BY SidecarAssumption DEF CallState
<1>2. CASE c \notin Creator
  BY <1>2 DEF Return, CallState, Result
<1>3. CASE c \in Creator /\ r = "ok"
  BY <1>1, <1>3, SidecarAssumption DEF Return, NextSidecar, CallState, Result
<1>4. CASE c \in Creator /\ r # "ok"
  BY <1>4 DEF Return, CallState, Result
<1> QED BY <1>2, <1>3, <1>4

\* A line that was read ends the call or leads broadcast to the next sidecar.
LEMMA AnswerFacts ==
  ASSUME NEW c \in Caller, NEW m \in CallState, m.i < N, NEW a \in Caller,
         NEW r \in {"ok", "error"}
  PROVE  LET n == Return(c, [m EXCEPT !.answer = a], r) IN
         /\ n \in CallState /\ n.i < N
         /\ n.sc = m.sc /\ n.answer = a
         /\ n.pc \in {"done", "check"}
         /\ n.pc = "check" => c \in Creator
         /\ n.attempt \in {1, m.attempt}
         /\ c \notin Creator => n.pc = "done" /\ n.result = r
<1> DEFINE j == [m EXCEPT !.answer = a]
<1>1. j \in CallState /\ j.i = m.i /\ j.sc = m.sc /\ j.answer = a /\ j.attempt = m.attempt
  BY DEF CallState
<1> HIDE DEF j
<1>2. /\ Return(c, j, r) \in CallState /\ Return(c, j, r).i < N
      /\ Return(c, j, r).sc = j.sc /\ Return(c, j, r).answer = j.answer
      /\ Return(c, j, r).pc \in {"done", "check"}
      /\ Return(c, j, r).pc = "check" => c \in Creator
      /\ Return(c, j, r).attempt \in {1, j.attempt}
      /\ c \notin Creator => Return(c, j, r).pc = "done" /\ Return(c, j, r).result = r
  BY <1>1, ReturnFacts
<1> QED BY <1>1, <1>2 DEF j

\* A first transport error is followed by a restart, a second one ends fn.
LEMMA TransportFacts ==
  ASSUME NEW c \in Caller, call[c] \in CallState, call[c].i < N,
         NEW p \in {"write", "read"}
  PROVE  LET n == TransportError(c, p) IN
         /\ n \in CallState /\ n.i < N
         /\ n.sc = call[c].sc /\ n.answer = call[c].answer
         /\ n.pc \in {"done", "again", "restart"}
         /\ n.pc = "again" => c \in Creator
         /\ n.attempt \in {1, call[c].attempt}
         /\ n.pc = "restart" => n.phase = p
         /\ call[c].attempt = 1 => n.pc = "restart"
<1>1. CASE call[c].attempt = 1
  BY <1>1 DEF TransportError, CallState
<1>2. CASE call[c].attempt # 1
  <2>1. TransportError(c, p) = Return(c, call[c], "transport")
    BY <1>2 DEF TransportError
  <2>2. CASE c \in Creator
    BY <2>1, <2>2, <1>2, ZenonT(60) DEF Return, CallState, Result
  <2>3. CASE c \notin Creator
    BY <2>1, <2>3, <1>2, ZenonT(60) DEF Return, CallState, Result
  <2> QED BY <2>2, <2>3
<1> QED BY <1>1, <1>2

\* A set of numbers has a least one.
LEMMA LeastNumber ==
  ASSUME NEW T, T \subseteq Nat, T # {}
  PROVE  \E m \in T : \A y \in T : m <= y
<1> DEFINE Less == OpToRel(<, Nat)
<1>1. IsWellFoundedOn(Less, Nat)
  BY NatLessThanWellFounded
<1>2. \A y, x \in Nat : y < x => <<y, x>> \in Less
  BY DEF OpToRel
<1> HIDE DEF Less
<1>3. PICK m \in T : \A y \in T : ~ (<<y, m>> \in Less)
  BY <1>1, WFMin
<1>4. \A y \in T : ~ (y < m)
  BY <1>2, <1>3
<1>5. \A y \in T : m <= y
  BY <1>4
<1> QED BY <1>5

\* Of the last failures one is the latest, which is what Unhealthy chooses.
LEMMA LatestFailure ==
  ASSUME TypeOK, Timed
  PROVE  LET L == {side[x].lastFailure : x \in Sidecar}
             m == CHOOSE m \in L : \A x \in Sidecar : side[x].lastFailure <= m
         IN  m \in Nat /\ \A x \in Sidecar : side[x].lastFailure <= m
<1> DEFINE Bounds == {b \in Nat : \A s \in Sidecar : side[s].lastFailure <= b}
<1>1. \A s \in Sidecar : side[s].lastFailure \in Nat
  BY DEF TypeOK, SideState
<1>2. PICK m \in Bounds : \A b \in Bounds : m <= b
  <2>1. Bounds \subseteq Nat /\ Bounds # {}
    BY DEF Timed
  <2> HIDE DEF Bounds
  <2> QED BY <2>1, LeastNumber
<1>3. \E x \in Sidecar : side[x].lastFailure = m
  <2> SUFFICES ASSUME \A x \in Sidecar : side[x].lastFailure # m PROVE FALSE
    OBVIOUS
  <2>1. m \in Nat /\ \A x \in Sidecar : side[x].lastFailure < m
    BY <1>1, <1>2
  <2>2. m - 1 \in Nat /\ \A x \in Sidecar : side[x].lastFailure <= m - 1
    BY <1>1, <2>1, Pool
  <2> QED BY <1>2, <2>1, <2>2
<1> QED BY <1>1, <1>2, <1>3

\* What a transport error does to its sidecar.
LEMMA UnhealthyFacts ==
  ASSUME TypeOK, Timed, NEW s \in Sidecar, Unhealthy(s)
  PROVE  /\ side' \in [Sidecar -> SideState] /\ Timed'
         /\ \A t \in Sidecar : side'[t].conn = side[t].conn /\ side'[t].epoch = side[t].epoch
<1> DEFINE m == CHOOSE m \in {side[x].lastFailure : x \in Sidecar} :
                  \A x \in Sidecar : side[x].lastFailure <= m
<1>1. m \in Nat /\ \A x \in Sidecar : side[x].lastFailure <= m
  BY LatestFailure
<1>2. side' = [side EXCEPT ![s].healthy = FALSE, ![s].lastFailure = 1 + m]
  BY DEF Unhealthy
<1> HIDE DEF m
<1>3. side' \in [Sidecar -> SideState]
  BY <1>1, <1>2 DEF TypeOK, SideState
<1>4. \A t \in Sidecar : /\ side'[t].conn = side[t].conn /\ side'[t].epoch = side[t].epoch
                         /\ side'[t].lastFailure <= 1 + m
  BY <1>1, <1>2 DEF TypeOK, SideState
<1>5. Timed'
  BY <1>1, <1>4 DEF Timed
<1> QED BY <1>3, <1>4, <1>5

\* A line is added at the end, and taken from the front.
LEMMA Appended ==
  ASSUME NEW S, NEW q \in Seq(S), NEW e \in S, NEW n, n = Len(q) + 1
  PROVE  /\ Append(q, e) \in Seq(S) /\ Append(q, e) # <<>> /\ Append(q, e)[n] = e
         /\ DOMAIN Append(q, e) = 1..n /\ n \in Nat \ {0} /\ Len(Append(q, e)) = n
         /\ \A i \in 1..n : i # n => i \in DOMAIN q /\ Append(q, e)[i] = q[i]
<1>1. Len(q) \in Nat /\ n \in Nat \ {0} /\ DOMAIN q = 1..Len(q)
  OBVIOUS
<1>2. Append(q, e) \in Seq(S) /\ Len(Append(q, e)) = n
  OBVIOUS
<1>3. DOMAIN Append(q, e) = 1..n /\ Append(q, e)[n] = e
  BY <1>1, <1>2
<1>4. \A i \in 1..n : i # n => i \in DOMAIN q /\ Append(q, e)[i] = q[i]
  BY <1>1
<1>5. Append(q, e) # <<>>
  BY <1>1, <1>2
<1> QED BY <1>1, <1>2, <1>3, <1>4, <1>5

\* The first line is taken from the front; the others move up.
LEMMA Taken ==
  ASSUME NEW S, NEW q \in Seq(S), q # <<>>
  PROVE  /\ Head(q) = q[1] /\ 1 \in DOMAIN q /\ q[1] \in S /\ Len(q) \in Nat /\ Len(q) >= 1
         /\ Tail(q) \in Seq(S) /\ Len(Tail(q)) = Len(q) - 1
         /\ Len(q) <= 1 => Tail(q) = <<>> /\ Len(Tail(q)) <= 1
         /\ \A i \in Nat : i \in DOMAIN Tail(q) => i + 1 \in DOMAIN q /\ Tail(q)[i] = q[i + 1]
  OBVIOUS

\* The lines on a socket are requests and answers of callers.
LEMMA Lines ==
  ASSUME TypeOK, NEW s \in Sidecar
  PROVE  /\ wire[s].requests \in Seq(Request) /\ wire[s].done \in Seq(Done)
         /\ wire[s].replies \in Seq(Reply) /\ wire[s].up \in BOOLEAN
         /\ \A i \in DOMAIN wire[s].requests : /\ i \in Nat \ {0}
                                               /\ wire[s].requests[i].by \in Caller
                                               /\ wire[s].requests[i].epoch \in Nat
         /\ wire[s].done # <<>> => /\ wire[s].done[1].by \in Caller
                                   /\ wire[s].done[1].epoch \in Nat
                                   /\ wire[s].done[1].ok \in BOOLEAN
         /\ wire[s].replies # <<>> => wire[s].replies[1].by \in Caller
         /\ side[s].epoch \in Nat /\ side[s].conn \in Conn
<1>1. wire[s] \in WireState /\ side[s] \in SideState
  BY DEF TypeOK
<1>2. /\ wire[s].requests \in Seq(Request) /\ wire[s].done \in Seq(Done)
      /\ wire[s].replies \in Seq(Reply) /\ wire[s].up \in BOOLEAN
  BY <1>1 DEF WireState
<1>3. \A i \in DOMAIN wire[s].requests : i \in Nat \ {0} /\ wire[s].requests[i] \in Request
  BY <1>2
<1>4. /\ wire[s].done # <<>> => wire[s].done[1] \in Done
      /\ wire[s].replies # <<>> => wire[s].replies[1] \in Reply
  BY <1>2
<1> QED BY <1>1, <1>2, <1>3, <1>4 DEF Request, Done, Reply, SideState

\* With its mutex free there is no line of the open connection of a sidecar.
LEMMA FreeIsSilent ==
  ASSUME TypeOK, OneLine, NEW s \in Sidecar, \A d \in Caller : ~Receives(d, s)
  PROVE  /\ \A i \in DOMAIN wire[s].requests : ~LiveRequest(s, i)
         /\ ~LiveDone(s) /\ wire[s].replies = <<>>
<1>1. \A d \in Caller : ~Concerns(d, s)
  BY DEF OneLine
<1>2. \A i \in DOMAIN wire[s].requests : ~LiveRequest(s, i)
  BY <1>1, Lines DEF Concerns
<1>3. ~LiveDone(s)
  BY <1>1, Lines DEF Concerns, LiveDone
<1>4. wire[s].replies = <<>>
  BY <1>1, Lines DEF Concerns
<1> QED BY <1>2, <1>3, <1>4

\* As long as the lines of the open connection are the same and their callers
\* go on receiving, there is one line.
LEMMA SameLines ==
  ASSUME OneLine, NEW s \in Sidecar, wire'[s] = wire[s],
         side'[s].conn = side[s].conn, side'[s].epoch = side[s].epoch
  PROVE  /\ \A i \in DOMAIN wire'[s].requests : LiveRequest(s, i)' =>
              /\ ~LiveDone(s)' /\ wire'[s].replies = <<>>
              /\ \A j \in DOMAIN wire'[s].requests : LiveRequest(s, j)' => i = j
         /\ LiveDone(s)' => wire'[s].replies = <<>>
         /\ Len(wire'[s].replies) <= 1
         /\ \A c \in Caller : Concerns(c, s)' <=> Concerns(c, s)
<1>1. LiveDone(s)' <=> LiveDone(s)
  BY DEF LiveDone, Live
<1>2. \A i : LiveRequest(s, i)' <=> LiveRequest(s, i)
  BY DEF LiveRequest, Live
<1>3. \A c \in Caller : Concerns(c, s)' <=> Concerns(c, s)
  BY <1>1, <1>2 DEF Concerns
<1> QED BY <1>1, <1>2, <1>3 DEF OneLine

\* A step that concerns the sidecar s leaves one line on the sockets, if it
\* does so on that of s.
LEMMA OneLineAt ==
  ASSUME OneLine, NEW s \in Sidecar,
         \A t \in Sidecar : t # s => wire'[t] = wire[t] /\ side'[t] = side[t],
         \A t \in Sidecar, c \in Caller : t # s => (Receives(c, t)' <=> Receives(c, t)),
         \A i \in DOMAIN wire'[s].requests : LiveRequest(s, i)' =>
           /\ ~LiveDone(s)' /\ wire'[s].replies = <<>>
           /\ \A j \in DOMAIN wire'[s].requests : LiveRequest(s, j)' => i = j,
         LiveDone(s)' => wire'[s].replies = <<>>,
         Len(wire'[s].replies) <= 1,
         \A c \in Caller : Concerns(c, s)' => Receives(c, s)'
  PROVE  OneLine'
  BY SameLines DEF OneLine

\* A call that chooses a sidecar changes no connection and sends nothing.
LEMMA Chooses ==
  ASSUME SidecarInv, NEW c \in Caller, NEW k \in CallState,
         call' = [call EXCEPT ![c] = k], next' \in Sidecar,
         UNCHANGED <<side, wire, executed, strategy, breaks, refusals, late, managed>>,
         call[c].pc \in {"ready", "pick", "oldest", "check"},
         k.pc \in {"pick", "oldest", "check", "heal", "send"},
         k.attempt = 1, k.answer = call[c].answer,
         k.pc \in {"check", "heal"} => c \in Creator,
         k.pc \in {"pick", "oldest"} => c \notin Creator,
         k.pc # "oldest" => k.i < N
  PROVE  SidecarInv'
<1>1. \A d \in Caller : call'[d] = IF d = c THEN k ELSE call[d]
  BY DEF SidecarInv, TypeOK
<1>2. \A d \in Caller, s \in Sidecar : Receives(d, s)' <=> Receives(d, s)
  BY <1>1 DEF Receives
<1>3. TypeOK' /\ Timed'
  BY DEF SidecarInv, TypeOK, Timed
<1>4. OneReceiver'
  BY <1>2 DEF SidecarInv, OneReceiver
<1>5. Places'
  BY <1>1 DEF SidecarInv, Places
<1>6. SentOnce'
  BY <1>1, SidecarAssumption DEF SidecarInv, SentOnce, Places, Unsent, Waits, Caller
<1>7. Dated' /\ Refused'
  BY DEF SidecarInv, Dated, Refused
<1>8. ~late => OneLine' /\ OwnAnswers'
  <2> SUFFICES ASSUME OneLine, OwnAnswers PROVE OneLine' /\ OwnAnswers'
    BY DEF SidecarInv
  <2>1. OneLine'
    BY <1>2, SameLines DEF OneLine
  <2>2. OwnAnswers'
    BY <1>1 DEF OwnAnswers
  <2> QED BY <2>1, <2>2
<1>9. Sturdy => OneHit'
  <2> SUFFICES ASSUME OneHit PROVE OneHit'
    BY DEF SidecarInv
  <2>1. \A s \in Sidecar : Hit(s)' => Hit(s)
    BY <1>1 DEF Hit
  <2> QED BY <1>1, <2>1 DEF OneHit
<1> QED BY <1>3, <1>4, <1>5, <1>6, <1>7, <1>8, <1>9 DEF SidecarInv, Sturdy

\* A call starts: broadcast with the first sidecar, the others choose one.
LEMMA StartStep ==
  ASSUME SidecarInv, NEW c \in Caller, Start(c), UNCHANGED managed
  PROVE  SidecarInv'
<1>1. call[c] \in CallState /\ next \in Sidecar /\ call[c].i < N /\ call[c].attempt = 1
  BY DEF SidecarInv, TypeOK, Start, At, Places
<1>2. CASE c \in Creator
  <2>1. [call[c] EXCEPT !.pc = "check"] \in CallState
    BY <1>1 DEF CallState
  <2> QED BY <1>1, <1>2, <2>1, Chooses DEF Start, At, Become, CallState
<1>3. CASE c \notin Creator
  <2>1. [call[c] EXCEPT !.pc = "pick", !.sc = next] \in CallState
    BY <1>1 DEF CallState
  <2>2. (next + 1) % N \in Sidecar
    BY <1>1, Pool
  <2>3. /\ call' = [call EXCEPT ![c] = [call[c] EXCEPT !.pc = "pick", !.sc = next]]
        /\ next' \in Sidecar /\ call[c].pc = "ready"
    BY <1>3, <2>2 DEF Start, At, Become
  <2> QED BY <1>1, <1>3, <2>1, <2>3, Chooses DEF Start, CallState
<1> QED BY <1>2, <1>3

\* Round robin passes the sidecars that are unhealthy.
LEMMA PickStep ==
  ASSUME SidecarInv, NEW c \in Caller, Pick(c), UNCHANGED managed
  PROVE  SidecarInv'
<1>1. /\ call[c] \in CallState /\ next \in Sidecar /\ call[c].i < N /\ call[c].attempt = 1
      /\ call[c].pc = "pick" /\ c \notin Creator
  BY DEF SidecarInv, TypeOK, Pick, At, Places
<1>2. /\ 0 \in 0..N /\ 1 \in 0..N /\ 0 < N /\ call[c].i \in 0..N /\ call[c].i + 1 \in 0..N
      /\ call[c].i + 1 # N => call[c].i + 1 < N
  BY <1>1, SidecarAssumption DEF CallState
<1>3. CASE side[call[c].sc].healthy
  <2>1. [call[c] EXCEPT !.pc = "send", !.i = 0] \in CallState
    BY <1>1, <1>2 DEF CallState
  <2> QED BY <1>1, <1>2, <1>3, <2>1, Chooses DEF Pick, Become, CallState
<1>4. CASE ~side[call[c].sc].healthy /\ call[c].i + 1 = N
  <2>1. [call[c] EXCEPT !.pc = "oldest", !.i = 1, !.sc = 0] \in CallState
    BY <1>1, <1>2, Pool DEF CallState
  <2> QED BY <1>1, <1>2, <1>4, <2>1, Chooses, ZenonT(60) DEF Pick, Become, CallState
<1>5. CASE ~side[call[c].sc].healthy /\ call[c].i + 1 # N
  <2>1. [call[c] EXCEPT !.i = @ + 1, !.sc = (@ + 1) % N] \in CallState
    BY <1>1, <1>2, Pool DEF CallState
  <2> QED BY <1>1, <1>2, <1>5, <2>1, Chooses DEF Pick, Become, CallState
<1> QED BY <1>3, <1>4, <1>5

\* With no healthy sidecar the one that failed longest ago is taken.
LEMMA OldestStep ==
  ASSUME SidecarInv, NEW c \in Caller, Oldest(c), UNCHANGED managed
  PROVE  SidecarInv'
<1>1. /\ call[c] \in CallState /\ next \in Sidecar /\ call[c].attempt = 1
      /\ call[c].pc = "oldest" /\ c \notin Creator
  BY DEF SidecarInv, TypeOK, Oldest, At, Places
<1>2. CASE call[c].i = N
  <2>1. 0 \in 0..N /\ 0 < N
    BY SidecarAssumption
  <2>2. [call[c] EXCEPT !.pc = "send", !.i = 0] \in CallState
    BY <1>1, <2>1 DEF CallState
  <2> QED BY <1>1, <1>2, <2>1, <2>2, Chooses DEF Oldest, Become, CallState
<1>3. CASE call[c].i # N
  <2>1. call[c].i + 1 \in 0..N /\ call[c].i \in Sidecar
    BY <1>1, <1>3, SidecarAssumption DEF CallState, Sidecar
  <2>2. PICK s \in Sidecar : call' = [call EXCEPT ![c] = [call[c] EXCEPT !.i = @ + 1, !.sc = s]]
    BY <1>1, <1>3, <2>1 DEF Oldest, Become, CallState
  <2>3. [call[c] EXCEPT !.i = @ + 1, !.sc = s] \in CallState
    BY <1>1, <2>1 DEF CallState
  <2> QED BY <1>1, <1>3, <2>2, <2>3, Chooses DEF Oldest, CallState
<1> QED BY <1>2, <1>3

\* Broadcast heals an unhealthy sidecar before it writes to it.
LEMMA CheckStep ==
  ASSUME SidecarInv, NEW c \in Caller, Check(c), UNCHANGED managed
  PROVE  SidecarInv'
<1>1. /\ call[c] \in CallState /\ next \in Sidecar /\ call[c].i < N
      /\ call[c].pc = "check" /\ c \in Creator /\ call[c].i \in Sidecar
  BY Pool DEF SidecarInv, TypeOK, Check, At, Places, CallState
<1>2. PICK p \in {"send", "heal"} :
        call' = [call EXCEPT ![c] = [call[c] EXCEPT !.sc = call[c].i, !.attempt = 1, !.round = 1, !.pc = p]]
  BY DEF Check, Become
<1>3. [call[c] EXCEPT !.sc = call[c].i, !.attempt = 1, !.round = 1, !.pc = p] \in CallState
  BY <1>1 DEF CallState
<1> QED BY <1>1, <1>2, <1>3, Chooses DEF Check, CallState

\* A call that meets a broken connection was alone with it: no line of it will
\* come.  Only a first break is met by a call that has not been repeated.
LEMMA MeetsBreak ==
  ASSUME SidecarInv, NEW c \in Caller, NEW s \in Sidecar, s = call[c].sc,
         NEW p \in {"write", "read"}, call[c].pc = IF p = "write" THEN "send" ELSE "recv",
         side[s].conn = "closed", p = "read" => wire[s].replies = <<>>,
         Unhealthy(s), call' = [call EXCEPT ![c] = TransportError(c, p)],
         UNCHANGED <<wire, executed, strategy, next, breaks, refusals, late, managed>>
  PROVE  SidecarInv'
<1>1. call[c] \in CallState /\ call[c].i < N
  BY DEF SidecarInv, TypeOK, Places
<1>2. PICK k : k = TransportError(c, p)
  OBVIOUS
<1>3. /\ k \in CallState /\ k.i < N /\ k.sc = s /\ k.answer = call[c].answer
      /\ k.pc \in {"done", "again", "restart"} /\ k.attempt \in {1, call[c].attempt}
      /\ k.pc = "again" => c \in Creator
      /\ k.pc = "restart" => k.phase = p
      /\ call[c].attempt = 1 => k.pc = "restart"
  BY <1>1, <1>2, TransportFacts
<1>4. \A d \in Caller : call'[d] = IF d = c THEN k ELSE call[d]
  BY <1>2 DEF SidecarInv, TypeOK
<1>5. /\ side' \in [Sidecar -> SideState] /\ Timed'
      /\ \A t \in Sidecar : side'[t].conn = side[t].conn /\ side'[t].epoch = side[t].epoch
  BY UnhealthyFacts DEF SidecarInv
<1>6. \A d \in Caller, t \in Sidecar : Receives(d, t)' <=> Receives(d, t) /\ d # c
  BY <1>3, <1>4 DEF Receives
<1>7. TypeOK'
  BY <1>2, <1>3, <1>5 DEF SidecarInv, TypeOK
<1>8. OneReceiver' /\ Places'
  BY <1>3, <1>4, <1>6 DEF SidecarInv, OneReceiver, Places
<1>9. SentOnce'
  <2>1. \A d \in Caller : Unsent(d)' => Unsent(d)
    BY <1>3, <1>4 DEF Unsent
  <2> QED BY <2>1 DEF SidecarInv, SentOnce, Waits, Caller
<1>10. Dated' /\ Refused'
  BY <1>5 DEF SidecarInv, Dated, Refused
<1>11. ~late => OneLine' /\ OwnAnswers'
  <2> SUFFICES ASSUME OneLine, OwnAnswers PROVE OneLine' /\ OwnAnswers'
    BY DEF SidecarInv
  <2>1. \A t \in Sidecar : Concerns(c, t) => ~Receives(c, t)
    BY DEF Concerns, Receives, LiveRequest, LiveDone, Live
  <2>3. OneLine'
    BY <1>5, <1>6, <2>1, SameLines DEF OneLine
  <2>4. OwnAnswers'
    BY <1>3, <1>4 DEF OwnAnswers
  <2> QED BY <2>3, <2>4
<1>12. Sturdy => OneHit'
  <2> SUFFICES ASSUME OneHit PROVE OneHit'
    BY DEF SidecarInv
  <2>1. call[c].attempt = 1 /\ k.pc = "restart" /\ k.attempt = 1
    BY <1>1, <1>3 DEF OneHit, CallState
  <2>2. \A t \in Sidecar : Hit(t)' => Hit(t)
    BY <1>3, <1>4, <1>5, <2>1 DEF Hit
  <2>3. \A d \in Caller : call'[d].attempt = 2 => side'[call'[d].sc].conn = "open"
    BY <1>4, <1>5, <2>1 DEF OneHit, SidecarInv, TypeOK, CallState
  <2> QED BY <1>4, <1>5, <2>1, <2>2, <2>3 DEF OneHit
<1> QED BY <1>5, <1>7, <1>8, <1>9, <1>10, <1>11, <1>12 DEF SidecarInv, Sturdy

\* A request goes to a sidecar whose mutex is free, and nothing of the open
\* connection is left over: what is there would be somebody's who holds it.
LEMMA SendStep ==
  ASSUME SidecarInv, NEW c \in Caller, Send(c), UNCHANGED managed
  PROVE  SidecarInv'
<1>1. PICK s \in Sidecar :
      /\ s = call[c].sc /\ call[c] \in CallState /\ call[c].i < N /\ call[c].pc = "send"
      /\ \A d \in Caller : ~Receives(d, s)
      /\ \A t \in Sidecar : wire[t] \in WireState /\ side[t] \in SideState
  BY DEF SidecarInv, TypeOK, Send, Write, At, Places, CallState, Locked, Receives
<1>2. CASE side[s].conn = "open"
  <2> DEFINE q == [by |-> c, epoch |-> side[s].epoch]
             n == Len(wire[s].requests) + 1
  <2>1. /\ call' = [call EXCEPT ![c] = [call[c] EXCEPT !.pc = "recv"]]
        /\ wire' = [wire EXCEPT ![s].requests = Append(@, q)]
        /\ UNCHANGED <<side, executed, strategy, next, breaks, refusals, late>>
    BY <1>1, <1>2 DEF Send, Write, Become
  <2>2. \A d \in Caller : call'[d] = IF d = c THEN [call[c] EXCEPT !.pc = "recv"] ELSE call[d]
    BY <2>1 DEF SidecarInv, TypeOK
  <2>3. n \in Nat \ {0} /\ q \in Request
    BY <1>1 DEF WireState, SideState, Request
  <2>4. /\ DOMAIN wire'[s].requests = 1..n /\ wire'[s].requests[n] = q
        /\ \A i \in 1..n : i # n => i \in DOMAIN wire[s].requests /\ wire'[s].requests[i] = wire[s].requests[i]
        /\ wire'[s].done = wire[s].done /\ wire'[s].replies = wire[s].replies
        /\ \A t \in Sidecar : t # s => wire'[t] = wire[t]
        /\ wire'[s] \in WireState
    <3>1. wire[s].requests \in Seq(Request)
      BY <1>1 DEF WireState
    <3>2. wire'[s] = [wire[s] EXCEPT !.requests = Append(wire[s].requests, q)]
      BY <1>1, <2>1 DEF SidecarInv, TypeOK
    <3>3. /\ wire'[s] \in WireState /\ wire'[s].requests = Append(wire[s].requests, q)
          /\ wire'[s].done = wire[s].done /\ wire'[s].replies = wire[s].replies
      <4>1. Append(wire[s].requests, q) \in Seq(Request)
        BY <2>3, <3>1
      <4> QED BY <1>1, <3>2, <4>1 DEF WireState
    <3>4. \A t \in Sidecar : t # s => wire'[t] = wire[t]
      BY <2>1 DEF SidecarInv, TypeOK
    <3> QED BY <2>3, <3>1, <3>3, <3>4, Appended
  <2> HIDE DEF q, n
  <2>5. \A t \in Sidecar, i \in Nat : t # s \/ i # n =>
          /\ i \in DOMAIN wire'[t].requests => i \in DOMAIN wire[t].requests
          /\ i \in DOMAIN wire'[t].requests => wire'[t].requests[i] = wire[t].requests[i]
    BY <1>1, <2>3, <2>4
  <2>6. q.by = c /\ q.epoch = side[s].epoch
    BY DEF q
  <2>7. [call[c] EXCEPT !.pc = "recv"] \in CallState
    BY <1>1 DEF CallState
  <2>8. TypeOK' /\ Timed'
    BY <1>1, <2>1, <2>4, <2>7 DEF SidecarInv, TypeOK, Timed
  <2>9. \A d \in Caller, t \in Sidecar : Receives(d, t)' <=> Receives(d, t) \/ (d = c /\ t = s)
    BY <1>1, <2>2 DEF Receives, CallState
  <2>10. OneReceiver'
    BY <1>1, <2>9 DEF SidecarInv, OneReceiver
  <2>11. Places'
    BY <1>1, <2>2 DEF SidecarInv, Places, CallState
  <2>12. SentOnce'
    <3>1. \A d \in Caller : Unsent(d)' => Unsent(d) /\ d # c
      BY <1>1, <2>2 DEF Unsent, CallState
    <3>2. \A d \in Caller, t \in Sidecar, i \in Nat :
            Waits(d, t, i)' => Waits(d, t, i) \/ (d = c /\ t = s /\ i = n)
      BY <1>1, <2>4, <2>5, <2>6 DEF Waits
    <3>3. Unsent(c)
      BY <1>1 DEF Unsent
    <3>4. \A d \in Runner : d \in Caller
      BY DEF Caller
    <3> QED BY <2>1, <3>1, <3>2, <3>3, <3>4 DEF SidecarInv, SentOnce
  <2>13. Dated' /\ Refused'
    <3>1. \A t \in Sidecar : side'[t] = side[t] /\ wire'[t].done = wire[t].done /\ wire'[t].replies = wire[t].replies
      BY <1>1, <2>1, <2>4
    <3>2. \A t \in Sidecar : \A i \in DOMAIN wire'[t].requests : wire'[t].requests[i].epoch <= side[t].epoch
      <4>1. \A i \in 1..n : wire'[s].requests[i].epoch <= side[s].epoch
        BY <1>1, <2>4, <2>6, Lines DEF SidecarInv, Dated
      <4> QED BY <2>4, <4>1 DEF SidecarInv, Dated
    <3> QED BY <3>1, <3>2 DEF SidecarInv, Dated, Refused
  <2>14. ~late => OneLine' /\ OwnAnswers'
    <3> SUFFICES ASSUME OneLine, OwnAnswers PROVE OneLine' /\ OwnAnswers'
      BY DEF SidecarInv
    <3>1. /\ \A i \in DOMAIN wire[s].requests : ~LiveRequest(s, i)
          /\ ~LiveDone(s) /\ wire[s].replies = <<>>
      BY <1>1, FreeIsSilent DEF SidecarInv
    <3>2. \A i \in DOMAIN wire'[s].requests : LiveRequest(s, i)' => i = n
      BY <2>1, <2>4, <3>1 DEF LiveRequest, Live
    <3>3. /\ wire'[s].requests[n].by = c /\ Receives(c, s)'
          /\ ~LiveDone(s)' /\ wire'[s].replies = <<>>
      BY <1>1, <2>1, <2>4, <2>6, <2>9, <3>1 DEF LiveDone, Live
    <3>4. \A d \in Caller : Concerns(d, s)' => Receives(d, s)'
      BY <2>4, <3>2, <3>3 DEF Concerns
    <3>5. \A t \in Sidecar : t # s =>
            /\ wire'[t] = wire[t] /\ side'[t] = side[t]
            /\ \A d \in Caller : Receives(d, t)' <=> Receives(d, t)
      BY <1>1, <2>1, <2>4, <2>9
    <3>6. Len(wire'[s].replies) <= 1
      BY <3>3
    <3>7. OneLine'
      BY <3>2, <3>3, <3>4, <3>5, <3>6, SameLines DEF OneLine
    <3>8. OwnAnswers'
      BY <1>1, <2>2 DEF OwnAnswers, CallState
    <3> QED BY <3>7, <3>8
  <2>15. Sturdy => OneHit'
    <3>1. \A t \in Sidecar : Hit(t)' => Hit(t)
      BY <1>1, <2>1, <2>2 DEF Hit, CallState
    <3> QED BY <1>1, <2>1, <2>2, <3>1 DEF SidecarInv, OneHit, CallState
  <2> QED BY <2>1, <2>8, <2>10, <2>11, <2>12, <2>13, <2>14, <2>15 DEF SidecarInv, Sturdy
<1>3. CASE side[s].conn = "closed"
  BY <1>1, <1>3, MeetsBreak DEF Send, Write, Become
<1>4. CASE side[s].conn = "nil"
  <2>1. /\ call' = [call EXCEPT ![c] = [call[c] EXCEPT !.pc = "panic"]]
        /\ UNCHANGED <<side, wire, executed, strategy, next, breaks, refusals, late>>
    BY <1>1, <1>4 DEF Send, Write, Become
  <2>2. \A d \in Caller : call'[d] = IF d = c THEN [call[c] EXCEPT !.pc = "panic"] ELSE call[d]
    BY <2>1 DEF SidecarInv, TypeOK
  <2>3. [call[c] EXCEPT !.pc = "panic"] \in CallState
    BY <1>1 DEF CallState
  <2>4. \A d \in Caller, t \in Sidecar : Receives(d, t)' <=> Receives(d, t)
    BY <1>1, <2>2 DEF Receives, CallState
  <2>5. TypeOK' /\ Timed' /\ Dated' /\ Refused' /\ OneReceiver'
    BY <2>1, <2>3, <2>4 DEF SidecarInv, TypeOK, Timed, Dated, Refused, OneReceiver
  <2>6. Places'
    BY <1>1, <2>2 DEF SidecarInv, Places, CallState
  <2>7. SentOnce'
    <3>1. \A d \in Caller : Unsent(d)' => Unsent(d)
      BY <1>1, <2>2 DEF Unsent, CallState
    <3> QED BY <2>1, <3>1 DEF SidecarInv, SentOnce, Waits, Caller
  <2>8. ~late => OneLine' /\ OwnAnswers'
    <3> SUFFICES ASSUME OneLine, OwnAnswers PROVE OneLine' /\ OwnAnswers'
      BY DEF SidecarInv
    <3>1. OneLine'
      BY <2>1, <2>4, SameLines DEF OneLine
    <3>2. OwnAnswers'
      BY <1>1, <2>2 DEF OwnAnswers, CallState
    <3> QED BY <3>1, <3>2
  <2>9. Sturdy => OneHit'
    BY <1>1, <1>4 DEF SidecarInv, OneHit
  <2> QED BY <2>1, <2>5, <2>6, <2>7, <2>8, <2>9 DEF SidecarInv, Sturdy
<1> QED BY <1>1, <1>2, <1>3, <1>4 DEF SideState, Conn

\* A receiver meets a connection that broke, which is a transport error.
LEMMA RecvEofStep ==
  ASSUME SidecarInv, NEW c \in Caller, RecvEof(c), UNCHANGED managed
  PROVE  SidecarInv'
<1>1. call[c].sc \in Sidecar
  BY DEF SidecarInv, TypeOK, CallState
<1> QED BY <1>1, MeetsBreak DEF RecvEof, At, Become

\* A call that gives up leaves its line behind; from then on nothing is said of
\* the lines.
LEMMA RecvTimeoutStep ==
  ASSUME SidecarInv, NEW c \in Caller, RecvTimeout(c), UNCHANGED managed
  PROVE  SidecarInv'
<1>1. call[c] \in CallState /\ call[c].i < N /\ call[c].pc = "recv"
  BY DEF SidecarInv, TypeOK, Places, RecvTimeout, At
<1>2. PICK k : k = Return(c, call[c], "error")
  OBVIOUS
<1>3. k \in CallState /\ k.i < N /\ k.pc = "done"
  BY <1>1, <1>2, ReturnFacts
<1>4. /\ \A d \in Caller : call'[d] = IF d = c THEN k ELSE call[d]
      /\ call' = [call EXCEPT ![c] = k]
  BY <1>2 DEF SidecarInv, TypeOK, RecvTimeout, Become
<1>5. TypeOK' /\ Timed' /\ Dated' /\ Refused'
  BY <1>3, <1>4 DEF SidecarInv, TypeOK, Timed, Dated, Refused, RecvTimeout
<1>6. OneReceiver' /\ Places'
  BY <1>3, <1>4 DEF SidecarInv, OneReceiver, Places, Receives
<1>7. SentOnce'
  <2>1. \A d \in Caller : Unsent(d)' => Unsent(d)
    BY <1>3, <1>4 DEF Unsent
  <2> QED BY <2>1 DEF SidecarInv, SentOnce, Waits, Caller, RecvTimeout
<1>8. late' = TRUE
  BY DEF RecvTimeout
<1> QED BY <1>5, <1>6, <1>7, <1>8 DEF SidecarInv, Sturdy

\* Who holds the mutex takes the one line that is there, which is its own.
LEMMA RecvStep ==
  ASSUME SidecarInv, NEW c \in Caller, Recv(c), UNCHANGED managed
  PROVE  SidecarInv'
<1>0. TypeOK /\ Refused
  BY DEF SidecarInv
<1>1. PICK s \in Sidecar :
      /\ s = call[c].sc /\ call[c] \in CallState /\ call[c].i < N /\ call[c].pc = "recv"
      /\ wire[s].replies # <<>> /\ wire[s].replies \in Seq(Reply) /\ wire[s] \in WireState
  BY DEF SidecarInv, TypeOK, Places, Recv, At, CallState, WireState
<1>2. PICK r \in Reply : r = wire[s].replies[1] /\ r = Head(wire[s].replies)
  BY <1>1, Taken
<1>3. PICK x \in {"ok", "error"} : x = IF r.ok THEN "ok" ELSE "error"
  OBVIOUS
<1>4. PICK k \in CallState :
      /\ k = Return(c, [call[c] EXCEPT !.answer = r.by], x)
      /\ k.i < N /\ k.sc = s /\ k.answer = r.by /\ k.pc \in {"done", "check"}
      /\ k.pc = "check" => c \in Creator
      /\ k.attempt \in {1, call[c].attempt}
      /\ c \notin Creator => k.pc = "done" /\ k.result = x
  <2>1. r.by \in Caller
    BY DEF Reply
  <2> QED BY <1>1, <2>1, AnswerFacts
<1>5. /\ \A d \in Caller : call'[d] = IF d = c THEN k ELSE call[d]
      /\ call' = [call EXCEPT ![c] = k]
      /\ wire' = [wire EXCEPT ![s].replies = Tail(@)]
      /\ UNCHANGED <<side, executed, strategy, next, breaks, refusals, late>>
  BY <1>1, <1>2, <1>3, <1>4 DEF SidecarInv, TypeOK, Recv, Become
<1>6. /\ wire'[s] = [wire[s] EXCEPT !.replies = Tail(wire[s].replies)]
      /\ \A t \in Sidecar : t # s => wire'[t] = wire[t]
  BY <1>1, <1>5 DEF SidecarInv, TypeOK
<1>7. /\ Tail(wire[s].replies) \in Seq(Reply) /\ wire'[s] \in WireState
      /\ wire'[s].replies = Tail(wire[s].replies)
      /\ \A t \in Sidecar : wire'[t].requests = wire[t].requests /\ wire'[t].done = wire[t].done
  <2>1. Tail(wire[s].replies) \in Seq(Reply)
    BY <1>1, Taken
  <2> QED BY <1>1, <1>6, <2>1 DEF WireState
<1>8. \A d \in Caller, t \in Sidecar : Receives(d, t)' <=> Receives(d, t) /\ d # c
  BY <1>4, <1>5 DEF Receives
<1>9. TypeOK' /\ Timed'
  BY <1>4, <1>5, <1>6, <1>7 DEF SidecarInv, TypeOK, Timed
<1>10. OneReceiver' /\ Places'
  BY <1>4, <1>5, <1>8 DEF SidecarInv, OneReceiver, Places
<1>11. SentOnce'
  <2>1. \A d \in Caller : Unsent(d)' => Unsent(d)
    BY <1>4, <1>5 DEF Unsent
  <2> QED BY <1>5, <1>7, <2>1 DEF SidecarInv, SentOnce, Waits, Caller
<1>12. Dated'
  BY <1>5, <1>7 DEF SidecarInv, Dated
<1>13. Refused'
  <2>1. \A i \in DOMAIN wire'[s].replies : i + 1 \in DOMAIN wire[s].replies /\ wire'[s].replies[i] = wire[s].replies[i + 1]
    BY <1>1, <1>6, <1>7, Taken
  <2>2. \A i \in DOMAIN wire'[s].replies : wire'[s].replies[i].ok \/ wire'[s].replies[i].by \in Creator
    BY <1>0, <2>1 DEF Refused
  <2>3. \A t \in Sidecar : t # s => wire'[t].replies = wire[t].replies
    BY <1>6
  <2> QED BY <1>0, <1>7, <2>2, <2>3 DEF Refused
<1>14. ~late => OneLine' /\ OwnAnswers'
  <2> SUFFICES ASSUME OneLine, OwnAnswers PROVE OneLine' /\ OwnAnswers'
    BY DEF SidecarInv
  <2>2. r.by = c
    BY <1>1, <1>2 DEF SidecarInv, OneLine, OneReceiver, Receives, Reply, Concerns
  <2>3. /\ \A i \in DOMAIN wire[s].requests : ~LiveRequest(s, i)
        /\ ~LiveDone(s) /\ wire'[s].replies = <<>> /\ Len(wire'[s].replies) <= 1
    <3>1. Len(wire[s].replies) <= 1
      BY DEF OneLine
    <3>2. Tail(wire[s].replies) = <<>> /\ Len(Tail(wire[s].replies)) <= 1
      BY <1>1, <3>1, Taken
    <3>3. wire'[s].replies = <<>> /\ Len(wire'[s].replies) <= 1
      BY <1>7, <3>2
    <3> QED BY <1>1, <3>3 DEF OneLine
  <2>4. OneLine'
    <3>1. /\ \A i \in DOMAIN wire'[s].requests : ~LiveRequest(s, i)'
          /\ ~LiveDone(s)'
      BY <1>5, <1>7, <2>3 DEF LiveRequest, LiveDone, Live
    <3>2. \A d \in Caller : ~Concerns(d, s)'
      BY <2>3, <3>1 DEF Concerns
    <3>3. \A t \in Sidecar : t # s =>
            /\ wire'[t] = wire[t] /\ side'[t] = side[t]
            /\ \A d \in Caller : Receives(d, t)' <=> Receives(d, t)
      BY <1>1, <1>5, <1>6, <1>8 DEF Receives
    <3> QED BY <2>3, <3>1, <3>2, <3>3, SameLines DEF OneLine
  <2>5. OwnAnswers'
    BY <1>4, <1>5, <2>2 DEF OwnAnswers
  <2> QED BY <2>4, <2>5
<1>15. Sturdy => OneHit'
  <2> SUFFICES ASSUME Sturdy, OneHit PROVE OneHit'
    BY DEF SidecarInv
  <2>1. c \in Reader => r.ok
    <3>1. r.by = c
      BY <1>1, <1>2 DEF SidecarInv, Sturdy, OneLine, OneReceiver, Receives, Reply, Concerns
    <3> QED BY <1>1, <1>2, <3>1, SidecarAssumption DEF SidecarInv, Refused
  <2>2. \A t \in Sidecar : Hit(t)' => Hit(t)
    BY <1>1, <1>4, <1>5 DEF Hit
  <2> QED BY <1>1, <1>3, <1>4, <1>5, <2>1, <2>2, SidecarAssumption DEF OneHit, CallState
<1> QED BY <1>5, <1>9, <1>10, <1>11, <1>12, <1>13, <1>14, <1>15 DEF SidecarInv, Sturdy

\* A restart gives the sidecar a new connection with no line on it; what the
\* runner still has is of an earlier one.  A failed restart leaves it without.
LEMMA RestartFacts ==
  ASSUME SidecarInv, NEW s \in Sidecar, Restarted(s) \/ RestartFailed(s)
  PROVE  /\ side' \in [Sidecar -> SideState] /\ wire' \in [Sidecar -> WireState]
         /\ refusals' \in 0..MaxRefusals /\ Timed'
         /\ \A t \in Sidecar : t # s => side'[t] = side[t] /\ wire'[t] = wire[t]
         /\ wire'[s].requests \in {wire[s].requests, <<>>}
         /\ wire'[s].done \in {wire[s].done, <<>>}
         /\ wire'[s].replies = <<>>
         /\ Restarted(s) => /\ side'[s].conn = "open" /\ refusals' = refusals
                            /\ side'[s].epoch = side[s].epoch + 1
         /\ RestartFailed(s) => /\ side'[s].conn = "nil" /\ side'[s].epoch = side[s].epoch
                                /\ managed = "gateway" => refusals' # 0
<1>1. /\ wire \in [Sidecar -> WireState] /\ side \in [Sidecar -> SideState]
      /\ refusals \in 0..MaxRefusals /\ managed \in Management
  BY SidecarAssumption DEF SidecarInv, TypeOK
<1>2. <<>> \in Seq(Request) /\ <<>> \in Seq(Reply) /\ <<>> \in Seq(Done)
  OBVIOUS
<1>3. Fresh \in WireState /\ [Fresh EXCEPT !.up = FALSE] \in WireState
  BY <1>2 DEF Fresh, WireState
<1>4. [wire[s] EXCEPT !.replies = <<>>] \in WireState
  BY <1>1, <1>2 DEF WireState
<1>5. wire' \in {[wire EXCEPT ![s].replies = <<>>], [wire EXCEPT ![s] = Fresh],
                 [wire EXCEPT ![s] = [Fresh EXCEPT !.up = FALSE]]}
  BY DEF Restarted, RestartFailed
<1>6. /\ wire'[s] \in {[wire[s] EXCEPT !.replies = <<>>], Fresh, [Fresh EXCEPT !.up = FALSE]}
      /\ \A t \in Sidecar : t # s => wire'[t] = wire[t]
      /\ wire' \in [Sidecar -> WireState]
  BY <1>1, <1>3, <1>4, <1>5
<1>7. /\ wire'[s].requests \in {wire[s].requests, <<>>}
      /\ wire'[s].done \in {wire[s].done, <<>>}
      /\ wire'[s].replies = <<>>
  BY <1>1, <1>6 DEF Fresh, WireState
<1>8. CASE Restarted(s)
  <2>1. side'[s] = [side[s] EXCEPT !.conn = "open", !.healthy = TRUE, !.epoch = @ + 1]
    BY <1>1, <1>8 DEF Restarted
  <2>2. /\ side'[s] \in SideState /\ side'[s].conn = "open" /\ side'[s].epoch = side[s].epoch + 1
        /\ side'[s].lastFailure = side[s].lastFailure
    <3>1. side[s] \in SideState /\ side[s].epoch + 1 \in Nat
      BY <1>1 DEF SideState
    <3> QED BY <2>1, <3>1 DEF SideState, Conn
  <2>3. \A t \in Sidecar : t # s => side'[t] = side[t]
    BY <1>1, <1>8 DEF Restarted
  <2>4. side' \in [Sidecar -> SideState] /\ refusals' = refusals
    BY <1>1, <1>8, <2>2, <2>3 DEF Restarted
  <2>5. Timed'
    BY <2>2, <2>3 DEF SidecarInv, Timed
  <2>6. ~RestartFailed(s)
    BY <1>1, <2>2 DEF RestartFailed, SideState
  <2> QED BY <1>1, <1>6, <1>7, <1>8, <2>2, <2>3, <2>4, <2>5, <2>6
<1>9. CASE RestartFailed(s)
  <2>1. side'[s] = [side[s] EXCEPT !.conn = "nil"]
    BY <1>1, <1>9 DEF RestartFailed
  <2>2. /\ side'[s] \in SideState /\ side'[s].conn = "nil" /\ side'[s].epoch = side[s].epoch
        /\ side'[s].lastFailure = side[s].lastFailure
    BY <1>1, <2>1 DEF SideState, Conn
  <2>3. \A t \in Sidecar : t # s => side'[t] = side[t]
    BY <1>1, <1>9 DEF RestartFailed
  <2>4. side' \in [Sidecar -> SideState]
    BY <1>1, <1>9, <2>2, <2>3 DEF RestartFailed
  <2>5. Timed'
    BY <2>2, <2>3 DEF SidecarInv, Timed
  <2>6. ~Restarted(s)
    BY <1>1, <2>2 DEF Restarted, SideState
  <2>7. refusals' \in 0..MaxRefusals /\ (managed = "gateway" => refusals' # 0)
    BY <1>1, <1>9, SidecarAssumption DEF RestartFailed
  <2> QED BY <1>1, <1>6, <1>7, <1>9, <2>2, <2>3, <2>4, <2>5, <2>6, <2>7
<1> QED BY <1>8, <1>9

\* Whoever restarts a sidecar holds its mutex, and goes on to repeat what was
\* never written or to another attempt.
LEMMA RestartsSidecar ==
  ASSUME SidecarInv, NEW c \in Caller, NEW k \in CallState, NEW s \in Sidecar, s = call[c].sc,
         \A d \in Caller : ~Receives(d, s), Restarted(s) \/ RestartFailed(s),
         call[c].pc \in {"restart", "heal", "again"},
         call' = [call EXCEPT ![c] = k], k.i < N, k.answer = call[c].answer,
         k.pc \in {"send", "done", "check", "again"},
         k.pc \in {"check", "again"} => c \in Creator,
         c \in Runner /\ k.pc = "send" => Unsent(c),
         Restarted(s) => /\ k.sc = s
                         /\ c \in Reader => k.pc = "send"
                         /\ k.attempt = 2 => call[c].pc = "restart" \/ call[c].attempt = 2,
         UNCHANGED <<executed, strategy, next, breaks, late, managed>>
  PROVE  SidecarInv'
<1>0. TypeOK
  BY DEF SidecarInv
<1>1. \A d \in Caller : call'[d] = IF d = c THEN k ELSE call[d]
  BY DEF SidecarInv, TypeOK
<1>2. /\ side' \in [Sidecar -> SideState] /\ wire' \in [Sidecar -> WireState]
      /\ refusals' \in 0..MaxRefusals /\ Timed'
      /\ \A t \in Sidecar : t # s => side'[t] = side[t] /\ wire'[t] = wire[t]
      /\ wire'[s].requests \in {wire[s].requests, <<>>}
      /\ wire'[s].done \in {wire[s].done, <<>>}
      /\ wire'[s].replies = <<>>
  BY RestartFacts
<1>3. /\ Restarted(s) => /\ side'[s].conn = "open" /\ refusals' = refusals
                         /\ side'[s].epoch = side[s].epoch + 1
      /\ RestartFailed(s) => /\ side'[s].conn = "nil" /\ side'[s].epoch = side[s].epoch
                             /\ managed = "gateway" => refusals' # 0
  BY RestartFacts
<1>4. \A d \in Caller, t \in Sidecar : Receives(d, t)' <=> Receives(d, t)
  BY <1>1 DEF Receives
<1>5. TypeOK'
  BY <1>2 DEF SidecarInv, TypeOK
<1>6. OneReceiver' /\ Places'
  BY <1>1, <1>4 DEF SidecarInv, OneReceiver, Places
<1>7. SentOnce'
  <2>1. \A d \in Runner : Unsent(d)' => Unsent(d)
    BY <1>1, SidecarAssumption DEF Unsent, Caller
  <2>2. \A d \in Caller, t \in Sidecar, i \in Nat : Waits(d, t, i)' => Waits(d, t, i)
    BY <1>2 DEF Waits
  <2> QED BY <2>1, <2>2 DEF SidecarInv, SentOnce, Caller
<1>8. /\ \A i \in DOMAIN wire'[s].requests : /\ i \in DOMAIN wire[s].requests
                                             /\ wire'[s].requests[i] = wire[s].requests[i]
      /\ wire'[s].done # <<>> => wire'[s].done = wire[s].done
      /\ wire'[s].replies = <<>> /\ DOMAIN wire'[s].replies = {} /\ Len(wire'[s].replies) <= 1
  BY <1>2
<1>9. Dated'
  <2>1. side[s].epoch \in Nat /\ side'[s].epoch \in {side[s].epoch, side[s].epoch + 1}
    BY <1>0, <1>3, Lines
  <2>2. \A i \in DOMAIN wire'[s].requests : wire'[s].requests[i].epoch <= side'[s].epoch
    <3>1. \A i \in DOMAIN wire[s].requests : wire[s].requests[i].epoch \in Nat
                                             /\ wire[s].requests[i].epoch <= side[s].epoch
      BY <1>0, Lines DEF SidecarInv, Dated
    <3> QED BY <1>8, <2>1, <3>1
  <2>3. wire'[s].done # <<>> => wire'[s].done[1].epoch <= side'[s].epoch
    <3>1. wire[s].done # <<>> => wire[s].done[1].epoch \in Nat /\ wire[s].done[1].epoch <= side[s].epoch
      BY <1>0, Lines DEF SidecarInv, Dated
    <3> QED BY <1>8, <2>1, <3>1
  <2>4. Len(wire'[s].done) <= 1
    BY <1>2 DEF SidecarInv, Dated
  <2> QED BY <1>2, <2>2, <2>3, <2>4 DEF SidecarInv, Dated
<1>10. Refused'
  BY <1>2, <1>8 DEF SidecarInv, Refused
<1>11. ~late => OneLine' /\ OwnAnswers'
  <2> SUFFICES ASSUME OneLine, OwnAnswers PROVE OneLine' /\ OwnAnswers'
    BY DEF SidecarInv
  <2>0. /\ \A i \in DOMAIN wire[s].requests : wire[s].requests[i].epoch # side[s].epoch + 1
        /\ wire[s].done # <<>> => wire[s].done[1].epoch # side[s].epoch + 1
    <3>1. \A i \in DOMAIN wire[s].requests : wire[s].requests[i].epoch \in Nat
                                             /\ wire[s].requests[i].epoch <= side[s].epoch
      BY <1>0, Lines DEF SidecarInv, Dated
    <3>2. wire[s].done # <<>> => wire[s].done[1].epoch \in Nat /\ wire[s].done[1].epoch <= side[s].epoch
      BY <1>0, Lines DEF SidecarInv, Dated
    <3>3. side[s].epoch \in Nat
      BY <1>0, Lines
    <3> QED BY <3>1, <3>2, <3>3
  <2>1. \A i \in DOMAIN wire'[s].requests : ~LiveRequest(s, i)'
    <3>1. CASE Restarted(s)
      BY <1>3, <1>8, <2>0, <3>1 DEF LiveRequest, Live
    <3>2. CASE RestartFailed(s)
      BY <1>3, <3>2 DEF LiveRequest, Live
    <3> QED BY <3>1, <3>2
  <2>2. ~LiveDone(s)'
    <3>1. CASE Restarted(s)
      BY <1>3, <1>8, <2>0, <3>1 DEF LiveDone, Live
    <3>2. CASE RestartFailed(s)
      BY <1>3, <3>2 DEF LiveDone, Live
    <3> QED BY <3>1, <3>2
  <2>3. \A d \in Caller : ~Concerns(d, s)'
    BY <1>8, <2>1, <2>2 DEF Concerns
  <2>4. OneLine'
    BY <1>2, <1>4, <1>8, <2>1, <2>2, <2>3, SameLines DEF OneLine
  <2>5. OwnAnswers'
    BY <1>1 DEF OwnAnswers
  <2> QED BY <2>4, <2>5
<1>12. Sturdy' => Sturdy /\ Restarted(s)
  BY <1>3 DEF Sturdy, SidecarInv, TypeOK
<1>13. Sturdy /\ Restarted(s) => OneHit'
  <2> SUFFICES ASSUME OneHit, Restarted(s) PROVE OneHit'
    BY DEF SidecarInv
  <2>1. \A t \in Sidecar : Hit(t)' => Hit(t)
    BY <1>1, <1>2, <1>3 DEF Hit
  <2>2. \A d \in Caller : call'[d].attempt = 2 => side'[call'[d].sc].conn = "open"
    <3>1. \A d \in Caller : call[d].sc \in Sidecar /\ (call[d].attempt = 2 => side[call[d].sc].conn = "open")
      BY <1>0 DEF OneHit, TypeOK, CallState
    <3> QED BY <1>1, <1>2, <1>3, <3>1
  <2>3. \A t \in Sidecar : side'[t].conn # "nil"
    BY <1>2, <1>3 DEF OneHit
  <2> QED BY <1>1, <2>1, <2>2, <2>3, SidecarAssumption DEF OneHit, Caller
<1> QED BY <1>2, <1>5, <1>6, <1>7, <1>9, <1>10, <1>11, <1>12, <1>13 DEF SidecarInv

\* restart of withRetry: what was broken is mended, or the call ends.
LEMMA RestartStep ==
  ASSUME SidecarInv, NEW c \in Caller, Restart(c), UNCHANGED managed
  PROVE  SidecarInv'
<1>1. PICK s \in Sidecar :
      /\ s = call[c].sc /\ call[c] \in CallState /\ call[c].i < N /\ call[c].pc = "restart"
      /\ \A d \in Caller : ~Receives(d, s)
  BY DEF SidecarInv, TypeOK, Restart, At, Places, CallState, Locked, Receives
<1>2. CASE Restarted(s) /\ RetryAllowed(c) /\ call' = [call EXCEPT ![c] = [call[c] EXCEPT !.pc = "send", !.attempt = 2]]
  <2>1. PICK k : k = [call[c] EXCEPT !.pc = "send", !.attempt = 2]
    OBVIOUS
  <2>2. k \in CallState /\ k.i = call[c].i /\ k.answer = call[c].answer /\ k.pc = "send" /\ k.sc = s
    BY <1>1, <2>1 DEF CallState
  <2>3. c \in Runner => Unsent(c)
    BY <1>1, <1>2, SidecarAssumption DEF RetryAllowed, Unsent
  <2>9. call' = [call EXCEPT ![c] = k] /\ UNCHANGED <<executed, strategy, next, breaks, late>>
    BY <1>1, <1>2, <2>1 DEF Restart
  <2> QED BY <1>1, <1>2, <2>2, <2>3, <2>9, RestartsSidecar
<1>3. CASE Restarted(s) /\ ~RetryAllowed(c) /\ call' = [call EXCEPT ![c] = Return(c, call[c], "restarted")]
  <2>1. PICK k : k = Return(c, call[c], "restarted")
    OBVIOUS
  <2>2. /\ k \in CallState /\ k.i < N /\ k.sc = s /\ k.answer = call[c].answer
        /\ k.pc \in {"done", "send"} /\ (k.pc = "send" => c \in Creator)
        /\ k.attempt \in {1, call[c].attempt}
    <3>1. /\ k \in CallState /\ k.i < N /\ k.sc = s /\ k.answer = call[c].answer
          /\ k.attempt \in {1, call[c].attempt} /\ (k.pc \in {"check", "again", "send"} => c \in Creator)
      BY <1>1, <2>1, ReturnFacts
    <3>2. k.pc \in {"done", "send"}
      BY <1>1, <2>1 DEF Return, CallState
    <3> QED BY <3>1, <3>2
  <2>3. c \notin Reader /\ (k.pc = "send" => c \notin Runner)
    BY <1>3, <2>2, SidecarAssumption DEF RetryAllowed
  <2>9. call' = [call EXCEPT ![c] = k] /\ UNCHANGED <<executed, strategy, next, breaks, late>>
    BY <1>1, <1>3, <2>1 DEF Restart
  <2> QED BY <1>1, <1>3, <2>2, <2>3, <2>9, RestartsSidecar
<1>4. CASE RestartFailed(s) /\ call' = [call EXCEPT ![c] = Return(c, call[c], "transport")]
  <2>1. PICK k : k = Return(c, call[c], "transport")
    OBVIOUS
  <2>2. /\ k \in CallState /\ k.i < N /\ k.answer = call[c].answer
        /\ k.pc \in {"done", "again"} /\ (k.pc = "again" => c \in Creator)
    <3>1. /\ k \in CallState /\ k.i < N /\ k.answer = call[c].answer
          /\ k.pc \in {"check", "again", "send"} => c \in Creator
      BY <1>1, <2>1, ReturnFacts
    <3>2. k.pc \in {"done", "again"}
      BY <1>1, <2>1 DEF Return, CallState
    <3> QED BY <3>1, <3>2
  <2>3. ~Restarted(s)
    BY <1>4, RestartFacts
  <2>9. call' = [call EXCEPT ![c] = k] /\ UNCHANGED <<executed, strategy, next, breaks, late>>
    BY <1>1, <1>4, <2>1 DEF Restart
  <2> QED BY <1>1, <1>4, <2>2, <2>3, <2>9, RestartsSidecar
<1> QED BY <1>1, <1>2, <1>3, <1>4 DEF Restart, Become

\* Broadcast dials a sidecar before it writes to it, or ends.
LEMMA HealStep ==
  ASSUME SidecarInv, NEW c \in Caller, Heal(c), UNCHANGED managed
  PROVE  SidecarInv'
<1>1. PICK s \in Sidecar :
      /\ s = call[c].sc /\ call[c] \in CallState /\ call[c].i < N /\ call[c].pc = "heal"
      /\ \A d \in Caller : ~Receives(d, s)
      /\ c \in Creator /\ c \notin Reader /\ c \notin Runner
  BY SidecarAssumption DEF SidecarInv, TypeOK, Heal, At, Places, CallState, Locked, Receives
<1>2. CASE Restarted(s) /\ call' = [call EXCEPT ![c] = [call[c] EXCEPT !.pc = "send"]]
  <2>1. PICK k : k = [call[c] EXCEPT !.pc = "send"]
    OBVIOUS
  <2>2. k \in CallState /\ k.i = call[c].i /\ k.answer = call[c].answer /\ k.pc = "send" /\ k.sc = s
        /\ k.attempt = call[c].attempt
    BY <1>1, <2>1 DEF CallState
  <2>9. call' = [call EXCEPT ![c] = k] /\ UNCHANGED <<executed, strategy, next, breaks, late>>
    BY <1>1, <1>2, <2>1 DEF Heal
  <2>3. /\ k.i < N /\ k.pc \in {"send", "done", "check", "again"} /\ ~(k.pc \in {"check", "again"})
        /\ k.attempt = 2 => call[c].attempt = 2
    BY <1>1, <2>2
  <2> QED BY <1>1, <1>2, <2>2, <2>3, <2>9, RestartsSidecar
<1>3. CASE RestartFailed(s) /\ call' = [call EXCEPT ![c] = NextSidecar(call[c])]
  <2>1. PICK k : k = NextSidecar(call[c])
    OBVIOUS
  <2>2. /\ k \in CallState /\ k.i < N /\ k.answer = call[c].answer /\ k.pc \in {"done", "check"}
    <3>1. NextSidecar(call[c]) = Return(c, call[c], "ok")
      BY <1>1 DEF Return
    <3> QED BY <1>1, <2>1, <3>1, ReturnFacts
  <2>3. ~Restarted(s)
    BY <1>3, RestartFacts
  <2>9. call' = [call EXCEPT ![c] = k] /\ UNCHANGED <<executed, strategy, next, breaks, late>>
    BY <1>1, <1>3, <2>1 DEF Heal
  <2> QED BY <1>1, <1>3, <2>2, <2>3, <2>9, RestartsSidecar
<1> QED BY <1>1, <1>2, <1>3 DEF Heal, Become

\* Broadcast repeats the whole call after a second transport error.
LEMMA AgainStep ==
  ASSUME SidecarInv, NEW c \in Caller, Again(c), UNCHANGED managed
  PROVE  SidecarInv'
<1>1. PICK s \in Sidecar :
      /\ s = call[c].sc /\ call[c] \in CallState /\ call[c].i < N /\ call[c].pc = "again"
      /\ \A d \in Caller : ~Receives(d, s)
      /\ c \in Creator /\ c \notin Reader /\ c \notin Runner
  BY SidecarAssumption DEF SidecarInv, TypeOK, Again, At, Places, CallState, Locked, Receives
<1>2. CASE Restarted(s) /\ call' = [call EXCEPT ![c] = [call[c] EXCEPT !.pc = "send", !.attempt = 1, !.round = 2]]
  <2>1. PICK k : k = [call[c] EXCEPT !.pc = "send", !.attempt = 1, !.round = 2]
    OBVIOUS
  <2>2. k \in CallState /\ k.i = call[c].i /\ k.answer = call[c].answer /\ k.pc = "send" /\ k.sc = s
        /\ k.attempt = 1
    BY <1>1, <2>1 DEF CallState
  <2>9. call' = [call EXCEPT ![c] = k] /\ UNCHANGED <<executed, strategy, next, breaks, late>>
    BY <1>1, <1>2, <2>1 DEF Again
  <2>3. /\ k.i < N /\ k.pc \in {"send", "done", "check", "again"} /\ ~(k.pc \in {"check", "again"})
        /\ k.attempt = 2 => call[c].attempt = 2
    BY <1>1, <2>2
  <2> QED BY <1>1, <1>2, <2>2, <2>3, <2>9, RestartsSidecar
<1>3. CASE RestartFailed(s) /\ call' = [call EXCEPT ![c] = [call[c] EXCEPT !.pc = "done", !.result = "transport"]]
  <2>1. PICK k : k = [call[c] EXCEPT !.pc = "done", !.result = "transport"]
    OBVIOUS
  <2>2. k \in CallState /\ k.i = call[c].i /\ k.answer = call[c].answer /\ k.pc = "done"
    BY <1>1, <2>1 DEF CallState, Result
  <2>3. ~Restarted(s)
    BY <1>3, RestartFacts
  <2>9. call' = [call EXCEPT ![c] = k] /\ UNCHANGED <<executed, strategy, next, breaks, late>>
    BY <1>1, <1>3, <2>1 DEF Again
  <2> QED BY <1>1, <1>3, <2>2, <2>3, <2>9, RestartsSidecar
<1> QED BY <1>1, <1>2, <1>3 DEF Again, Become

\* A request is taken from the socket as it is executed.
LEMMA ProcessStep ==
  ASSUME SidecarInv, NEW s \in Sidecar, Process(s), UNCHANGED managed
  PROVE  SidecarInv'
<1>0. TypeOK /\ side' = side /\ call' = call
  BY DEF SidecarInv, Process
<1>1. /\ wire[s] \in WireState /\ wire[s].requests \in Seq(Request) /\ wire[s].requests # <<>>
      /\ wire[s].done = <<>>
  BY DEF SidecarInv, TypeOK, WireState, Process
<1>2. PICK r \in Request : r = wire[s].requests[1] /\ r = Head(wire[s].requests)
  BY <1>1, Taken
<1>3. PICK d \in Done : /\ d = [by |-> r.by, ok |-> ~(r.by \in Creator /\ strategy), epoch |-> r.epoch]
                        /\ d.by = r.by /\ d.epoch = r.epoch /\ (d.ok \/ d.by \in Creator)
  <2>1. PICK x \in BOOLEAN : x = ~(r.by \in Creator /\ strategy)
    OBVIOUS
  <2>2. r.by \in Caller /\ r.epoch \in Nat
    BY DEF Request
  <2>3. [by |-> r.by, ok |-> x, epoch |-> r.epoch] \in Done
    BY <2>2 DEF Done
  <2> QED BY <2>1, <2>3
<1>4. /\ executed' = [executed EXCEPT ![r.by] = @ + 1]
      /\ strategy' = (strategy \/ r.by \in Creator)
      /\ wire' = [wire EXCEPT ![s].requests = Tail(@), ![s].done = <<d>>]
      /\ UNCHANGED <<side, call, next, breaks, refusals, late>>
  BY <1>2, <1>3 DEF Process
<1>5. Tail(wire[s].requests) \in Seq(Request) /\ <<d>> \in Seq(Done)
  BY <1>1, Taken
<1>6. wire'[s] = [wire[s] EXCEPT !.requests = Tail(wire[s].requests), !.done = <<d>>]
  BY <1>0, <1>4 DEF TypeOK
<1>7. /\ wire'[s] \in WireState /\ wire'[s].requests = Tail(wire[s].requests)
      /\ wire'[s].done = <<d>> /\ wire'[s].replies = wire[s].replies
      /\ \A t \in Sidecar : t # s => wire'[t] = wire[t]
  <2>1. \A t \in Sidecar : t # s => wire'[t] = wire[t]
    BY <1>0, <1>4 DEF TypeOK
  <2> QED BY <1>1, <1>5, <1>6, <2>1 DEF WireState
<1>8. /\ \A i \in DOMAIN wire'[s].requests : /\ i \in Nat \ {0} /\ i + 1 \in DOMAIN wire[s].requests
                                             /\ wire'[s].requests[i] = wire[s].requests[i + 1]
      /\ wire'[s].done # <<>> /\ wire'[s].done[1] = d /\ Len(wire'[s].done) = 1
  <2>1. \A i \in DOMAIN wire'[s].requests : i \in Nat \ {0}
    BY <1>5, <1>7
  <2> QED BY <1>1, <1>7, <2>1, Taken
<1>9. /\ \A c \in Caller : executed'[c] = IF c = r.by THEN executed[c] + 1 ELSE executed[c]
      /\ executed' \in [Caller -> Nat] /\ strategy' \in BOOLEAN
  <2>1. r.by \in Caller
    BY DEF Request
  <2>2. executed \in [Caller -> Nat] /\ strategy \in BOOLEAN
    BY <1>0 DEF TypeOK
  <2> QED BY <1>4, <2>1, <2>2
<1>10. TypeOK' /\ Timed'
  BY <1>0, <1>4, <1>7, <1>9 DEF SidecarInv, TypeOK, Timed
<1>11. OneReceiver' /\ Places'
  BY <1>4 DEF SidecarInv, OneReceiver, Places, Receives
<1>12. SentOnce'
  <2>1. \A c \in Caller : Unsent(c)' <=> Unsent(c)
    BY <1>4 DEF Unsent
  <2>2. \A c \in Caller, t \in Sidecar, i \in Nat : Waits(c, t, i)' =>
          IF t = s THEN i # 0 /\ i + 1 \in Nat /\ Waits(c, s, i + 1) ELSE Waits(c, t, i)
    <3> SUFFICES ASSUME NEW c \in Caller, NEW t \in Sidecar, NEW i \in Nat, Waits(c, t, i)'
                 PROVE  IF t = s THEN i # 0 /\ i + 1 \in Nat /\ Waits(c, s, i + 1) ELSE Waits(c, t, i)
      OBVIOUS
    <3>1. CASE t = s
      BY <1>8, <3>1 DEF Waits
    <3>2. CASE t # s
      BY <1>7, <3>2 DEF Waits
    <3> QED BY <3>1, <3>2
  <2>3. Waits(r.by, s, 1) /\ 1 \in Nat
    BY <1>1, <1>2, Taken DEF Waits
  <2>4. \A c \in Runner, t \in Sidecar, i \in Nat : Waits(c, t, i)' => c # r.by
    <3> SUFFICES ASSUME NEW t \in Sidecar, NEW i \in Nat, Waits(r.by, t, i)', r.by \in Runner PROVE FALSE
      OBVIOUS
    <3>1. \A u, v \in Sidecar, x, y \in Nat : Waits(r.by, u, x) /\ Waits(r.by, v, y) => u = v /\ x = y
      BY DEF SidecarInv, SentOnce
    <3>2. IF t = s THEN i # 0 /\ i + 1 \in Nat /\ Waits(r.by, s, i + 1) ELSE Waits(r.by, t, i)
      BY <2>2 DEF Caller
    <3>3. CASE t = s
      <4>1. i + 1 = 1
        BY <2>3, <3>1, <3>2, <3>3
      <4> QED BY <3>2, <3>3, <4>1
    <3>4. CASE t # s
      BY <2>3, <3>1, <3>2, <3>4
    <3> QED BY <3>3, <3>4
  <2>5. r.by \in Runner => executed[r.by] = 0 /\ ~Unsent(r.by)
    BY <2>3 DEF SidecarInv, SentOnce
  <2>6. \A c \in Runner : /\ c \in Caller /\ executed'[c] <= 1
                          /\ Unsent(c)' => executed'[c] = 0
    BY <1>9, <2>1, <2>5 DEF SidecarInv, SentOnce, Caller
  <2>7. \A c \in Runner, t \in Sidecar, i \in Nat : Waits(c, t, i)' => ~Unsent(c)' /\ executed'[c] = 0
    BY <1>9, <2>1, <2>2, <2>4 DEF SidecarInv, SentOnce, Caller
  <2>8. \A c \in Runner, t, u \in Sidecar, i, j \in Nat : Waits(c, t, i)' /\ Waits(c, u, j)' => t = u /\ i = j
    BY <2>2 DEF SidecarInv, SentOnce, Caller
  <2> QED BY <2>6, <2>7, <2>8 DEF SentOnce
<1>13. Dated'
  <2>1. r.epoch <= side[s].epoch
    BY <1>1, <1>2, Taken DEF SidecarInv, Dated
  <2>2. \A i \in DOMAIN wire'[s].requests : wire'[s].requests[i].epoch <= side[s].epoch
    BY <1>8 DEF SidecarInv, Dated
  <2>3. wire'[s].done[1].epoch <= side[s].epoch /\ Len(wire'[s].done) <= 1
    BY <1>3, <1>8, <2>1
  <2> QED BY <1>0, <1>7, <2>2, <2>3 DEF SidecarInv, Dated
<1>14. Refused'
  BY <1>3, <1>7, <1>8 DEF SidecarInv, Refused
<1>15. ~late => OneLine'
  <2> SUFFICES ASSUME OneLine PROVE OneLine'
    BY DEF SidecarInv
  <2>1. LiveDone(s)' <=> LiveRequest(s, 1)
    BY <1>2, <1>3, <1>4, <1>8 DEF LiveDone, LiveRequest, Live
  <2>2. \A i \in DOMAIN wire'[s].requests : LiveRequest(s, i)' <=> LiveRequest(s, i + 1)
    BY <1>4, <1>8 DEF LiveRequest, Live
  <2>3. 1 \in DOMAIN wire[s].requests
    BY <1>1, Taken
  <2>4. \A i \in DOMAIN wire'[s].requests : LiveRequest(s, i)' =>
          /\ ~LiveDone(s)' /\ wire'[s].replies = <<>>
          /\ \A j \in DOMAIN wire'[s].requests : LiveRequest(s, j)' => i = j
    BY <1>7, <1>8, <2>1, <2>2, <2>3 DEF OneLine
  <2>5. LiveDone(s)' => wire'[s].replies = <<>>
    BY <1>7, <2>1, <2>3 DEF OneLine
  <2>6. \A c \in Caller : Concerns(c, s)' => Concerns(c, s)
    BY <1>2, <1>3, <1>7, <1>8, <2>1, <2>2, <2>3 DEF Concerns
  <2>7. \A c \in Caller, t \in Sidecar : Receives(c, t)' <=> Receives(c, t)
    BY <1>4 DEF Receives
  <2>8. Len(wire'[s].replies) <= 1
    BY <1>7 DEF OneLine
  <2> QED BY <1>0, <1>7, <2>4, <2>5, <2>6, <2>7, <2>8, OneLineAt DEF OneLine
<1>16. (~late => OwnAnswers') /\ (Sturdy => OneHit')
  BY <1>4 DEF SidecarInv, OwnAnswers, OneHit, Hit
<1> QED BY <1>4, <1>10, <1>11, <1>12, <1>13, <1>14, <1>15, <1>16 DEF SidecarInv, Sturdy

\* An answer is written to the connection its request came from, or to none.
LEMMA AnswerStep ==
  ASSUME SidecarInv, NEW s \in Sidecar, Answer(s), UNCHANGED managed
  PROVE  SidecarInv'
<1>0. TypeOK /\ side' = side /\ call' = call /\ executed' = executed
  BY DEF SidecarInv, Answer
<1>1. /\ wire[s] \in WireState /\ wire[s].done \in Seq(Done) /\ wire[s].done # <<>>
      /\ wire[s].replies \in Seq(Reply)
  BY DEF SidecarInv, TypeOK, WireState, Answer
<1>2. PICK d \in Done : d = wire[s].done[1] /\ d = Head(wire[s].done)
  BY <1>1, Taken
<1>3. PICK r \in Reply : r = [by |-> d.by, ok |-> d.ok] /\ r.by = d.by /\ r.ok = d.ok
  <2>1. d.by \in Caller /\ d.ok \in BOOLEAN
    BY DEF Done
  <2>2. [by |-> d.by, ok |-> d.ok] \in Reply
    BY <2>1 DEF Reply
  <2> QED BY <2>2
<1>4. PICK q \in Seq(Reply) : /\ q = IF LiveDone(s) THEN Append(wire[s].replies, r) ELSE wire[s].replies
                              /\ wire'[s] = [wire[s] EXCEPT !.done = <<>>, !.replies = q]
                              /\ \A t \in Sidecar : t # s => wire'[t] = wire[t]
  <2>1. Append(wire[s].replies, r) \in Seq(Reply)
    BY <1>1
  <2> QED BY <1>0, <1>1, <1>2, <1>3, <2>1 DEF Answer, LiveDone, Live, TypeOK
<1>5. /\ wire'[s] \in WireState /\ wire'[s].requests = wire[s].requests
      /\ wire'[s].done = <<>> /\ wire'[s].replies = q
  <2>1. <<>> \in Seq(Done)
    OBVIOUS
  <2> QED BY <1>1, <1>4, <2>1 DEF WireState
<1>6. /\ TypeOK' /\ Timed' /\ OneReceiver' /\ Places' /\ (~late => OwnAnswers') /\ (Sturdy => OneHit')
      /\ UNCHANGED <<breaks, refusals, late>>
  <2>1. UNCHANGED <<side, call, executed, strategy, next, breaks, refusals, late, managed>>
    BY DEF Answer
  <2>2. wire' \in [Sidecar -> WireState]
    BY <1>0, <1>4, <1>5 DEF Answer, TypeOK
  <2>3. TypeOK' /\ Timed' /\ OneReceiver' /\ Places'
    BY <2>1, <2>2 DEF SidecarInv, TypeOK, Timed, OneReceiver, Places, Receives
  <2>4. (~late => OwnAnswers') /\ (Sturdy => OneHit')
    BY <2>1 DEF SidecarInv, OwnAnswers, OneHit, Hit
  <2> QED BY <2>1, <2>3, <2>4
<1>7. SentOnce'
  <2>1. \A c \in Caller, t \in Sidecar, i \in Nat : (Waits(c, t, i)' <=> Waits(c, t, i)) /\ (Unsent(c)' <=> Unsent(c))
    BY <1>0, <1>4, <1>5 DEF Waits, Unsent
  <2> QED BY <1>0, <2>1, Pool DEF SidecarInv, SentOnce, Caller
<1>8. Dated'
  <2>1. Len(wire'[s].done) <= 1
    BY <1>5
  <2> QED BY <1>0, <1>4, <1>5, <2>1 DEF SidecarInv, Dated
<1>9. Refused'
  <2>1. \A i \in DOMAIN q : q[i].ok \/ q[i].by \in Creator
    BY <1>1, <1>2, <1>3, <1>4 DEF SidecarInv, Refused
  <2> QED BY <1>4, <1>5, <2>1 DEF SidecarInv, Refused
<1>10. ~late => OneLine'
  <2> SUFFICES ASSUME OneLine PROVE OneLine'
    BY DEF SidecarInv
  <2>1. ~LiveDone(s)' /\ \A i \in DOMAIN wire[s].requests : LiveRequest(s, i)' <=> LiveRequest(s, i)
    BY <1>0, <1>5 DEF LiveDone, LiveRequest, Live
  <2>2. CASE LiveDone(s)
    <3>1. wire[s].replies = <<>> /\ \A i \in DOMAIN wire[s].requests : ~LiveRequest(s, i)
      BY <2>2 DEF OneLine
    <3>2. q = <<r>>
      BY <1>4, <2>2, <3>1
    <3>3. \A c \in Caller : Concerns(c, s)' => Concerns(c, s)
      BY <1>2, <1>3, <1>5, <2>1, <2>2, <3>1, <3>2 DEF Concerns
    <3>4. \A c \in Caller, t \in Sidecar : Receives(c, t)' <=> Receives(c, t)
      BY <1>0 DEF Receives
    <3>5. Len(wire'[s].replies) <= 1
      BY <1>5, <3>2
    <3>6. \A c \in Caller : Concerns(c, s)' => Receives(c, s)'
      BY <3>3, <3>4 DEF OneLine
    <3> QED BY <1>0, <1>4, <1>5, <2>1, <3>1, <3>4, <3>5, <3>6, OneLineAt
  <2>3. CASE ~LiveDone(s)
    <3>1. q = wire[s].replies
      BY <1>4, <2>3
    <3>2. \A c \in Caller : Concerns(c, s)' => Concerns(c, s)
      BY <1>5, <2>1, <2>3, <3>1 DEF Concerns
    <3>3. \A c \in Caller, t \in Sidecar : Receives(c, t)' <=> Receives(c, t)
      BY <1>0 DEF Receives
    <3>4. \A c \in Caller : Concerns(c, s)' => Receives(c, s)'
      BY <3>2, <3>3 DEF OneLine
    <3>5. \A i \in DOMAIN wire'[s].requests : LiveRequest(s, i)' =>
            /\ ~LiveDone(s)' /\ wire'[s].replies = <<>>
            /\ \A j \in DOMAIN wire'[s].requests : LiveRequest(s, j)' => i = j
      BY <1>5, <2>1, <3>1 DEF OneLine
    <3>6. Len(wire'[s].replies) <= 1
      BY <1>5, <3>1 DEF OneLine
    <3> QED BY <1>0, <1>4, <2>1, <3>3, <3>4, <3>5, <3>6, OneLineAt
  <2> QED BY <2>2, <2>3
<1> QED BY <1>6, <1>7, <1>8, <1>9, <1>10 DEF SidecarInv, Sturdy, Answer

\* A connection that breaks takes its requests with it, and the answer that was
\* under way.
LEMMA Broken ==
  ASSUME SidecarInv, NEW s \in Sidecar,
         breaks < MaxBreaks, breaks' = breaks + 1,
         side' \in [Sidecar -> SideState], wire' \in [Sidecar -> WireState],
         \A t \in Sidecar : t # s => side'[t] = side[t] /\ wire'[t] = wire[t],
         side'[s].conn = IF side[s].conn = "open" THEN "closed" ELSE side[s].conn,
         side'[s].epoch = side[s].epoch, side'[s].lastFailure = side[s].lastFailure,
         wire'[s].requests = <<>>, wire'[s].done = <<>>, wire'[s].replies = wire[s].replies,
         UNCHANGED <<call, executed, strategy, next, refusals, late, managed>>
  PROVE  SidecarInv'
<1>0. TypeOK /\ DOMAIN wire'[s].requests = {} /\ Len(wire'[s].done) <= 1
  BY DEF SidecarInv
<1>1. TypeOK'
  BY SidecarAssumption DEF SidecarInv, TypeOK
<1>2. Timed' /\ OneReceiver' /\ Places'
  BY DEF SidecarInv, Timed, OneReceiver, Places, Receives
<1>3. SentOnce'
  <2>1. \A c \in Caller, t \in Sidecar, i \in Nat : (Waits(c, t, i)' => Waits(c, t, i)) /\ (Unsent(c)' <=> Unsent(c))
    BY <1>0 DEF Waits, Unsent
  <2> QED BY <2>1 DEF SidecarInv, SentOnce, Caller
<1>4. Dated'
  BY <1>0 DEF SidecarInv, Dated
<1>5. Refused'
  BY DEF SidecarInv, Refused
<1>6. ~late => OneLine' /\ OwnAnswers'
  <2> SUFFICES ASSUME OneLine, OwnAnswers PROVE OneLine' /\ OwnAnswers'
    BY DEF SidecarInv
  <2>1. ~LiveDone(s)'
    BY DEF LiveDone
  <2>2. \A c \in Caller : Concerns(c, s)' => Concerns(c, s)
    BY <1>0, <2>1 DEF Concerns
  <2>3. \A c \in Caller, t \in Sidecar : Receives(c, t)' <=> Receives(c, t)
    BY DEF Receives
  <2>4. Len(wire'[s].replies) <= 1 /\ \A c \in Caller : Concerns(c, s)' => Receives(c, s)'
    BY <2>2, <2>3 DEF OneLine
  <2>5. OneLine'
    BY <1>0, <2>1, <2>3, <2>4, OneLineAt
  <2> QED BY <2>5 DEF OwnAnswers
<1>7. Sturdy' => OneHit'
  <2> SUFFICES ASSUME Sturdy' PROVE OneHit'
    OBVIOUS
  <2>1. breaks = 0 /\ breaks' = 1 /\ Sturdy
    BY <1>0 DEF Sturdy, TypeOK
  <2>2. OneHit /\ (\A t \in Sidecar : ~Hit(t)) /\ \A t \in Sidecar : side[t].conn = "open"
    BY <1>0, <2>1, Lines DEF SidecarInv, OneHit, Hit, Conn
  <2>3. \A c \in Caller : call[c].sc \in Sidecar /\ call[c].pc # "restart" /\ call[c].attempt = 1
    BY <1>0, <2>2 DEF TypeOK, CallState, Hit
  <2>4. \A t \in Sidecar : Hit(t)' => t = s
    BY <2>2, <2>3 DEF Hit
  <2>5. \A t \in Sidecar : side'[t].conn # "nil"
    BY <2>2
  <2> QED BY <2>1, <2>2, <2>3, <2>4, <2>5 DEF OneHit
<1> QED BY <1>1, <1>2, <1>3, <1>4, <1>5, <1>6, <1>7 DEF SidecarInv

\* A connection breaks: from then on the environment has used its one break.
LEMMA DisconnectStep ==
  ASSUME SidecarInv, NEW s \in Sidecar, Disconnect(s), UNCHANGED managed
  PROVE  SidecarInv'
<1>1. side[s] \in SideState /\ wire[s] \in WireState /\ TypeOK
  BY DEF SidecarInv, TypeOK
<1>2. /\ side'[s] = [side[s] EXCEPT !.conn = "closed"]
      /\ wire'[s] = [wire[s] EXCEPT !.requests = <<>>, !.done = <<>>]
      /\ \A t \in Sidecar : t # s => side'[t] = side[t] /\ wire'[t] = wire[t]
      /\ DOMAIN side' = Sidecar /\ DOMAIN wire' = Sidecar
  BY <1>1 DEF Disconnect, TypeOK
<1>3. /\ side'[s] \in SideState /\ side'[s].conn = "closed" /\ side'[s].epoch = side[s].epoch
      /\ side'[s].lastFailure = side[s].lastFailure
  BY <1>1, <1>2 DEF SideState, Conn
<1>4. /\ wire'[s] \in WireState /\ wire'[s].requests = <<>> /\ wire'[s].done = <<>>
      /\ wire'[s].replies = wire[s].replies
  <2>1. <<>> \in Seq(Request) /\ <<>> \in Seq(Done)
    OBVIOUS
  <2> QED BY <1>1, <1>2, <2>1 DEF WireState
<1>5. side' \in [Sidecar -> SideState] /\ wire' \in [Sidecar -> WireState]
  BY <1>1, <1>2, <1>3, <1>4 DEF Disconnect, TypeOK
<1>6. side[s].conn = "open"
  BY DEF Disconnect
<1> QED BY <1>2, <1>3, <1>4, <1>5, <1>6, Broken DEF Disconnect

\* A runner dies and with it what it had not answered.
LEMMA RunnerCrashStep ==
  ASSUME SidecarInv, NEW s \in Sidecar, RunnerCrash(s), UNCHANGED managed
  PROVE  SidecarInv'
<1>1. side[s] \in SideState /\ wire[s] \in WireState /\ TypeOK
  BY DEF SidecarInv, TypeOK
<1>2. /\ side'[s] = [side[s] EXCEPT !.conn = IF @ = "open" THEN "closed" ELSE @]
      /\ wire'[s] = [wire[s] EXCEPT !.up = FALSE, !.requests = <<>>, !.done = <<>>]
      /\ \A t \in Sidecar : t # s => side'[t] = side[t] /\ wire'[t] = wire[t]
  BY <1>1 DEF RunnerCrash, TypeOK
<1>3. /\ side'[s] \in SideState /\ side'[s].epoch = side[s].epoch
      /\ side'[s].conn = IF side[s].conn = "open" THEN "closed" ELSE side[s].conn
      /\ side'[s].lastFailure = side[s].lastFailure
  BY <1>1, <1>2 DEF SideState, Conn
<1>4. /\ wire'[s] \in WireState /\ wire'[s].requests = <<>> /\ wire'[s].done = <<>>
      /\ wire'[s].replies = wire[s].replies
  <2>1. <<>> \in Seq(Request) /\ <<>> \in Seq(Done)
    OBVIOUS
  <2> QED BY <1>1, <1>2, <2>1 DEF WireState
<1>5. side' \in [Sidecar -> SideState] /\ wire' \in [Sidecar -> WireState]
  BY <1>1, <1>2, <1>3, <1>4 DEF RunnerCrash, TypeOK
<1> QED BY <1>2, <1>3, <1>4, <1>5, Broken DEF RunnerCrash

\* A container that is back has no connection yet.
LEMMA RunnerReturnsStep ==
  ASSUME SidecarInv, NEW s \in Sidecar, RunnerReturns(s), UNCHANGED managed
  PROVE  SidecarInv'
<1>1. wire[s] \in WireState /\ TypeOK
  BY DEF SidecarInv, TypeOK
<1>2. /\ wire'[s] = [wire[s] EXCEPT !.up = TRUE]
      /\ \A t \in Sidecar : t # s => wire'[t] = wire[t]
      /\ UNCHANGED <<side, call, executed, strategy, next, breaks, refusals, late, managed>>
  BY <1>1 DEF RunnerReturns, TypeOK
<1>3. /\ wire'[s] \in WireState
      /\ \A t \in Sidecar : /\ wire'[t].requests = wire[t].requests /\ wire'[t].done = wire[t].done
                            /\ wire'[t].replies = wire[t].replies
  BY <1>1, <1>2 DEF WireState
<1>4. TypeOK' /\ Timed' /\ OneReceiver' /\ Places'
  <2>1. wire' \in [Sidecar -> WireState]
    BY <1>1, <1>2, <1>3 DEF RunnerReturns, TypeOK
  <2> QED BY <1>2, <2>1 DEF SidecarInv, TypeOK, Timed, OneReceiver, Places, Receives
<1>5. SentOnce' /\ Dated' /\ Refused'
  BY <1>2, <1>3 DEF SidecarInv, SentOnce, Waits, Unsent, Dated, Refused
<1>6. ~late => OneLine' /\ OwnAnswers'
  <2>1. \A s_1 \in Sidecar : /\ LiveDone(s_1)' <=> LiveDone(s_1)
                             /\ \A i : LiveRequest(s_1, i)' <=> LiveRequest(s_1, i)
    BY <1>2, <1>3 DEF LiveDone, LiveRequest, Live
  <2>2. \A c \in Caller, t \in Sidecar : (Concerns(c, t)' <=> Concerns(c, t)) /\ (Receives(c, t)' <=> Receives(c, t))
    BY <1>2, <1>3, <2>1 DEF Concerns, Receives
  <2> QED BY <1>2, <1>3, <2>1, <2>2 DEF SidecarInv, OneLine, OwnAnswers
<1>7. Sturdy => OneHit'
  BY <1>2 DEF SidecarInv, OneHit, Hit
<1> QED BY <1>2, <1>4, <1>5, <1>6, <1>7 DEF SidecarInv, Sturdy

\* Nobody called yet, and every connection is open.
LEMMA SidecarInit == Init => SidecarInv
<1> SUFFICES ASSUME Init PROVE SidecarInv
  OBVIOUS
<1>1. TypeOK
  <2>1. <<>> \in Seq(Request) /\ <<>> \in Seq(Reply) /\ <<>> \in Seq(Done)
    OBVIOUS
  <2>2. Fresh \in WireState
    BY <2>1 DEF Fresh, WireState
  <2>3. NewCall \in CallState
    BY Pool, SidecarAssumption DEF NewCall, CallState, Result
  <2>4. side \in [Sidecar -> SideState]
    BY DEF Init, SideState, Conn
  <2>5. breaks \in 0..MaxBreaks /\ refusals \in 0..MaxRefusals
    BY SidecarAssumption DEF Init
  <2> QED BY <2>2, <2>3, <2>4, <2>5, Pool DEF Init, TypeOK
<1>2. Timed
  BY DEF Init, Timed
<1>3. OneReceiver /\ Places
  BY SidecarAssumption DEF Init, OneReceiver, Places, Receives, NewCall
<1>4. \A s \in Sidecar : /\ wire[s].requests = <<>> /\ wire[s].done = <<>> /\ wire[s].replies = <<>>
                         /\ DOMAIN wire[s].requests = {} /\ DOMAIN wire[s].replies = {}
                         /\ Len(wire[s].done) <= 1 /\ Len(wire[s].replies) <= 1
  BY DEF Init, Fresh
<1>5. SentOnce
  BY <1>4 DEF Init, SentOnce, Waits, Unsent, NewCall, Caller
<1>6. Dated /\ Refused
  BY <1>4 DEF Dated, Refused
<1>7. OneLine /\ OwnAnswers
  BY <1>4 DEF Init, OneLine, OwnAnswers, NewCall, LiveDone, Concerns
<1>8. OneHit
  BY DEF Init, OneHit, Hit, NewCall, Caller
<1> QED BY <1>1, <1>2, <1>3, <1>5, <1>6, <1>7, <1>8 DEF SidecarInv

\* Every step of the callers and the runners keeps the invariant.
LEMMA SidecarNext == SidecarInv /\ [Next]_vars => SidecarInv'
<1> SUFFICES ASSUME SidecarInv, [Next]_vars PROVE SidecarInv'
  OBVIOUS
<1>1. CASE UNCHANGED vars
  BY <1>1
  DEF vars, work, SidecarInv, TypeOK, Timed, OneReceiver, Places, SentOnce, Dated, Refused, OneLine,
      OwnAnswers, OneHit, Receives, Waits, Unsent, Live, LiveRequest, LiveDone, Concerns, Hit, Sturdy
<1>2. CASE Next
  <2>1. UNCHANGED managed
    BY <1>2 DEF Next
  <2>2. CASE \E c \in Caller : CallerStep(c)
    BY <2>1, <2>2, StartStep, PickStep, OldestStep, CheckStep, SendStep, RecvStep, RecvEofStep,
       RecvTimeoutStep, RestartStep, HealStep, AgainStep DEF CallerStep
  <2>3. CASE \E s \in Sidecar : RunnerStep(s) \/ Disconnect(s) \/ RunnerCrash(s) \/ RunnerReturns(s)
    BY <2>1, <2>3, ProcessStep, AnswerStep, DisconnectStep, RunnerCrashStep, RunnerReturnsStep
    DEF RunnerStep
  <2> QED BY <1>2, <2>2, <2>3 DEF Next
<1> QED BY <1>1, <1>2

\* The invariant of the pool of sidecars holds in every state.
THEOREM SidecarInvariant == Spec => []SidecarInv
  BY SidecarInit, SidecarNext, PTL DEF Spec

\* A strategy run is executed at most once, a call that ends well got its own
\* answer, and one broken connection is not seen by the readers (sendRecv,
\* withRetry, Restart).
THEOREM SidecarsAreSound == Spec => []SidecarSound
<1>1. SidecarInv => RunAtMostOnce
  BY DEF SidecarInv, SentOnce, RunAtMostOnce
<1>2. SidecarInv => AnswerIsOwn
  BY DEF SidecarInv, OwnAnswers, AnswerIsOwn
<1>3. SidecarInv => OneBreakInvisible
  BY DEF SidecarInv, OneHit, Sturdy, OneBreakInvisible, At
<1> QED BY <1>1, <1>2, <1>3, SidecarInvariant, PTL DEF SidecarSound
=============================================================================
