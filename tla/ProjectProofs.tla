---------------------------- MODULE ProjectProofs ----------------------------
(***************************************************************************)
(* What commands leave of a directory and of a database they share, and    *)
(* what a restart leaves of a queue, whichever operation fails and         *)
(* wherever a process is killed.                                           *)
(*                                                                         *)
(* The catalog of a fetch: for any sets of servers, sources and filters    *)
(* and any number of commands, one after the other.                        *)
(*                                                                         *)
(* The SQLite database: for any number of processes, agents, columns of    *)
(* the events table, failing statements and deaths.                        *)
(*                                                                         *)
(* The mission queue in memory: for any number of agents, workers, kills   *)
(* and restarts, and any capacity of the channel.                          *)
(*                                                                         *)
(* The pages of a table: for any bindings, caps, numbers of arrivals and   *)
(* retries, and any number of failing calls and full disks.                *)
(*                                                                         *)
(* The files of a project: for any catalog, any servers the project has,   *)
(* and any number of commands, failing file operations and kills.          *)
(***************************************************************************)
EXTENDS CatalogFetch, SqliteStore, MemoryQueue, PagedFetch, ProjectFiles, FiniteSetTheorems, SequenceTheorems, TLAPS

Tree == [index : (SUBSET Entry) \cup {NoIndex}, dir : [Entry -> Owner]]
AtWork == {"prompt", "load", "resolve", "stage", "merge", "clear", "promote", "record"}
Command == [at : Ended \cup AtWork, source : Source, merge : BOOLEAN, accepts : SUBSET Entry,
            local : SUBSET Entry, loaded : BOOLEAN, before : Tree, promoting : BOOLEAN]

TreesOK == live \in Tree /\ staging \in Tree /\ fetch \in Command
           /\ memo \in Source \cup {Nobody}

\* Until it removed or moved something, a command has left the catalog alone.
Untouched ==
    /\ fetch.at \notin {"none", "done"} /\ ~fetch.promoting => live = fetch.before
    /\ fetch.at \in {"prompt", "load", "resolve", "stage", "merge"} => ~fetch.promoting

\* LoadLocal found what there was when the command began.
LoadedBefore ==
    fetch.at \in {"resolve", "stage", "merge"} =>
        fetch.loaded = Loads(fetch.before) /\ (fetch.loaded => fetch.local = fetch.before.index)

\* What .staging/ holds before the promotion.
StagedTrees ==
    /\ fetch.at = "merge" =>
         /\ fetch.merge /\ fetch.loaded
         /\ staging.index = Offers[fetch.source]
         /\ \A e \in Entry : staging.dir[e] = IF e \in IncludeRemote THEN fetch.source ELSE Nobody
    /\ fetch.at = "clear" => staging = Fetched

\* During the promotion each part of the new tree is in one place or the other.
Halfway ==
    /\ \/ live.index = NoIndex /\ staging.index = Fetched.index
       \/ live.index = Fetched.index /\ staging.index = NoIndex
    /\ \A e \in Entry :
         \/ live.dir[e] = Nobody /\ staging.dir[e] = Fetched.dir[e]
         \/ live.dir[e] = Fetched.dir[e] /\ staging.dir[e] = Nobody

Promoted ==
    /\ fetch.at = "promote" => Halfway
    /\ fetch.at \in {"record", "done"} => live = Fetched
    /\ fetch.at = "killed" /\ fetch.promoting =>
         \A e \in Entry : Fetched.dir[e] \in {live.dir[e], staging.dir[e]}

FetchInv == TreesOK /\ Untouched /\ LoadedBefore /\ StagedTrees /\ Promoted

\* The tree that is to be is a tree, with a catalog.yaml.
LEMMA FetchedIsTree ==
    ASSUME TreesOK
    PROVE  Fetched \in Tree /\ Fetched.index # NoIndex
<1>. DEFINE kept == IF fetch.merge /\ Loads(fetch.before) THEN fetch.before.index \ Offers[fetch.source] ELSE {}
<1>1. /\ fetch.source \in Source /\ Offers[fetch.source] \subseteq Entry
      /\ fetch.before \in Tree
    BY FetchAssumption DEF TreesOK, Command
<1>2. kept \subseteq Entry
    <2>1. Loads(fetch.before) => fetch.before.index \in SUBSET Entry
        BY <1>1 DEF Loads, Tree
    <2>. QED
        BY <2>1, Zenon
<1>3. NoIndex \notin SUBSET Entry
    BY FetchAssumption DEF NoIndex
<1>4. Offers[fetch.source] \cup kept \in SUBSET Entry
    BY <1>1, <1>2
<1>5. [e \in Entry |-> IF e \in IncludeRemote THEN fetch.source
                      ELSE IF e \in kept THEN fetch.before.dir[e] ELSE Nobody] \in [Entry -> Owner]
    BY <1>1 DEF Tree, Owner
<1>. HIDE DEF kept
<1>6. Fetched = [index |-> Offers[fetch.source] \cup kept,
                 dir |-> [e \in Entry |-> IF e \in IncludeRemote THEN fetch.source
                                         ELSE IF e \in kept THEN fetch.before.dir[e] ELSE Nobody]]
    BY DEF Fetched, kept
<1>. QED
    BY <1>3, <1>4, <1>5, <1>6 DEF Tree

\* What a command is to make of the catalog is fixed when it begins.
LEMMA FetchedKept ==
    ASSUME fetch'.source = fetch.source, fetch'.merge = fetch.merge,
           fetch'.accepts = fetch.accepts, fetch'.before = fetch.before
    PROVE  Fetched' = Fetched /\ IncludeRemote' = IncludeRemote
    BY DEF Fetched, IncludeRemote, Loads

\* A whole catalog loads: every server that is listed has its directory.
LEMMA FetchedLoads ==
    ASSUME TreesOK, fetch.accepts = Entry
    PROVE  Loads(Fetched)
<1>. SUFFICES ASSUME NEW e \in Fetched.index PROVE Fetched.dir[e] # Nobody
    BY FetchedIsTree DEF Loads
<1>1. /\ fetch.source \in Source /\ Offers[fetch.source] \subseteq Entry
      /\ fetch.before \in Tree /\ Nobody \notin Source
    BY FetchAssumption DEF TreesOK, Command
<1>2. CASE e \in Offers[fetch.source]
    BY <1>1, <1>2 DEF Fetched, IncludeRemote
<1>3. CASE e \notin Offers[fetch.source]
    <2>. DEFINE kept == IF fetch.merge /\ Loads(fetch.before) THEN fetch.before.index \ Offers[fetch.source] ELSE {}
    <2>1. Fetched = [index |-> Offers[fetch.source] \cup kept,
                     dir |-> [d \in Entry |-> IF d \in IncludeRemote THEN fetch.source
                                             ELSE IF d \in kept THEN fetch.before.dir[d] ELSE Nobody]]
        BY DEF Fetched
    <2>2. e \in kept
        <3>. HIDE DEF kept
        <3>. QED
            BY <1>3, <2>1
    <2>3. Loads(fetch.before) /\ e \in fetch.before.index
        BY <2>2
    <2>4. e \in Entry /\ fetch.before.dir[e] # Nobody
        BY <1>1, <2>3 DEF Loads, Tree
    <2>5. e \notin IncludeRemote
        BY <1>3 DEF IncludeRemote
    <2>. HIDE DEF kept
    <2>. QED
        BY <2>1, <2>2, <2>4, <2>5
<1>. QED
    BY <1>2, <1>3

\* Trees stay trees and a command keeps its arguments.
LEMMA FetchTypes ==
    ASSUME TreesOK, [FetchNext]_fetchVars
    PROVE  TreesOK'
<1>. USE DEF Do, To, SameTrees
<1>0. Empty \in Tree /\ \A t \in Tree : t.index # NoIndex => t.index \in SUBSET Entry
    BY DEF Empty, Tree, Owner
<1>1. ASSUME NEW s \in Source \cup {Nobody}, NEW b \in BOOLEAN, NEW a \in Filters,
             RunConfigMcpFetch(s, b, a)
      PROVE  TreesOK'
  <2>1. ResolveFetchSource(s) \in Source
    BY FetchAssumption DEF ResolveFetchSource, TreesOK
  <2>2. a \in SUBSET Entry
    BY FetchAssumption
  <2>3. fetch' \in Command
    <3>1. fetch' = [at |-> IF Loads(live) THEN "prompt" ELSE "load", source |-> ResolveFetchSource(s),
                    merge |-> b, accepts |-> a, local |-> {}, loaded |-> FALSE,
                    before |-> live, promoting |-> FALSE]
      BY <1>1 DEF RunConfigMcpFetch, NoFetch
    <3>2. (IF Loads(live) THEN "prompt" ELSE "load") \in Ended \cup AtWork
      BY DEF AtWork
    <3>. QED
      BY <2>1, <2>2, <3>1, <3>2 DEF Command, TreesOK
  <2>. QED
    BY <1>1, <2>3 DEF RunConfigMcpFetch, TreesOK
<1>2. ASSUME Confirm \/ Decline \/ AllRemoved \/ AllMoved \/ FetchKilled PROVE TreesOK'
    BY <1>2 DEF Confirm, Decline, AllRemoved, AllMoved, FetchKilled, TreesOK, Command, AtWork, Ended
<1>3. ASSUME LoadLocal PROVE TreesOK'
  <2>1. (IF Loads(live) THEN live.index ELSE {}) \in SUBSET Entry /\ Loads(live) \in BOOLEAN
    BY <1>0 DEF Loads, TreesOK
  <2>. QED
    BY <1>3, <2>1 DEF LoadLocal, TreesOK, Command, AtWork, Ended
<1>4. ASSUME ResolveCatalogSource PROVE TreesOK'
    BY <1>0, <1>4 DEF ResolveCatalogSource, TreesOK, Command, AtWork
<1>5. ASSUME CopyCatalogFS PROVE TreesOK'
  <2>1. fetch.source \in Source /\ Offers[fetch.source] \in SUBSET Entry
    BY FetchAssumption DEF TreesOK, Command
  <2>2. staging' \in Tree
    BY <1>5, <2>1 DEF CopyCatalogFS, Tree, Owner
  <2>. QED
    BY <1>5, <2>2 DEF CopyCatalogFS, TreesOK, Command, AtWork
<1>6. ASSUME StageLocalEntries PROVE TreesOK'
  <2>1. /\ fetch.source \in Source /\ Offers[fetch.source] \in SUBSET Entry
        /\ fetch.local \in SUBSET Entry
    BY FetchAssumption DEF TreesOK, Command
  <2>2. staging' \in Tree
    BY <1>6, <2>1 DEF StageLocalEntries, Tree, TreesOK
  <2>. QED
    BY <1>6, <2>2 DEF StageLocalEntries, TreesOK, Command, AtWork
<1>7. ASSUME RemoveExisting PROVE TreesOK'
  <2>1. live' \in Tree
    BY <1>7 DEF RemoveExisting, Tree, Owner, TreesOK
  <2>. QED
    BY <1>7, <2>1 DEF RemoveExisting, TreesOK, Command, AtWork
<1>8. ASSUME MoveStaged PROVE TreesOK'
  <2>1. live' \in Tree /\ staging' \in Tree
    BY <1>8 DEF MoveStaged, Tree, Owner, TreesOK
  <2>. QED
    BY <1>8, <2>1 DEF MoveStaged, TreesOK, Command, AtWork
<1>9. ASSUME WriteFractaSource \/ FetchFails PROVE TreesOK'
    BY <1>0, <1>9 DEF WriteFractaSource, FetchFails, TreesOK, Command, AtWork, Ended
<1>10. ASSUME UNCHANGED fetchVars PROVE TreesOK'
    BY <1>10 DEF fetchVars, TreesOK
<1>. QED
    BY <1>1, <1>2, <1>3, <1>4, <1>5, <1>6, <1>7, <1>8, <1>9, <1>10 DEF FetchNext

\* A step that goes on with the same command.
GoesOn ==
    /\ fetch'.source = fetch.source /\ fetch'.merge = fetch.merge
    /\ fetch'.accepts = fetch.accepts /\ fetch'.before = fetch.before

LEMMA FetchStep ==
    ASSUME FetchInv, [FetchNext]_fetchVars
    PROVE  FetchInv'
<1>. USE DEF Do, To, SameTrees
<1>0. TreesOK /\ TreesOK' /\ Untouched /\ LoadedBefore /\ StagedTrees /\ Promoted
    BY FetchTypes DEF FetchInv
<1>. SUFFICES Untouched' /\ LoadedBefore' /\ StagedTrees' /\ Promoted'
    BY <1>0 DEF FetchInv
<1>a. GoesOn => Fetched' = Fetched /\ IncludeRemote' = IncludeRemote
    BY FetchedKept DEF GoesOn
<1>1. ASSUME NEW s \in Source \cup {Nobody}, NEW b \in BOOLEAN, NEW a \in Filters,
             RunConfigMcpFetch(s, b, a)
      PROVE  Untouched' /\ LoadedBefore' /\ StagedTrees' /\ Promoted'
  <2>1. fetch'.at \in {"prompt", "load"} /\ fetch'.before = live' /\ ~fetch'.promoting
    BY <1>1 DEF RunConfigMcpFetch, NoFetch
  <2>. QED
    BY <2>1 DEF Untouched, LoadedBefore, StagedTrees, Promoted
<1>2. ASSUME Confirm \/ Decline PROVE Untouched' /\ LoadedBefore' /\ StagedTrees' /\ Promoted'
    BY <1>0, <1>2 DEF Confirm, Decline, Untouched, LoadedBefore, StagedTrees, Promoted, TreesOK, Command
<1>3. ASSUME LoadLocal PROVE Untouched' /\ LoadedBefore' /\ StagedTrees' /\ Promoted'
  <2>1. /\ GoesOn /\ fetch.at = "load" /\ fetch'.at \in {"resolve", "failed"}
        /\ fetch'.promoting = fetch.promoting /\ live' = live
        /\ fetch'.loaded = Loads(live) /\ (Loads(live) => fetch'.local = live.index)
    BY <1>0, <1>3 DEF LoadLocal, GoesOn, TreesOK, Command
  <2>2. live = fetch.before /\ ~fetch.promoting
    BY <1>0, <2>1 DEF Untouched
  <2>. QED
    BY <2>1, <2>2 DEF GoesOn, Untouched, LoadedBefore, StagedTrees, Promoted
<1>4. ASSUME ResolveCatalogSource PROVE Untouched' /\ LoadedBefore' /\ StagedTrees' /\ Promoted'
    BY <1>0, <1>4 DEF ResolveCatalogSource, Untouched, LoadedBefore, StagedTrees, Promoted, TreesOK, Command
<1>5. ASSUME CopyCatalogFS PROVE Untouched' /\ LoadedBefore' /\ StagedTrees' /\ Promoted'
  <2>1. /\ GoesOn /\ fetch.at = "stage" /\ live' = live
        /\ fetch'.at = IF fetch.merge /\ fetch.loaded THEN "merge" ELSE "clear"
        /\ fetch'.promoting = fetch.promoting /\ fetch'.loaded = fetch.loaded
        /\ fetch'.local = fetch.local
        /\ staging' = [index |-> Offers[fetch.source],
                       dir |-> [e \in Entry |-> IF e \in IncludeRemote THEN fetch.source ELSE Nobody]]
    BY <1>0, <1>5 DEF CopyCatalogFS, GoesOn, TreesOK, Command
  <2>2. Untouched' /\ LoadedBefore' /\ Promoted'
    BY <1>0, <2>1 DEF GoesOn, Untouched, LoadedBefore, Promoted
  <2>3. ~(fetch.merge /\ fetch.loaded) => Fetched = staging'
    BY <1>0, <2>1 DEF Fetched, LoadedBefore
  <2>4. StagedTrees'
    BY <1>a, <2>1, <2>3 DEF StagedTrees, GoesOn
  <2>. QED
    BY <2>2, <2>4
<1>6. ASSUME StageLocalEntries PROVE Untouched' /\ LoadedBefore' /\ StagedTrees' /\ Promoted'
  <2>1. /\ GoesOn /\ fetch.at = "merge" /\ live' = live /\ fetch'.at = "clear"
        /\ fetch'.promoting = fetch.promoting
        /\ staging' = [index |-> Offers[fetch.source] \cup fetch.local,
                       dir |-> [e \in Entry |-> IF e \in LocalOnly THEN live.dir[e] ELSE staging.dir[e]]]
    BY <1>0, <1>6 DEF StageLocalEntries, GoesOn, TreesOK, Command
  <2>2. Untouched' /\ LoadedBefore' /\ Promoted'
    BY <1>0, <2>1 DEF GoesOn, Untouched, LoadedBefore, Promoted
  <2>3. /\ live = fetch.before /\ fetch.merge /\ Loads(fetch.before) /\ fetch.local = fetch.before.index
        /\ \A e \in Entry : staging.dir[e] = IF e \in IncludeRemote THEN fetch.source ELSE Nobody
    BY <1>0, <2>1 DEF Untouched, LoadedBefore, StagedTrees
  <2>4. \A e \in Entry : (IF e \in LocalOnly THEN live.dir[e] ELSE staging.dir[e])
            = IF e \in IncludeRemote THEN fetch.source
              ELSE IF e \in fetch.before.index \ Offers[fetch.source] THEN fetch.before.dir[e] ELSE Nobody
    BY <2>3 DEF LocalOnly, IncludeRemote
  <2>5. Offers[fetch.source] \cup fetch.local
          = Offers[fetch.source] \cup (fetch.before.index \ Offers[fetch.source])
    BY <2>3
  <2>6. Fetched = [index |-> Offers[fetch.source] \cup (fetch.before.index \ Offers[fetch.source]),
                   dir |-> [e \in Entry |-> IF e \in IncludeRemote THEN fetch.source
                              ELSE IF e \in fetch.before.index \ Offers[fetch.source]
                                   THEN fetch.before.dir[e] ELSE Nobody]]
    BY <2>3 DEF Fetched
  <2>7. staging' = Fetched
    BY <2>1, <2>4, <2>5, <2>6
  <2>8. StagedTrees'
    BY <1>a, <2>1, <2>7 DEF StagedTrees
  <2>. QED
    BY <2>2, <2>8
<1>7. ASSUME RemoveExisting PROVE Untouched' /\ LoadedBefore' /\ StagedTrees' /\ Promoted'
  <2>1. GoesOn /\ fetch.at = "clear" /\ fetch'.at = "clear" /\ fetch'.promoting /\ staging' = staging
    BY <1>0, <1>7 DEF RemoveExisting, GoesOn, TreesOK, Command
  <2>. QED
    BY <1>0, <1>a, <2>1 DEF Untouched, LoadedBefore, StagedTrees, Promoted
<1>8. ASSUME AllRemoved PROVE Untouched' /\ LoadedBefore' /\ StagedTrees' /\ Promoted'
  <2>1. /\ GoesOn /\ fetch.at = "clear" /\ fetch'.at = "promote" /\ fetch'.promoting = fetch.promoting
        /\ staging' = staging /\ live' = live
    BY <1>0, <1>8 DEF AllRemoved, GoesOn, TreesOK, Command
  <2>2. staging = Fetched /\ live.index = NoIndex /\ \A e \in Entry : live.dir[e] = Nobody
    BY <1>0, <1>8, <2>1 DEF AllRemoved, HasEntries, StagedTrees
  <2>3. Halfway'
    BY <1>a, <2>1, <2>2 DEF Halfway
  <2>. QED
    BY <1>0, <2>1, <2>3 DEF GoesOn, Untouched, LoadedBefore, StagedTrees, Promoted
<1>9. ASSUME MoveStaged PROVE Untouched' /\ LoadedBefore' /\ StagedTrees' /\ Promoted'
  <2>1. GoesOn /\ fetch.at = "promote" /\ fetch'.at = "promote" /\ fetch'.promoting
    BY <1>0, <1>9 DEF MoveStaged, GoesOn, TreesOK, Command
  <2>2. Halfway
    BY <1>0, <2>1 DEF Promoted
  <2>3. Halfway'
    <3>1. CASE /\ staging.index # NoIndex
               /\ live' = [live EXCEPT !.index = staging.index]
               /\ staging' = [staging EXCEPT !.index = NoIndex]
      BY <1>0, <1>a, <2>1, <2>2, <3>1 DEF Halfway, TreesOK, Tree
    <3>2. ASSUME NEW e \in Entry, staging.dir[e] # Nobody,
                 live' = [live EXCEPT !.dir[e] = staging.dir[e]],
                 staging' = [staging EXCEPT !.dir[e] = Nobody]
          PROVE  Halfway'
      <4>1. /\ live'.index = live.index /\ staging'.index = staging.index
            /\ live'.dir[e] = staging.dir[e] /\ staging'.dir[e] = Nobody
            /\ \A d \in Entry : d # e => live'.dir[d] = live.dir[d] /\ staging'.dir[d] = staging.dir[d]
        BY <1>0, <3>2 DEF TreesOK, Tree
      <4>. QED
        BY <1>a, <2>1, <2>2, <3>2, <4>1 DEF Halfway
    <3>. QED
      BY <1>9, <3>1, <3>2 DEF MoveStaged
  <2>. QED
    BY <2>1, <2>3 DEF Untouched, LoadedBefore, StagedTrees, Promoted
<1>10. ASSUME AllMoved PROVE Untouched' /\ LoadedBefore' /\ StagedTrees' /\ Promoted'
  <2>1. /\ GoesOn /\ fetch.at = "promote" /\ fetch'.at = "record" /\ fetch'.promoting = fetch.promoting
        /\ live' = live
    BY <1>0, <1>10 DEF AllMoved, GoesOn, TreesOK, Command
  <2>2. Halfway /\ staging.index = NoIndex /\ \A e \in Entry : staging.dir[e] = Nobody
    BY <1>0, <1>10, <2>1 DEF AllMoved, HasEntries, Promoted
  <2>3. live.index = Fetched.index /\ \A e \in Entry : live.dir[e] = Fetched.dir[e]
    BY <1>0, <2>2, FetchedIsTree DEF Halfway
  <2>4. live = Fetched
    BY <1>0, <2>3, FetchedIsTree DEF TreesOK, Tree
  <2>. QED
    BY <1>0, <1>a, <2>1, <2>4 DEF GoesOn, Untouched, LoadedBefore, StagedTrees, Promoted
<1>11. ASSUME WriteFractaSource PROVE Untouched' /\ LoadedBefore' /\ StagedTrees' /\ Promoted'
  <2>1. GoesOn /\ fetch.at = "record" /\ fetch'.at = "done" /\ live' = live
    BY <1>0, <1>11 DEF WriteFractaSource, GoesOn, TreesOK, Command
  <2>. QED
    BY <1>0, <1>a, <2>1 DEF Untouched, LoadedBefore, StagedTrees, Promoted
<1>12. ASSUME FetchFails PROVE Untouched' /\ LoadedBefore' /\ StagedTrees' /\ Promoted'
  <2>1. /\ GoesOn /\ fetch.at \in AtWork /\ fetch'.at = "failed" /\ live' = live
        /\ fetch'.promoting = fetch.promoting
    BY <1>0, <1>12 DEF FetchFails, GoesOn, TreesOK, Command, AtWork
  <2>. QED
    BY <1>0, <2>1 DEF GoesOn, Untouched, LoadedBefore, StagedTrees, Promoted, AtWork
<1>13. ASSUME FetchKilled PROVE Untouched' /\ LoadedBefore' /\ StagedTrees' /\ Promoted'
  <2>1. /\ GoesOn /\ fetch.at \in AtWork /\ fetch'.at = "killed" /\ live' = live /\ staging' = staging
        /\ fetch'.promoting = fetch.promoting
    BY <1>0, <1>13 DEF FetchKilled, GoesOn, TreesOK, Command
  <2>2. fetch.promoting => fetch.at \in {"clear", "promote", "record"}
    BY <1>0, <2>1 DEF Untouched, AtWork
  <2>3. fetch.promoting => \A e \in Entry : Fetched.dir[e] \in {live.dir[e], staging.dir[e]}
    BY <1>0, <2>2 DEF StagedTrees, Promoted, Halfway
  <2>. QED
    BY <1>0, <1>a, <2>1, <2>3 DEF GoesOn, Untouched, LoadedBefore, StagedTrees, Promoted, AtWork
<1>14. ASSUME UNCHANGED fetchVars PROVE Untouched' /\ LoadedBefore' /\ StagedTrees' /\ Promoted'
  <2>1. GoesOn /\ live' = live /\ staging' = staging /\ fetch' = fetch
    BY <1>14 DEF fetchVars, GoesOn
  <2>. QED
    BY <1>0, <1>a, <2>1 DEF Untouched, LoadedBefore, StagedTrees, Promoted, Halfway
<1>. QED
    BY <1>1, <1>2, <1>3, <1>4, <1>5, <1>6, <1>7, <1>8, <1>9, <1>10, <1>11, <1>12, <1>13, <1>14
    DEF FetchNext

\* The tree of the source, a command's arguments and the places of the two
\* trees fit together at every step.
THEOREM FetchInvariant == FetchSpec => []FetchInv
<1>1. FetchInit => FetchInv
  <2>. SUFFICES ASSUME FetchInit PROVE FetchInv
    OBVIOUS
  <2>1. Empty \in Tree /\ NoFetch \in Command
    BY FetchAssumption DEF Empty, Tree, Owner, NoFetch, Command, Ended
  <2>2. live \in Tree
    <3>1. CASE live = Empty
      BY <2>1, <3>1
    <3>2. ASSUME NEW S \in SUBSET (Entry \ Offers[DefaultSource]),
                 live = [index |-> Offers[DefaultSource] \cup S,
                         dir |-> [e \in Entry |-> IF e \in Offers[DefaultSource] THEN DefaultSource
                                                 ELSE IF e \in S THEN Operator ELSE Nobody]]
          PROVE  live \in Tree
      <4>1. DefaultSource \in Source /\ Offers[DefaultSource] \cup S \in SUBSET Entry
        BY FetchAssumption
      <4>. QED
        BY <3>2, <4>1 DEF Tree, Owner
    <3>. QED
      BY <3>1, <3>2 DEF FetchInit
  <2>3. TreesOK
    BY <2>1, <2>2, FetchAssumption DEF FetchInit, TreesOK
  <2>4. fetch.at = "none"
    BY DEF FetchInit, NoFetch
  <2>. QED
    BY <2>3, <2>4 DEF FetchInv, Untouched, LoadedBefore, StagedTrees, Promoted
<1>. QED
    BY <1>1, FetchStep, PTL DEF FetchSpec

\* A fetch that succeeded made the catalog it was to make, one that failed or
\* was killed early left it alone, and one killed later left every part of the
\* new catalog in one of the two trees.
THEOREM FetchesKeepCatalog == FetchSpec => []FetchKeepsCatalog
<1>1. FetchInv => FetchKeepsCatalog
  <2>. SUFFICES ASSUME FetchInv PROVE FetchKeepsCatalog
    OBVIOUS
  <2>1. fetch.at = "done" => live = Fetched /\ (fetch.accepts = Entry => Loads(live))
    BY FetchedLoads DEF FetchInv, Promoted
  <2>. QED
    BY <2>1 DEF FetchInv, FetchKeepsCatalog, Untouched, Promoted
<1>. QED
    BY <1>1, FetchInvariant, PTL

-----------------------------------------------------------------------------

\* The columns every version has had since it lost the old ones.
Base == {"host_type", "resume_token", "workspace_path"}

\* A table is of one version, with the columns that were added to it; only an
\* up-to-date one has missions.
Orderly(d) ==
  LET c == d.agents.columns IN
    /\ c \cap {"id", "worktree_path", "session_id"} # {} => ~({"resume_token", "workspace_path"} \subseteq c)
    /\ c # {} => Base \subseteq c \/ NeedsMigration(c)
    /\ ~(Current \subseteq c) => \A t \in AgentName : d.agents.rows[t].mission = 0

\* What the agents table d holds is what is owed.
Kept(d, o, x) ==
  \A t \in AgentName :
    /\ d.agents.rows[t].status = o[t].status
    /\ ~x => d.agents.rows[t].mission = o[t].mission

\* A transaction of a process at r has made d of the database u.
Underway(r, d, u) ==
  /\ r.at = "copy" =>
       /\ d.old = u.agents /\ d.agents.columns = Current /\ d.events = u.events
  /\ r.at = "locked" => d = u
  /\ r.at = "cleared" => d.agents.columns = u.agents.columns /\ d.events = u.events
  /\ r.at \in {"locked", "cleared"} =>
       /\ Current \subseteq u.agents.columns
       /\ r.task \in AgentName
       /\ \A t \in AgentName \ {r.task} : r.view[t] = u.agents.rows[t]

\* What a process at r knows of the committed database d after m misreads.
Knows(r, d, m) ==
  /\ r.at \notin {"closed", "create"} => d.agents.columns # {}
  /\ r.at = "create" => r.i = 1 /\ r.seen = {}
  /\ r.at = "probe" => r.i \in 1 .. Len(Probed)
  /\ r.at \in {"aside", "copy"} => r.i = 1
  /\ r.at \in {"check", "add"} => r.i \in 1 .. Columns
  /\ m = 0 =>
     /\ r.at = "probe" =>
          \/ Base \subseteq d.agents.columns
          \/ r.seen = {Probed[j] : j \in 1 .. r.i - 1} \cap d.agents.columns
     /\ r.at \in {"check", "add"} =>
          Base \subseteq d.agents.columns /\ \A j \in 1 .. r.i - 1 : ~Missing(d, j)
     /\ r.at \in {"open", "locked", "cleared"} =>
          Base \subseteq d.agents.columns /\ \A j \in 1 .. Columns : ~Missing(d, j)

\* The lock is held within a transaction.
LockHeld == \A p \in Process : lock = p <=> process[p].at \in Writing

SqliteInv ==
  /\ SqliteTypeOK
  /\ LockHeld
  /\ lock \in Process => Underway(process[lock], db, undo)
  /\ Orderly(Committed)
  /\ Kept(Committed, owed, crossed)
  /\ \A p \in Process : Knows(process[p], Committed, misreads)

\* The lists of columns.
LEMMA Sizes ==
  /\ Len(Probed) = 4 /\ Len(Late) = 2 /\ Columns = 2 + EventColumns /\ Columns \in Nat
  /\ Probed[1] = "id" /\ Probed[2] = "worktree_path" /\ Probed[3] = "session_id" /\ Probed[4] = "resume_token"
  /\ Late[1] = "mission_id" /\ Late[2] = "objective_id"
  BY SqliteAssumption DEF Probed, Late, Columns

\* The database e is d with a schema brought further.
Later(d, e) ==
  \/ d.agents.columns = {}
  \/ Current \subseteq e.agents.columns /\ d.events \subseteq e.events
  \/ /\ d.agents.columns \subseteq e.agents.columns
     /\ e.agents.columns \ d.agents.columns \subseteq {"mission_id", "objective_id"}
     /\ d.events \subseteq e.events

\* Who reads a schema is not wrong when it is brought further.
LEMMA KnowsLater ==
  ASSUME NEW r \in Place, NEW d \in Database, NEW e \in Database, NEW m \in Nat,
         Knows(r, d, m), Later(d, e), e.agents.columns # {}
  PROVE  Knows(r, e, m)
<1>1. CASE d.agents.columns = {}
  BY <1>1 DEF Knows
<1>2. CASE d.agents.columns # {}
  <2>1. /\ Base \subseteq d.agents.columns => Base \subseteq e.agents.columns
        /\ d.events \subseteq e.events
    BY <1>2 DEF Later, Base, Current
  <2>2. \A j \in 1 .. Columns : Missing(e, j) => Missing(d, j)
    BY <1>2, <2>1, Sizes DEF Later, Missing, Current
  <2>3. m = 0 /\ r.at = "probe" =>
          \/ Base \subseteq e.agents.columns
          \/ r.seen = {Probed[j] : j \in 1 .. r.i - 1} \cap e.agents.columns
    <3>1. SUFFICES ASSUME m = 0, r.at = "probe", ~(Base \subseteq e.agents.columns)
                   PROVE  r.seen = {Probed[j] : j \in 1 .. r.i - 1} \cap e.agents.columns
      OBVIOUS
    <3>2. r.seen = {Probed[j] : j \in 1 .. r.i - 1} \cap d.agents.columns /\ r.i \in 1 .. 4
      BY <2>1, <3>1, Sizes DEF Knows
    <3>3. \A j \in 1 .. r.i - 1 : Probed[j] \notin {"mission_id", "objective_id"}
      BY <3>2, Sizes
    <3>4. /\ d.agents.columns \subseteq e.agents.columns
          /\ e.agents.columns \ d.agents.columns \subseteq {"mission_id", "objective_id"}
      BY <1>2, <3>1 DEF Later, Base, Current
    <3>. QED
      BY <3>2, <3>3, <3>4
  <2>4. r.at \in {"check", "add"} => r.i \in 1 .. Columns
    BY DEF Knows
  <2>5. m = 0 /\ r.at \in {"check", "add"} =>
          Base \subseteq e.agents.columns /\ \A j \in 1 .. r.i - 1 : ~Missing(e, j)
    BY <2>1, <2>2, <2>4, Sizes DEF Knows
  <2>6. m = 0 /\ r.at \in {"open", "locked", "cleared"} =>
          Base \subseteq e.agents.columns /\ \A j \in 1 .. Columns : ~Missing(e, j)
    BY <2>1, <2>2 DEF Knows
  <2>. QED
    BY <2>3, <2>4, <2>5, <2>6 DEF Knows
<1>. QED
  BY <1>1, <1>2

\* What is committed is a database.
LEMMA CommittedType ==
  ASSUME SqliteTypeOK
  PROVE  Committed \in Database
  BY DEF SqliteTypeOK, Committed

\* A step that leaves what is committed.
LEMMA Reader ==
  ASSUME SqliteInv, NEW p \in Process, SqliteTypeOK', LockHeld',
         lock' \in Process => Underway(process'[lock'], db', undo'),
         \A q \in Process \ {p} : process'[q] = process[q],
         Committed' = Committed, owed' = owed, crossed' = crossed,
         misreads' = misreads \/ misreads' # 0,
         Knows(process'[p], Committed, misreads')
  PROVE  SqliteInv'
<1>1. Orderly(Committed)'
  BY DEF SqliteInv, Orderly
<1>2. Kept(Committed, owed, crossed)'
  BY DEF SqliteInv, Kept
<1>3. \A q \in Process : Knows(process[q], Committed, misreads)'
  <2>1. SUFFICES ASSUME NEW q \in Process
                 PROVE  Knows(process'[q], Committed, misreads')
    BY DEF Knows
  <2>2. CASE q = p
    BY <2>2
  <2>3. CASE q # p
    <3>1. Knows(process[q], Committed, misreads) /\ process'[q] = process[q]
      BY <2>3 DEF SqliteInv
    <3>. QED
      BY <3>1 DEF Knows
  <2>. QED
    BY <2>2, <2>3
<1>4. lock' \in Process => Underway(process[lock], db, undo)'
  BY DEF Underway
<1>. QED
  BY <1>1, <1>2, <1>3, <1>4 DEF SqliteInv

\* A step that commits.
LEMMA Writer ==
  ASSUME SqliteInv, NEW p \in Process, SqliteTypeOK', LockHeld', lock' = NoWriter,
         \A q \in Process \ {p} : process'[q] = process[q],
         misreads' = misreads,
         Later(Committed, Committed'), Committed'.agents.columns # {},
         Orderly(Committed'), Kept(Committed', owed', crossed'),
         Knows(process'[p], Committed', misreads)
  PROVE  SqliteInv'
<1>1. Orderly(Committed)'
  BY DEF Orderly
<1>2. Kept(Committed, owed, crossed)'
  BY DEF Kept
<1>3. \A q \in Process : Knows(process[q], Committed, misreads)'
  <2>1. SUFFICES ASSUME NEW q \in Process
                 PROVE  Knows(process'[q], Committed', misreads)
    BY DEF Knows
  <2>2. CASE q = p
    BY <2>2
  <2>3. CASE q # p
    <3>1. Knows(process[q], Committed, misreads) /\ process'[q] = process[q] /\ process[q] \in Place
      BY <2>3 DEF SqliteInv, SqliteTypeOK
    <3>2. Committed \in Database /\ Committed' \in Database /\ misreads \in Nat
      BY CommittedType, SqliteAssumption DEF SqliteInv, SqliteTypeOK, Committed
    <3>3. Knows(process[q], Committed', misreads)
      BY <3>1, <3>2, KnowsLater
    <3>. QED
      BY <3>1, <3>3
  <2>. QED
    BY <2>2, <2>3
<1>4. lock' \notin Process
  BY SqliteAssumption
<1>. QED
  BY <1>1, <1>2, <1>3, <1>4 DEF SqliteInv

\* The tables of a database, one replaced.
LEMMA WithTable ==
  ASSUME NEW d \in Database, NEW c \in SUBSET Column, NEW r \in [AgentName -> Agents]
  PROVE  /\ d.agents \in Table /\ d.agents.columns \in SUBSET Column /\ d.agents.rows \in [AgentName -> Agents]
         /\ [d.agents EXCEPT !.columns = c] \in Table /\ [d.agents EXCEPT !.rows = r] \in Table
         /\ [columns |-> c, rows |-> r] \in Table
         /\ \A a \in Table : [d EXCEPT !.agents = a] \in Database
  BY DEF Database, Table

\* The empty tables.
LEMMA EmptyTables ==
  /\ NoAgents \in [AgentName -> Agents] /\ NoSuchTable \in Table /\ NoDatabase \in Database
  /\ Asleep \in Place /\ NoAgent \in Agents
  <1>1. NoAgents \in [AgentName -> Agents] /\ NoAgent \in Agents
    BY DEF NoAgents, Agents
  <1>2. NoSuchTable \in Table
    BY <1>1 DEF NoSuchTable, Table
  <1>3. NoDatabase \in Database
    BY <1>2 DEF NoDatabase, Database
  <1>4. Asleep \in Place
    BY <1>1, Sizes, SqliteAssumption DEF Asleep, Place, Opening, Writing
  <1>. QED
    BY <1>1, <1>2, <1>3, <1>4

\* A process begins to open the database.
LEMMA OpenStep ==
  ASSUME SqliteInv, NEW p \in Process, Open(p)
  PROVE  SqliteInv'
<1>1. [Asleep EXCEPT !.at = "create"] \in Place
  BY Sizes, EmptyTables DEF SqliteInv, SqliteTypeOK, Place, Opening, Writing, Asleep
<1>2. /\ process' \in [Process -> Place] /\ process'[p] = [Asleep EXCEPT !.at = "create"]
      /\ \A q \in Process \ {p} : process'[q] = process[q]
  BY <1>1 DEF Open, Goto, SqliteInv, SqliteTypeOK
<1>3. /\ UNCHANGED <<db, lock, undo>> /\ UNCHANGED <<owed, misreads, deaths, crossed>> /\ process[p].at = "closed"
  BY DEF Open, KeepHistory, Where
<1>4. SqliteTypeOK'
  BY <1>2, <1>3 DEF SqliteInv, SqliteTypeOK
<1>5. LockHeld' /\ lock # p
  BY <1>2, <1>3 DEF SqliteInv, LockHeld, Asleep, Writing
<1>6. lock' \in Process => Underway(process'[lock'], db', undo')
  BY <1>2, <1>3, <1>5 DEF SqliteInv
<1>7. Committed' = Committed
  BY <1>3 DEF Committed
<1>8. Knows(process'[p], Committed, misreads')
  BY <1>2 DEF Knows, Asleep
<1>. QED
  BY <1>2, <1>3, <1>4, <1>5, <1>6, <1>7, <1>8, Reader

\* A process closes the database.
LEMMA CloseStep ==
  ASSUME SqliteInv, NEW p \in Process, Close(p)
  PROVE  SqliteInv'
<1>1. Asleep \in Place
  BY Sizes, EmptyTables DEF SqliteInv, SqliteTypeOK, Place, Opening, Writing, Asleep
<1>2. /\ process' \in [Process -> Place] /\ process'[p] = Asleep
      /\ \A q \in Process \ {p} : process'[q] = process[q]
  BY <1>1 DEF Close, Goto, SqliteInv, SqliteTypeOK
<1>3. /\ UNCHANGED <<db, lock, undo, owed, crossed>>
      /\ misreads' = misreads \/ misreads' # 0
      /\ misreads' \in 0 .. MaxMisread /\ deaths' \in 0 .. MaxDeath
      /\ process[p].at \notin Writing /\ process'[p].at \notin Writing
  BY <1>2, SqliteAssumption DEF Close, KeepHistory, Where, Writing, SqliteInv, SqliteTypeOK, Asleep
<1>4. SqliteTypeOK'
  BY <1>2, <1>3 DEF SqliteInv, SqliteTypeOK
<1>5. LockHeld' /\ lock # p
  BY <1>2, <1>3 DEF SqliteInv, LockHeld
<1>6. lock' \in Process => Underway(process'[lock'], db', undo')
  BY <1>2, <1>3, <1>5 DEF SqliteInv
<1>7. Committed' = Committed
  BY <1>3 DEF Committed
<1>8. Knows(process'[p], Committed, misreads')
  BY <1>2 DEF Knows, Asleep
<1>. QED
  BY <1>2, <1>3, <1>4, <1>5, <1>6, <1>7, <1>8, Reader


\* A query of the schema at step i, of the columns c seen so far.
LEMMA ProbingNext ==
  ASSUME SqliteInv, NEW p \in Process, process[p].at = "probe", NEW c \in SUBSET Column, NEW m \in Nat,
         m = 0 => misreads = 0 /\ c = process[p].seen \cup ({Probed[process[p].i]} \cap Committed.agents.columns)
  PROVE  Probing(p, c) \in Place /\ Probing(p, c).at \in {"probe", "aside", "check"}
         /\ Knows(Probing(p, c), Committed, m)
<1>1. /\ process[p] \in Place /\ Knows(process[p], Committed, misreads) /\ Committed \in Database
      /\ Committed.agents.columns \in SUBSET Column
  BY CommittedType DEF SqliteInv, SqliteTypeOK, Database, Table
<1>2. process[p].i \in 1 .. 4 /\ Committed.agents.columns # {}
  BY <1>1, Sizes DEF Knows
<1>3. Probing(p, c) \in Place /\ Probing(p, c).at \in {"probe", "aside", "check"}
  <2>1. process[p].i < 4 => process[p].i + 1 \in 1 .. Len(Probed) + EventColumns
    BY <1>2, Sizes, SqliteAssumption
  <2>2. 1 \in 1 .. Len(Probed) + EventColumns
    BY Sizes, SqliteAssumption
  <2>3. CASE process[p].i < Len(Probed)
    <3>1. Probing(p, c) = [process[p] EXCEPT !.i = process[p].i + 1, !.seen = c]
      BY <2>3 DEF Probing
    <3>. QED
      BY <1>1, <2>1, <2>3, <3>1, Sizes DEF Place
  <2>4. CASE ~(process[p].i < Len(Probed)) /\ NeedsMigration(c)
    <3>1. Probing(p, c) = [process[p] EXCEPT !.at = "aside", !.i = 1, !.seen = c]
      BY <2>4 DEF Probing
    <3>. QED
      BY <1>1, <2>2, <3>1 DEF Place, Opening
  <2>5. CASE ~(process[p].i < Len(Probed)) /\ ~NeedsMigration(c)
    <3>1. Probing(p, c) = [process[p] EXCEPT !.at = "check", !.i = 1, !.seen = {}]
      BY <2>5 DEF Probing
    <3>. QED
      BY <1>1, <2>2, <3>1 DEF Place, Opening
  <2>. QED
    BY <2>3, <2>4, <2>5
<1>4. m = 0 => \/ Base \subseteq Committed.agents.columns
               \/ c = {Probed[j] : j \in 1 .. process[p].i} \cap Committed.agents.columns
  <2>1. SUFFICES ASSUME m = 0, ~(Base \subseteq Committed.agents.columns)
                 PROVE  c = {Probed[j] : j \in 1 .. process[p].i} \cap Committed.agents.columns
    OBVIOUS
  <2>2. process[p].seen = {Probed[j] : j \in 1 .. process[p].i - 1} \cap Committed.agents.columns
    BY <1>1, <2>1 DEF Knows
  <2>3. \A j : j \in 1 .. process[p].i <=> j \in 1 .. process[p].i - 1 \/ j = process[p].i
    BY <1>2
  <2>. QED
    BY <2>1, <2>2, <2>3
<1>5. CASE process[p].i < Len(Probed)
  <2>1. /\ Probing(p, c).at = "probe" /\ Probing(p, c).seen = c
        /\ Probing(p, c).i = process[p].i + 1 /\ Probing(p, c).i - 1 = process[p].i
    BY <1>1, <1>2, <1>5, Sizes DEF Probing, Place
  <2>. QED
    BY <1>2, <1>3, <1>4, <1>5, <2>1, Sizes DEF Knows
<1>6. CASE ~(process[p].i < Len(Probed)) /\ NeedsMigration(c)
  <2>1. Probing(p, c).at = "aside" /\ Probing(p, c).i = 1
    BY <1>1, <1>6 DEF Probing, Place
  <2>. QED
    BY <1>2, <1>3, <2>1 DEF Knows
<1>7. CASE ~(process[p].i < Len(Probed)) /\ ~NeedsMigration(c)
  <2>1. Probing(p, c).at = "check" /\ Probing(p, c).i = 1
    BY <1>1, <1>7 DEF Probing, Place
  <2>2. m = 0 => Base \subseteq Committed.agents.columns
    <3>1. SUFFICES ASSUME m = 0, ~(Base \subseteq Committed.agents.columns)
                   PROVE  FALSE
      OBVIOUS
    <3>2. process[p].i = 4
      BY <1>2, <1>7, Sizes
    <3>3. c = {Probed[j] : j \in 1 .. 4} \cap Committed.agents.columns
      BY <1>4, <3>1, <3>2
    <3>4. 1 \in 1 .. 4 /\ 2 \in 1 .. 4 /\ 3 \in 1 .. 4 /\ 4 \in 1 .. 4
      OBVIOUS
    <3>5. {"id", "worktree_path", "session_id"} \cap Committed.agents.columns \subseteq c /\ c \subseteq Committed.agents.columns
      BY <3>3, <3>4, Sizes
    <3>6. NeedsMigration(Committed.agents.columns)
      BY <1>2, <3>1 DEF SqliteInv, Orderly
    <3>7. NeedsMigration(c)
      BY <3>5, <3>6 DEF NeedsMigration
    <3>. QED
      BY <1>7, <3>7
  <2>3. Columns \in Nat /\ 1 \in 1 .. Columns /\ 1 .. 1 - 1 = {}
    BY Sizes, SqliteAssumption
  <2>. QED
    BY <1>2, <1>3, <2>1, <2>2, <2>3 DEF Knows
<1>. QED
  BY <1>5, <1>6, <1>7

\* A process looks for one column, or the query fails.
LEMMA ProbeColumnStep ==
  ASSUME SqliteInv, NEW p \in Process, ProbeColumn(p)
  PROVE  SqliteInv'
<1>0. /\ process[p].at = "probe" /\ misreads \in Nat
      /\ process[p] \in Place /\ Committed.agents.columns \in SUBSET Column
  BY CommittedType, SqliteAssumption DEF ProbeColumn, Where, SqliteInv, SqliteTypeOK, Database, Table
<1>1. PICK c \in SUBSET Column :
        /\ Goto(p, Probing(p, c))
        /\ \/ misreads' = misreads + 1 /\ misreads < MaxMisread
           \/ misreads' = misreads /\ c = process[p].seen \cup ({Probed[process[p].i]} \cap Committed.agents.columns)
  <2>1. process[p].seen \in SUBSET Column
        /\ process[p].seen \cup ({Probed[process[p].i]} \cap Committed.agents.columns) \in SUBSET Column
    BY <1>0 DEF Place
  <2>. QED
    BY <2>1 DEF ProbeColumn
<1>2. misreads' = 0 => misreads = 0 /\ c = process[p].seen \cup ({Probed[process[p].i]} \cap Committed.agents.columns)
  BY <1>0, <1>1
<1>3. misreads' \in Nat /\ misreads' \in 0 .. MaxMisread
  BY <1>0, <1>1, SqliteAssumption DEF SqliteInv, SqliteTypeOK
<1>4. Probing(p, c) \in Place /\ Probing(p, c).at \in {"probe", "aside", "check"}
      /\ Knows(Probing(p, c), Committed, misreads')
  BY <1>0, <1>1, <1>2, <1>3, ProbingNext
<1>5. /\ process' \in [Process -> Place] /\ process'[p] = Probing(p, c)
      /\ \A q \in Process \ {p} : process'[q] = process[q]
  BY <1>1, <1>4 DEF Goto, SqliteInv, SqliteTypeOK
<1>6. UNCHANGED <<db, lock, undo, owed, deaths, crossed>>
  BY DEF ProbeColumn
<1>7. SqliteTypeOK'
  BY <1>3, <1>5, <1>6 DEF SqliteInv, SqliteTypeOK
<1>8. LockHeld' /\ lock # p
  <2>1. process[p].at \notin Writing /\ process'[p].at \notin Writing
    BY <1>0, <1>4, <1>5 DEF Writing
  <2>. QED
    BY <1>5, <1>6, <2>1 DEF SqliteInv, LockHeld
<1>9. lock' \in Process => Underway(process'[lock'], db', undo')
  BY <1>5, <1>6, <1>8 DEF SqliteInv
<1>10. Committed' = Committed
  BY <1>6 DEF Committed
<1>11. misreads' = misreads \/ misreads' # 0
  BY <1>0, <1>1
<1>12. Knows(process'[p], Committed, misreads')
  BY <1>4, <1>5
<1>. QED
  BY <1>5, <1>6, <1>7, <1>8, <1>9, <1>10, <1>11, <1>12, Reader


\* Where a process stands whose column is there.
LEMMA NextColumnKnows ==
  ASSUME SqliteInv, NEW p \in Process, process[p].at \in {"check", "add"},
         NEW d \in Database, NEW m \in Nat, d.agents.columns # {},
         m = 0 => /\ Base \subseteq d.agents.columns
                  /\ \A j \in 1 .. process[p].i : ~Missing(d, j)
  PROVE  /\ NextColumn(p) \in Place /\ NextColumn(p).at \in {"check", "open"}
         /\ Knows(NextColumn(p), d, m)
<1>1. process[p] \in Place /\ process[p].i \in 1 .. Columns /\ Columns \in Nat /\ EventColumns \in Nat
  BY Sizes, SqliteAssumption DEF SqliteInv, SqliteTypeOK, Knows
<1>2. CASE process[p].i = Columns
  <2>1. NextColumn(p) = [Asleep EXCEPT !.at = "open"]
    BY <1>2 DEF NextColumn
  <2>2. NextColumn(p) \in Place /\ NextColumn(p).at = "open"
    BY <2>1, EmptyTables DEF Place, Asleep, Opening, Writing
  <2>. QED
    BY <1>2, <2>2 DEF Knows
<1>3. CASE process[p].i # Columns
  <2>1. NextColumn(p) = [process[p] EXCEPT !.at = "check", !.i = process[p].i + 1]
    BY <1>3 DEF NextColumn
  <2>2. process[p].i + 1 \in 1 .. Columns /\ process[p].i + 1 \in 1 .. Len(Probed) + EventColumns
        /\ (process[p].i + 1) - 1 = process[p].i
    BY <1>1, <1>3, Sizes
  <2>3. NextColumn(p) \in Place /\ NextColumn(p).at = "check" /\ NextColumn(p).i = process[p].i + 1
    BY <1>1, <2>1, <2>2 DEF Place, Opening, Writing
  <2>. QED
    BY <2>2, <2>3 DEF Knows
<1>. QED
  BY <1>2, <1>3

\* A process looks for a later column, or the query fails.
LEMMA CheckColumnStep ==
  ASSUME SqliteInv, NEW p \in Process, CheckColumn(p)
  PROVE  SqliteInv'
<1>0. /\ process[p].at = "check" /\ misreads \in Nat /\ MaxMisread \in Nat
      /\ process[p] \in Place /\ Committed \in Database /\ Knows(process[p], Committed, misreads)
      /\ process[p].i \in 1 .. Columns
  BY CommittedType, SqliteAssumption DEF CheckColumn, Where, SqliteInv, SqliteTypeOK, Knows
<1>1. \/ /\ Missing(Committed, process[p].i) /\ misreads' = misreads
         /\ Goto(p, [process[p] EXCEPT !.at = "add"])
      \/ /\ ~Missing(Committed, process[p].i) /\ misreads' = misreads
         /\ Goto(p, NextColumn(p))
      \/ /\ misreads < MaxMisread /\ misreads' = misreads + 1
         /\ Goto(p, [process[p] EXCEPT !.at = "add"])
  BY DEF CheckColumn
<1>2. misreads' \in 0 .. MaxMisread /\ (misreads' = misreads \/ misreads' # 0)
  BY <1>0, <1>1 DEF SqliteInv, SqliteTypeOK
<1>3. LET r == [process[p] EXCEPT !.at = "add"] IN
        r \in Place /\ r.at = "add" /\ (misreads' = misreads \/ misreads' # 0 => Knows(r, Committed, misreads'))
  <2>1. LET r == [process[p] EXCEPT !.at = "add"] IN r \in Place /\ r.at = "add" /\ r.i = process[p].i
    BY <1>0 DEF Place, Opening
  <2>. QED
    BY <1>0, <2>1 DEF Knows
<1>4. ~Missing(Committed, process[p].i) /\ misreads' = misreads =>
        /\ NextColumn(p) \in Place /\ NextColumn(p).at \in {"check", "open"}
        /\ Knows(NextColumn(p), Committed, misreads')
  <2>1. SUFFICES ASSUME ~Missing(Committed, process[p].i), misreads' = misreads
                 PROVE  /\ NextColumn(p) \in Place /\ NextColumn(p).at \in {"check", "open"}
                        /\ Knows(NextColumn(p), Committed, misreads')
    OBVIOUS
  <2>2. \A j \in 1 .. process[p].i : j \in 1 .. process[p].i - 1 \/ j = process[p].i
    BY <1>0, Sizes
  <2>3. /\ Committed.agents.columns # {}
        /\ misreads = 0 => /\ Base \subseteq Committed.agents.columns
                           /\ \A j \in 1 .. process[p].i : ~Missing(Committed, j)
    BY <1>0, <2>1, <2>2 DEF Knows
  <2>. QED
    BY <1>0, <2>1, <2>3, NextColumnKnows
<1>5. /\ process' \in [Process -> Place] /\ process'[p].at \in {"add", "check", "open"}
      /\ \A q \in Process \ {p} : process'[q] = process[q]
      /\ Knows(process'[p], Committed, misreads')
  BY <1>1, <1>2, <1>3, <1>4 DEF Goto, SqliteInv, SqliteTypeOK
<1>6. UNCHANGED <<db, lock, undo, owed, deaths, crossed>>
  BY DEF CheckColumn
<1>7. SqliteTypeOK'
  BY <1>2, <1>5, <1>6 DEF SqliteInv, SqliteTypeOK
<1>8. LockHeld' /\ lock # p
  BY <1>0, <1>5, <1>6 DEF SqliteInv, LockHeld, Writing
<1>9. lock' \in Process => Underway(process'[lock'], db', undo')
  BY <1>5, <1>6, <1>8 DEF SqliteInv
<1>10. Committed' = Committed
  BY <1>6 DEF Committed
<1>. QED
  BY <1>2, <1>5, <1>6, <1>7, <1>8, <1>9, <1>10, Reader

\* The old table is moved aside: what is committed stays.
LEMMA MoveAsideStep ==
  ASSUME SqliteInv, NEW p \in Process, MoveAside(p)
  PROVE  SqliteInv'
<1>0. /\ process[p].at = "aside" /\ process[p] \in Place /\ process[p].i = 1
      /\ db \in Database /\ lock = NoWriter /\ lock' = p /\ undo' = db /\ p # NoWriter
      /\ db' = [db EXCEPT !.old = db.agents, !.agents = [columns |-> Current, rows |-> NoAgents]]
      /\ UNCHANGED <<owed, misreads, deaths, crossed>>
      /\ Knows(process[p], Committed, misreads)
  BY SqliteAssumption DEF MoveAside, Where, BeginTx, Unlocked, KeepHistory, SqliteInv, SqliteTypeOK, Knows
<1>1. [process[p] EXCEPT !.at = "copy"] \in Place
  BY <1>0 DEF Place, Opening
<1>2. /\ process' \in [Process -> Place] /\ process'[p] = [process[p] EXCEPT !.at = "copy"]
      /\ \A q \in Process \ {p} : process'[q] = process[q]
  BY <1>1 DEF MoveAside, Goto, SqliteInv, SqliteTypeOK
<1>3. db' \in Database
  <2>1. db.agents \in Table /\ [columns |-> Current, rows |-> NoAgents] \in Table
    BY <1>0, EmptyTables DEF Database, Table, Column
  <2>. QED
    BY <1>0, <2>1 DEF Database
<1>4. SqliteTypeOK'
  BY <1>0, <1>2, <1>3 DEF SqliteInv, SqliteTypeOK
<1>5. LockHeld'
  <2>1. process'[p].at = "copy"
    BY <1>0, <1>2 DEF Place
  <2>. QED
    BY <1>0, <1>2, <2>1, SqliteAssumption DEF SqliteInv, LockHeld, Writing
<1>6. Underway(process'[lock'], db', undo')
  <2>1. process'[p].at = "copy"
    BY <1>0, <1>2 DEF Place
  <2>2. db'.old = db.agents /\ db'.agents.columns = Current /\ db'.events = db.events
    BY <1>0 DEF Database
  <2>. QED
    BY <1>0, <2>1, <2>2 DEF Underway
<1>7. Committed' = Committed
  BY <1>0 DEF Committed
<1>8. Knows(process'[p], Committed, misreads')
  <2>1. process'[p].at = "copy" /\ process'[p].i = 1
    BY <1>0, <1>2 DEF Place
  <2>. QED
    BY <1>0, <2>1 DEF Knows
<1>. QED
  BY <1>0, <1>2, <1>4, <1>5, <1>6, <1>7, <1>8, Reader

\* WithLock begins: what is committed stays.
LEMMA LockStateStep ==
  ASSUME SqliteInv, NEW p \in Process, LockState(p)
  PROVE  SqliteInv'
<1>0. /\ process[p].at = "open" /\ process[p] \in Place
      /\ db \in Database /\ lock = NoWriter /\ lock' = p /\ undo' = db /\ p # NoWriter /\ db' = db
      /\ UNCHANGED <<owed, misreads, deaths, crossed>>
      /\ Current \subseteq db.agents.columns
      /\ Knows(process[p], Committed, misreads)
  BY SqliteAssumption DEF LockState, Where, BeginTx, Unlocked, KeepHistory, SqliteInv, SqliteTypeOK
<1>1. PICK t \in AgentName, s \in {"Running", "Queued"} :
        Goto(p, [process[p] EXCEPT !.at = "locked", !.task = t,
                   !.view = [db.agents.rows EXCEPT ![t] = [status |-> s, mission |-> 1]]])
  BY DEF LockState
<1>2. /\ db.agents.rows \in [AgentName -> Agents]
      /\ [db.agents.rows EXCEPT ![t] = [status |-> s, mission |-> 1]] \in [AgentName -> Agents]
      /\ \A u \in AgentName \ {t} : [db.agents.rows EXCEPT ![t] = [status |-> s, mission |-> 1]][u] = db.agents.rows[u]
  BY <1>0 DEF Database, Table, Agents, Status, Live
<1>3. PICK w \in [AgentName -> Agents] :
        /\ Goto(p, [process[p] EXCEPT !.at = "locked", !.task = t, !.view = w])
        /\ \A u \in AgentName \ {t} : w[u] = db.agents.rows[u]
  BY <1>1, <1>2
<1>4. LET r == [process[p] EXCEPT !.at = "locked", !.task = t, !.view = w] IN
        r \in Place /\ r.at = "locked" /\ r.task = t /\ r.view = w
  BY <1>0 DEF Place, Writing
<1>5. /\ process' \in [Process -> Place]
      /\ process'[p].at = "locked" /\ process'[p].task = t /\ process'[p].view = w
      /\ \A q \in Process \ {p} : process'[q] = process[q]
  BY <1>3, <1>4 DEF Goto, SqliteInv, SqliteTypeOK
<1>6. SqliteTypeOK'
  BY <1>0, <1>5 DEF SqliteInv, SqliteTypeOK
<1>7. LockHeld'
  BY <1>0, <1>5, SqliteAssumption DEF SqliteInv, LockHeld, Writing
<1>8. Underway(process'[lock'], db', undo')
  BY <1>0, <1>3, <1>5 DEF Underway
<1>9. Committed' = Committed
  BY <1>0 DEF Committed
<1>10. Knows(process'[p], Committed, misreads')
  BY <1>0, <1>5 DEF Knows
<1>. QED
  BY <1>0, <1>5, <1>6, <1>7, <1>8, <1>9, <1>10, Reader

\* The table is deleted within the transaction: what is committed stays.
LEMMA ClearAgentsStep ==
  ASSUME SqliteInv, NEW p \in Process, ClearAgents(p)
  PROVE  SqliteInv'
<1>0. /\ process[p].at = "locked" /\ process[p] \in Place
      /\ db \in Database /\ lock = p /\ lock' = lock /\ undo' = undo /\ p # NoWriter
      /\ db' = [db EXCEPT !.agents.rows = NoAgents]
      /\ UNCHANGED <<owed, misreads, deaths, crossed>>
      /\ Knows(process[p], Committed, misreads) /\ Underway(process[p], db, undo)
  BY SqliteAssumption DEF ClearAgents, Where, Within, KeepHistory, SqliteInv, SqliteTypeOK
<1>1. LET r == [process[p] EXCEPT !.at = "cleared"] IN
        r \in Place /\ r.at = "cleared" /\ r.task = process[p].task /\ r.view = process[p].view
  BY <1>0 DEF Place, Writing
<1>2. /\ process' \in [Process -> Place] /\ process'[p].at = "cleared"
      /\ process'[p].task = process[p].task /\ process'[p].view = process[p].view
      /\ \A q \in Process \ {p} : process'[q] = process[q]
  BY <1>1 DEF ClearAgents, Goto, SqliteInv, SqliteTypeOK
<1>3. db' \in Database /\ db'.agents.columns = db.agents.columns /\ db'.events = db.events
  BY <1>0, EmptyTables DEF Database, Table
<1>4. SqliteTypeOK'
  BY <1>0, <1>2, <1>3 DEF SqliteInv, SqliteTypeOK
<1>5. LockHeld'
  BY <1>0, <1>2, SqliteAssumption DEF SqliteInv, LockHeld, Writing
<1>6. Underway(process'[lock'], db', undo')
  BY <1>0, <1>2, <1>3 DEF Underway
<1>7. Committed' = Committed
  BY <1>0 DEF Committed
<1>8. Knows(process'[p], Committed, misreads')
  BY <1>0, <1>2 DEF Knows
<1>. QED
  BY <1>0, <1>2, <1>4, <1>5, <1>6, <1>7, <1>8, Reader


\* A rollback brings back what is committed, and frees the lock.
LEMMA Rollback ==
  ASSUME SqliteInv, NEW p \in Process, RollbackTx(p), NEW r \in Place, r.at \notin Writing, Goto(p, r)
  PROVE  /\ Committed' = Committed /\ db' \in Database /\ undo' \in Database /\ lock' \in Process \cup {NoWriter}
         /\ LockHeld' /\ (lock' \in Process => Underway(process'[lock'], db', undo'))
         /\ process' \in [Process -> Place] /\ process'[p] = r
         /\ \A q \in Process \ {p} : process'[q] = process[q]
<1>1. /\ process' \in [Process -> Place] /\ process'[p] = r
      /\ \A q \in Process \ {p} : process'[q] = process[q]
  BY DEF Goto, SqliteInv, SqliteTypeOK
<1>2. CASE lock = p
  <2>1. lock' = NoWriter /\ db' = undo /\ undo' = NoDatabase /\ p # NoWriter /\ NoWriter \notin Process
    BY <1>2, SqliteAssumption DEF RollbackTx
  <2>2. Committed' = Committed
    BY <1>2, <2>1 DEF Committed
  <2>3. LockHeld'
    BY <1>1, <1>2, <2>1 DEF SqliteInv, LockHeld
  <2>. QED
    BY <1>1, <2>1, <2>2, <2>3, EmptyTables DEF SqliteInv, SqliteTypeOK
<1>3. CASE lock # p
  <2>1. UNCHANGED <<db, lock, undo>>
    BY <1>3 DEF RollbackTx
  <2>2. Committed' = Committed
    BY <2>1 DEF Committed
  <2>3. LockHeld'
    BY <1>1, <1>3, <2>1 DEF SqliteInv, LockHeld
  <2>4. lock' \in Process => Underway(process'[lock'], db', undo')
    BY <1>1, <1>3, <2>1 DEF SqliteInv
  <2>. QED
    BY <1>1, <2>1, <2>2, <2>3, <2>4 DEF SqliteInv, SqliteTypeOK
<1>. QED
  BY <1>2, <1>3

\* The copy of the table fails: the transaction is rolled back.
LEMMA CopyFailsStep ==
  ASSUME SqliteInv, NEW p \in Process, CopyFails(p)
  PROVE  SqliteInv'
<1>1. /\ RollbackTx(p) /\ UNCHANGED <<owed, misreads, crossed>> /\ deaths' \in 0 .. MaxDeath
  BY SqliteAssumption DEF CopyFails, KeepHistory, SqliteInv, SqliteTypeOK
<1>2. PICK r \in Place : /\ Goto(p, r) /\ r.at \notin Writing /\ Knows(r, Committed, misreads)
  <2>1. Asleep \in Place /\ Asleep.at = "closed"
    BY EmptyTables DEF Asleep
  <2>2. Asleep.at \notin Writing /\ Knows(Asleep, Committed, misreads)
    BY <2>1 DEF Knows, Writing
  <2>. QED
    BY <2>1, <2>2 DEF CopyFails
<1>3. /\ Committed' = Committed /\ db' \in Database /\ undo' \in Database /\ lock' \in Process \cup {NoWriter}
      /\ LockHeld' /\ (lock' \in Process => Underway(process'[lock'], db', undo'))
      /\ process' \in [Process -> Place] /\ process'[p] = r
      /\ \A q \in Process \ {p} : process'[q] = process[q]
  BY <1>1, <1>2, Rollback
<1>4. SqliteTypeOK'
  BY <1>1, <1>3 DEF SqliteInv, SqliteTypeOK
<1>5. Knows(process'[p], Committed, misreads')
  BY <1>1, <1>2, <1>3
<1>. QED
  BY <1>1, <1>3, <1>4, <1>5, Reader

\* A process dies: its transaction is rolled back.
LEMMA DieStep ==
  ASSUME SqliteInv, NEW p \in Process, Die(p)
  PROVE  SqliteInv'
<1>1. /\ RollbackTx(p) /\ UNCHANGED <<owed, misreads, crossed>> /\ deaths' \in 0 .. MaxDeath
  BY SqliteAssumption DEF Die, KeepHistory, SqliteInv, SqliteTypeOK
<1>2. PICK r \in Place : /\ Goto(p, r) /\ r.at \notin Writing /\ Knows(r, Committed, misreads)
  <2>1. Asleep \in Place /\ Asleep.at = "closed"
    BY EmptyTables DEF Asleep
  <2>2. Asleep.at \notin Writing /\ Knows(Asleep, Committed, misreads)
    BY <2>1 DEF Knows, Writing
  <2>. QED
    BY <2>1, <2>2 DEF Die
<1>3. /\ Committed' = Committed /\ db' \in Database /\ undo' \in Database /\ lock' \in Process \cup {NoWriter}
      /\ LockHeld' /\ (lock' \in Process => Underway(process'[lock'], db', undo'))
      /\ process' \in [Process -> Place] /\ process'[p] = r
      /\ \A q \in Process \ {p} : process'[q] = process[q]
  BY <1>1, <1>2, Rollback
<1>4. SqliteTypeOK'
  BY <1>1, <1>3 DEF SqliteInv, SqliteTypeOK
<1>5. Knows(process'[p], Committed, misreads')
  BY <1>1, <1>2, <1>3
<1>. QED
  BY <1>1, <1>3, <1>4, <1>5, Reader

\* A statement fails: the transaction is rolled back.
LEMMA StatementFailsStep ==
  ASSUME SqliteInv, NEW p \in Process, StatementFails(p)
  PROVE  SqliteInv'
<1>1. /\ RollbackTx(p) /\ UNCHANGED <<owed, misreads, crossed>> /\ deaths' \in 0 .. MaxDeath
  BY SqliteAssumption DEF StatementFails, KeepHistory, SqliteInv, SqliteTypeOK
<1>2. PICK r \in Place : /\ Goto(p, r) /\ r.at \notin Writing /\ Knows(r, Committed, misreads)
  <2>1. Asleep \in Place /\ Asleep.at = "closed"
    BY EmptyTables DEF Asleep
  <2>2. Asleep.at \notin Writing /\ Knows(Asleep, Committed, misreads)
    BY <2>1 DEF Knows, Writing
  <2>3. CASE process[p].at \in Opening
    BY <2>1, <2>2, <2>3 DEF StatementFails
  <2>4. CASE process[p].at \notin Opening
    <3>1. process[p].at \in {"locked", "cleared"} /\ Knows(process[p], Committed, misreads)
      BY <2>4 DEF StatementFails, SqliteInv, SqliteTypeOK, Place, Opening, Writing
    <3>2. LET r == [Asleep EXCEPT !.at = "open"] IN r \in Place /\ r.at = "open"
      BY EmptyTables DEF Asleep, Place
    <3>3. Knows([Asleep EXCEPT !.at = "open"], Committed, misreads)
      BY <3>1, <3>2 DEF Knows
    <3>. QED
      BY <2>4, <3>2, <3>3 DEF StatementFails, Writing
  <2>. QED
    BY <2>3, <2>4
<1>3. /\ Committed' = Committed /\ db' \in Database /\ undo' \in Database /\ lock' \in Process \cup {NoWriter}
      /\ LockHeld' /\ (lock' \in Process => Underway(process'[lock'], db', undo'))
      /\ process' \in [Process -> Place] /\ process'[p] = r
      /\ \A q \in Process \ {p} : process'[q] = process[q]
  BY <1>1, <1>2, Rollback
<1>4. SqliteTypeOK'
  BY <1>1, <1>3 DEF SqliteInv, SqliteTypeOK
<1>5. Knows(process'[p], Committed, misreads')
  BY <1>1, <1>2, <1>3
<1>. QED
  BY <1>1, <1>3, <1>4, <1>5, Reader

\* The tables are there from now on.
LEMMA CreateTablesStep ==
  ASSUME SqliteInv, NEW p \in Process, CreateTables(p)
  PROVE  SqliteInv'
<1>0. /\ process[p].at = "create" /\ process[p] \in Place /\ db \in Database
      /\ lock = NoWriter /\ lock' = lock /\ undo' = undo
      /\ db' = IF db.agents.columns = {} THEN [db EXCEPT !.agents.columns = Current] ELSE db
      /\ UNCHANGED <<owed, misreads, deaths, crossed>>
      /\ Committed = db /\ Committed' = db'
  BY DEF CreateTables, Where, Alone, Unlocked, KeepHistory, SqliteInv, SqliteTypeOK, Committed
<1>2. [process[p] EXCEPT !.at = "probe"] \in Place
  BY <1>0 DEF Place, Opening
<1>3. /\ process' \in [Process -> Place] /\ process'[p] = [process[p] EXCEPT !.at = "probe"]
      /\ \A q \in Process \ {p} : process'[q] = process[q]
  BY <1>2 DEF CreateTables, Goto, SqliteInv, SqliteTypeOK
<1>4. /\ db' \in Database /\ db'.agents.rows = db.agents.rows /\ db'.events = db.events
      /\ db.agents.columns = {} => db'.agents.columns = Current
      /\ db.agents.columns # {} => db'.agents.columns = db.agents.columns
  <2>1. Current \in SUBSET Column
    BY DEF Column
  <2>. QED
    BY <1>0, <2>1 DEF Database, Table
<1>5. SqliteTypeOK'
  BY <1>0, <1>3, <1>4 DEF SqliteInv, SqliteTypeOK
<1>6. process'[p].at = "probe" /\ process'[p].i = process[p].i /\ process'[p].seen = process[p].seen
  BY <1>0, <1>3 DEF Place
<1>7. LockHeld'
  BY <1>0, <1>3, <1>6 DEF SqliteInv, LockHeld, Writing
<1>8. Later(Committed, Committed') /\ Committed'.agents.columns # {}
  BY <1>0, <1>4 DEF Later, Current
<1>9. Orderly(Committed')
  <2>1. Orderly(db)
    BY <1>0 DEF SqliteInv
  <2>2. CASE db.agents.columns = {}
    BY <1>0, <1>4, <2>2 DEF Orderly, Current, Base
  <2>3. CASE db.agents.columns # {}
    BY <1>0, <1>4, <2>1, <2>3 DEF Orderly
  <2>. QED
    BY <2>2, <2>3
<1>10. Kept(Committed', owed', crossed')
  BY <1>0, <1>4 DEF SqliteInv, Kept
<1>11. Knows(process'[p], Committed', misreads)
  <2>1. process[p].i = 1 /\ process[p].seen = {}
    BY <1>0 DEF SqliteInv, Knows
  <2>2. {Probed[j] : j \in 1 .. process[p].i - 1} = {} /\ 1 \in 1 .. Len(Probed)
    BY <2>1, Sizes
  <2>. QED
    BY <1>6, <1>8, <2>1, <2>2 DEF Knows
<1>. QED
  BY <1>0, <1>3, <1>5, <1>7, <1>8, <1>9, <1>10, <1>11, Writer

\* The copied table is committed.
LEMMA CopyBackStep ==
  ASSUME SqliteInv, NEW p \in Process, CopyBack(p)
  PROVE  SqliteInv'
<1>0. /\ process[p].at = "copy" /\ process[p] \in Place /\ process[p].i = 1
      /\ db \in Database /\ undo \in Database /\ p # NoWriter
      /\ lock = p /\ lock' = NoWriter /\ undo' = NoDatabase
      /\ Committed = undo /\ Committed' = db' /\ Underway(process[p], db, undo)
      /\ UNCHANGED <<owed, misreads, deaths>> /\ crossed \in BOOLEAN
      /\ crossed' = (crossed \/ db.old.columns = Current)
      /\ db' = [db EXCEPT !.old = NoSuchTable,
                          !.agents.rows = [t \in AgentName |-> [db.old.rows[t] EXCEPT !.mission = 0]]]
  BY SqliteAssumption DEF CopyBack, Where, CommitTx, SqliteInv, SqliteTypeOK, Committed, Knows
<1>1. LET r == [process[p] EXCEPT !.at = "check", !.seen = {}] IN
        r \in Place /\ r.at = "check" /\ r.i = 1
  BY <1>0 DEF Place, Opening
<1>2. /\ process' \in [Process -> Place] /\ process'[p].at = "check" /\ process'[p].i = 1
      /\ \A q \in Process \ {p} : process'[q] = process[q]
  BY <1>1 DEF CopyBack, Goto, SqliteInv, SqliteTypeOK
<1>3. /\ db.old = undo.agents /\ db.agents.columns = Current /\ db.events = undo.events
      /\ undo.agents.columns # {}
  BY <1>0 DEF Underway, SqliteInv, Knows
<1>4. /\ undo.agents.rows \in [AgentName -> Agents] /\ undo.agents.columns \in SUBSET Column
      /\ \A t \in AgentName : /\ [undo.agents.rows[t] EXCEPT !.mission = 0] \in Agents
                              /\ [undo.agents.rows[t] EXCEPT !.mission = 0].status = undo.agents.rows[t].status
                              /\ [undo.agents.rows[t] EXCEPT !.mission = 0].mission = 0
  BY <1>0 DEF Database, Table, Agents, NoAgent
<1>5. /\ db' \in Database /\ db'.agents.columns = Current /\ db'.events = undo.events
      /\ db'.agents.rows = [t \in AgentName |-> [undo.agents.rows[t] EXCEPT !.mission = 0]]
  BY <1>0, <1>3, <1>4, EmptyTables DEF Database, Table
<1>6. SqliteTypeOK'
  BY <1>0, <1>2, <1>5, EmptyTables DEF SqliteInv, SqliteTypeOK
<1>7. LockHeld'
  BY <1>0, <1>2, SqliteAssumption DEF SqliteInv, LockHeld, Writing
<1>8. Later(Committed, Committed') /\ Committed'.agents.columns # {}
  BY <1>0, <1>5 DEF Later, Current
<1>9. Orderly(Committed')
  BY <1>0, <1>5 DEF Orderly, Current, Base
<1>10. Kept(Committed', owed', crossed')
  <2>1. Kept(undo, owed, crossed) /\ Orderly(undo)
    BY <1>0 DEF SqliteInv
  <2>2. ~crossed' => ~crossed /\ \A t \in AgentName : undo.agents.rows[t].mission = 0
    <3>1. SUFFICES ASSUME undo.agents.columns # Current
                   PROVE  ~(Current \subseteq undo.agents.columns)
      BY <1>0, <1>3, <2>1 DEF Orderly
    <3>. QED
      BY <1>4, <2>1, <3>1 DEF Orderly, Current, Column
  <2>3. \A t \in AgentName : /\ db'.agents.rows[t].status = undo.agents.rows[t].status
                             /\ db'.agents.rows[t].mission = 0
    BY <1>4, <1>5
  <2>4. \A t \in AgentName : /\ undo.agents.rows[t].status = owed[t].status
                             /\ ~crossed => undo.agents.rows[t].mission = owed[t].mission
    BY <2>1 DEF Kept
  <2>5. Kept(db', owed, crossed')
    BY <2>2, <2>3, <2>4 DEF Kept
  <2>. QED
    BY <1>0, <2>5
<1>11. Knows(process'[p], Committed', misreads)
  <2>1. Base \subseteq Current
    BY DEF Base, Current
  <2>2. 1 \in 1 .. Columns /\ 1 .. 1 - 1 = {}
    BY Sizes, SqliteAssumption
  <2>. QED
    BY <1>0, <1>2, <1>5, <1>8, <2>1, <2>2 DEF Knows
<1>. QED
  BY <1>0, <1>2, <1>6, <1>7, <1>8, <1>9, <1>10, <1>11, Writer

\* A column is added, or somebody else has added it.
LEMMA AddColumnStep ==
  ASSUME SqliteInv, NEW p \in Process, AddColumn(p)
  PROVE  SqliteInv'
<1>0. /\ process[p].at = "add" /\ process[p] \in Place /\ process[p].i \in 1 .. Columns
      /\ db \in Database /\ lock = NoWriter /\ lock' = lock /\ undo' = undo
      /\ UNCHANGED <<owed, misreads, deaths, crossed>> /\ misreads \in Nat
      /\ Committed = db /\ Committed' = db'
      /\ Knows(process[p], db, misreads) /\ Orderly(db) /\ Kept(db, owed, crossed) /\ db.agents.columns # {}
  BY SqliteAssumption DEF AddColumn, Where, Alone, Unlocked, KeepHistory, SqliteInv, SqliteTypeOK, Committed, Knows
<1>1. CASE ~Missing(db, process[p].i)
  <2>1. Goto(p, Asleep) /\ db' = db
    BY <1>1 DEF AddColumn
  <2>2. Asleep \in Place /\ Asleep.at = "closed"
    BY EmptyTables DEF Asleep
  <2>3. /\ process' \in [Process -> Place] /\ process'[p].at = "closed"
        /\ \A q \in Process \ {p} : process'[q] = process[q]
    BY <2>1, <2>2 DEF Goto, SqliteInv, SqliteTypeOK
  <2>4. SqliteTypeOK'
    BY <1>0, <2>1, <2>3 DEF SqliteInv, SqliteTypeOK
  <2>5. LockHeld' /\ lock' \notin Process
    BY <1>0, <2>3, SqliteAssumption DEF SqliteInv, LockHeld, Writing
  <2>6. Knows(process'[p], Committed, misreads')
    BY <2>3 DEF Knows
  <2>7. Committed' = Committed
    BY <1>0, <2>1
  <2>. QED
    BY <1>0, <2>3, <2>4, <2>5, <2>6, <2>7, Reader
<1>2. CASE Missing(db, process[p].i)
  <2>1. /\ Goto(p, NextColumn(p))
        /\ db' = IF process[p].i <= Len(Late) THEN [db EXCEPT !.agents.columns = @ \cup {Late[process[p].i]}]
                 ELSE [db EXCEPT !.events = @ \cup {process[p].i - Len(Late)}]
    BY <1>2 DEF AddColumn
  <2>2. /\ db' \in Database /\ db'.agents.rows = db.agents.rows
        /\ db.agents.columns \subseteq db'.agents.columns /\ db.events \subseteq db'.events
        /\ db'.agents.columns \ db.agents.columns \subseteq {"mission_id", "objective_id"}
        /\ ~Missing(db', process[p].i)
    <3>1. CASE process[p].i <= Len(Late)
      <4>1. Late[process[p].i] \in {"mission_id", "objective_id"} /\ Late[process[p].i] \in Column
        BY <1>0, <3>1, Sizes DEF Column, Current
      <4>2. db' = [db EXCEPT !.agents.columns = db.agents.columns \cup {Late[process[p].i]}]
        BY <1>0, <2>1, <3>1 DEF Database, Table
      <4>3. /\ db' \in Database /\ db'.agents.rows = db.agents.rows /\ db'.events = db.events
            /\ db'.agents.columns = db.agents.columns \cup {Late[process[p].i]}
        BY <1>0, <4>1, <4>2 DEF Database, Table
      <4>. QED
        BY <3>1, <4>1, <4>3 DEF Missing
    <3>2. CASE ~(process[p].i <= Len(Late))
      <4>1. process[p].i - Len(Late) \in 1 .. EventColumns
        BY <1>0, <3>2, Sizes, SqliteAssumption
      <4>2. /\ db' \in Database /\ db'.agents = db.agents
            /\ db'.events = db.events \cup {process[p].i - Len(Late)}
        BY <1>0, <2>1, <3>2, <4>1 DEF Database
      <4>. QED
        BY <3>2, <4>2 DEF Missing
    <3>. QED
      BY <3>1, <3>2
  <2>3. Later(db, db') /\ db'.agents.columns # {}
    BY <1>0, <2>2 DEF Later
  <2>4. Knows(process[p], db', misreads)
    BY <1>0, <2>2, <2>3, KnowsLater
  <2>5. misreads = 0 => Base \subseteq db'.agents.columns /\ \A j \in 1 .. process[p].i : ~Missing(db', j)
    <3>1. \A j \in 1 .. process[p].i : j \in 1 .. process[p].i - 1 \/ j = process[p].i
      BY <1>0, Sizes
    <3>. QED
      BY <1>0, <2>2, <2>4, <3>1 DEF Knows
  <2>6. /\ NextColumn(p) \in Place /\ NextColumn(p).at \in {"check", "open"}
        /\ Knows(NextColumn(p), db', misreads)
    BY <1>0, <2>2, <2>3, <2>5, NextColumnKnows
  <2>7. /\ process' \in [Process -> Place] /\ process'[p].at \in {"check", "open"}
        /\ \A q \in Process \ {p} : process'[q] = process[q]
        /\ Knows(process'[p], db', misreads)
    BY <2>1, <2>6 DEF Goto, SqliteInv, SqliteTypeOK
  <2>8. SqliteTypeOK'
    BY <1>0, <2>2, <2>7 DEF SqliteInv, SqliteTypeOK
  <2>9. LockHeld'
    BY <1>0, <2>7 DEF SqliteInv, LockHeld, Writing
  <2>10. Orderly(db')
    BY <1>0, <2>2 DEF Orderly, Base, Current, NeedsMigration
  <2>11. Kept(db', owed', crossed')
    BY <1>0, <2>2 DEF Kept
  <2>. QED
    BY <1>0, <2>3, <2>7, <2>8, <2>9, <2>10, <2>11, Writer
<1>. QED
  BY <1>1, <1>2

\* WithLock commits the table it read with one agent more.
LEMMA SaveAgentsStep ==
  ASSUME SqliteInv, NEW p \in Process, SaveAgents(p)
  PROVE  SqliteInv'
<1>0. /\ process[p].at = "cleared" /\ process[p] \in Place /\ process[p].task \in AgentName
      /\ db \in Database /\ undo \in Database /\ p # NoWriter
      /\ lock = p /\ lock' = NoWriter /\ undo' = NoDatabase
      /\ Committed = undo /\ Committed' = db' /\ Underway(process[p], db, undo)
      /\ UNCHANGED <<misreads, deaths, crossed>> /\ owed \in [AgentName -> Agents]
      /\ owed' = [owed EXCEPT ![process[p].task] = process[p].view[process[p].task]]
      /\ db' = [db EXCEPT !.agents.rows = process[p].view]
      /\ process[p].view \in [AgentName -> Agents]
      /\ Knows(process[p], undo, misreads)
  BY SqliteAssumption DEF SaveAgents, Where, CommitTx, SqliteInv, SqliteTypeOK, Committed, Underway, Place
<1>1. LET r == [Asleep EXCEPT !.at = "open"] IN r \in Place /\ r.at = "open"
  BY EmptyTables DEF Asleep, Place
<1>2. /\ process' \in [Process -> Place] /\ process'[p].at = "open"
      /\ \A q \in Process \ {p} : process'[q] = process[q]
  BY <1>1 DEF SaveAgents, Goto, SqliteInv, SqliteTypeOK
<1>3. /\ db' \in Database /\ db'.agents.rows = process[p].view
      /\ db'.agents.columns = undo.agents.columns /\ db'.events = undo.events
  BY <1>0 DEF Database, Table, Underway
<1>4. SqliteTypeOK'
  BY <1>0, <1>2, <1>3, EmptyTables DEF SqliteInv, SqliteTypeOK
<1>5. LockHeld'
  BY <1>0, <1>2, SqliteAssumption DEF SqliteInv, LockHeld, Writing
<1>6. Current \subseteq undo.agents.columns /\ \A t \in AgentName \ {process[p].task} : process[p].view[t] = undo.agents.rows[t]
  BY <1>0 DEF Underway
<1>7. Later(Committed, Committed') /\ Committed'.agents.columns # {}
  BY <1>0, <1>3, <1>6 DEF Later, Current
<1>8. Orderly(Committed')
  BY <1>0, <1>3, <1>6 DEF SqliteInv, Orderly
<1>9. Kept(Committed', owed', crossed')
  <2>1. Kept(undo, owed, crossed)
    BY <1>0 DEF SqliteInv
  <2>. QED
    BY <1>0, <1>3, <1>6, <2>1 DEF Kept
<1>10. Knows(process'[p], Committed', misreads)
  BY <1>0, <1>2, <1>3, <1>7 DEF Knows, Missing
<1>. QED
  BY <1>0, <1>2, <1>4, <1>5, <1>7, <1>8, <1>9, <1>10, Writer


\* A row is written; its mission stays, but for an agent that is removed.
LEMMA WriteAgentStep ==
  ASSUME SqliteInv, NEW p \in Process, NEW t \in AgentName, NEW entry \in Agents, WriteAgent(p, t, entry),
         entry = NoAgent \/ entry.mission = db.agents.rows[t].mission
  PROVE  SqliteInv'
<1>0. /\ process[p].at = "open" /\ db \in Database /\ lock = NoWriter /\ lock' = lock /\ undo' = undo
      /\ Committed = db /\ Committed' = db' /\ owed \in [AgentName -> Agents]
      /\ UNCHANGED <<process, misreads, deaths, crossed>>
      /\ db' = [db EXCEPT !.agents.rows[t] = entry]
      /\ owed' = [owed EXCEPT ![t] = IF entry = NoAgent THEN NoAgent ELSE [@ EXCEPT !.status = entry.status]]
      /\ Knows(process[p], db, misreads) /\ Kept(db, owed, crossed) /\ Orderly(db)
  BY DEF WriteAgent, Where, Alone, Unlocked, SqliteInv, SqliteTypeOK, Committed
<1>1. db.agents.rows \in [AgentName -> Agents]
  BY <1>0 DEF Database, Table
<1>2. db' = [db EXCEPT !.agents.rows = [db.agents.rows EXCEPT ![t] = entry]]
  BY <1>0 DEF Database, Table
<1>3. /\ db' \in Database /\ db'.agents.columns = db.agents.columns /\ db'.events = db.events
      /\ db'.agents.rows = [db.agents.rows EXCEPT ![t] = entry]
  <2> DEFINE rows == [db.agents.rows EXCEPT ![t] = entry]
  <2>1. rows \in [AgentName -> Agents]
    BY <1>0, <1>1
  <2>2. db' = [db EXCEPT !.agents.rows = rows]
    BY <1>2
  <2> HIDE DEF rows
  <2>3. /\ db' \in Database /\ db'.agents.columns = db.agents.columns /\ db'.events = db.events
        /\ db'.agents.rows = rows
    BY <1>0, <2>1, <2>2 DEF Database, Table
  <2>. QED
    BY <2>3 DEF rows
<1>4. /\ NoAgent.mission = 0 /\ NoAgent.status = "none"
      /\ entry # NoAgent => entry \in [status : Status, mission : {0, 1}]
  BY DEF NoAgent, Agents
<1>5. entry # NoAgent => /\ [owed[t] EXCEPT !.status = entry.status] \in Agents
                       /\ [owed[t] EXCEPT !.status = entry.status].status = entry.status
                       /\ [owed[t] EXCEPT !.status = entry.status].mission = owed[t].mission
  BY <1>0, <1>4 DEF Agents, NoAgent
<1>6. owed' \in [AgentName -> Agents]
  BY <1>0, <1>5, EmptyTables
<1>7. SqliteTypeOK'
  BY <1>0, <1>3, <1>6 DEF SqliteInv, SqliteTypeOK
<1>8. LockHeld'
  BY <1>0 DEF SqliteInv, LockHeld
<1>9. Later(Committed, Committed') /\ Committed'.agents.columns # {}
  BY <1>0, <1>3 DEF Later, Knows
<1>10. Orderly(Committed')
  BY <1>0, <1>1, <1>3, <1>4 DEF Orderly
<1>11. Kept(Committed', owed', crossed')
  <2>1. SUFFICES ASSUME NEW u \in AgentName
                 PROVE  /\ db'.agents.rows[u].status = owed'[u].status
                        /\ ~crossed => db'.agents.rows[u].mission = owed'[u].mission
    BY <1>0 DEF Kept
  <2>2. CASE u # t
    BY <1>0, <1>1, <1>3, <2>2 DEF Kept
  <2>3. CASE u = t
    <3>1. db'.agents.rows[t] = entry /\ owed'[t] = IF entry = NoAgent THEN NoAgent ELSE [owed[t] EXCEPT !.status = entry.status]
      BY <1>0, <1>1, <1>3
    <3>. QED
      BY <1>0, <1>4, <1>5, <2>3, <3>1 DEF Kept
  <2>. QED
    BY <2>2, <2>3
<1>12. Knows(process'[p], Committed', misreads)
  BY <1>0, <1>3 DEF Knows, Missing
<1>. QED
  BY <1>0, <1>7, <1>8, <1>9, <1>10, <1>11, <1>12, Writer

\* The status of an agent that exists is changed.
LEMMA StatusStep ==
  ASSUME SqliteInv, NEW p \in Process, NEW t \in AgentName, NEW s \in Status,
         db.agents.rows[t].status # "none",
         WriteAgent(p, t, [db.agents.rows[t] EXCEPT !.status = s])
  PROVE  SqliteInv'
<1>1. db.agents.rows[t] \in Agents
  BY DEF SqliteInv, SqliteTypeOK, Database, Table
<1>2. /\ [db.agents.rows[t] EXCEPT !.status = s] \in Agents
      /\ [db.agents.rows[t] EXCEPT !.status = s].mission = db.agents.rows[t].mission
  BY <1>1 DEF Agents, NoAgent
<1>. QED
  BY <1>2, WriteAgentStep

\* No step of a process breaks the invariant.
LEMMA SqliteNextStep ==
  ASSUME SqliteInv, [SqliteNext]_sqliteVars
  PROVE  SqliteInv'
<1>1. ASSUME NEW p \in Process, SqliteStep(p)
      PROVE  SqliteInv'
  <2>1. CASE \/ Open(p) \/ CreateTables(p) \/ ProbeColumn(p) \/ MoveAside(p) \/ CopyBack(p) \/ CopyFails(p)
             \/ CheckColumn(p) \/ AddColumn(p) \/ LockState(p) \/ ClearAgents(p) \/ SaveAgents(p)
             \/ Close(p) \/ StatementFails(p) \/ Die(p)
    BY <2>1, OpenStep, CreateTablesStep, ProbeColumnStep, MoveAsideStep, CopyBackStep, CopyFailsStep,
       CheckColumnStep, AddColumnStep, LockStateStep, ClearAgentsStep, SaveAgentsStep,
       CloseStep, StatementFailsStep, DieStep
  <2>2. ASSUME NEW t \in AgentName,
               \/ ClaimAgent(p, t) \/ RemoveAgent(p, t) \/ UpdateAgentStatus(p, t, "Failed")
               \/ \E s \in Status \ {"Queued"} : UpdateAgentStatusIf(p, t, Live, s)
        PROVE  SqliteInv'
    <3>1. db.agents.rows[t] \in Agents
      BY DEF SqliteInv, SqliteTypeOK, Database, Table
    <3>2. CASE ClaimAgent(p, t)
      BY <3>2, StatusStep DEF ClaimAgent, UpdateAgentStatusIf, Status, Live
    <3>3. CASE RemoveAgent(p, t)
      BY <3>3, WriteAgentStep, EmptyTables DEF RemoveAgent
    <3>4. CASE UpdateAgentStatus(p, t, "Failed")
      <4>1. db.agents.rows[t].status # "none" /\ "Failed" \in Status
        BY <3>1, <3>4 DEF UpdateAgentStatus, Agents, Status, Live
      <4>. QED
        BY <3>4, <4>1, StatusStep DEF UpdateAgentStatus
    <3>5. ASSUME NEW s \in Status \ {"Queued"}, UpdateAgentStatusIf(p, t, Live, s)
          PROVE  SqliteInv'
      BY <3>5, StatusStep DEF UpdateAgentStatusIf, Live
    <3>. QED
      BY <2>2, <3>2, <3>3, <3>4, <3>5
  <2>. QED
    BY <1>1, <2>1, <2>2 DEF SqliteStep
<1>2. CASE UNCHANGED sqliteVars
  <2>1. UNCHANGED <<db, lock, undo, process, owed, misreads, deaths, crossed>> /\ Committed' = Committed
    BY <1>2 DEF sqliteVars, Committed
  <2>2. SqliteTypeOK' /\ LockHeld' /\ (lock' \in Process => Underway(process[lock], db, undo)')
    BY <2>1 DEF SqliteInv, SqliteTypeOK, LockHeld, Underway
  <2>3. Orderly(Committed)' /\ Kept(Committed, owed, crossed)'
    BY <2>1 DEF SqliteInv, Orderly, Kept
  <2>4. (\A p \in Process : Knows(process[p], Committed, misreads))'
    BY <2>1 DEF SqliteInv, Knows, Missing
  <2>. QED
    BY <2>2, <2>3, <2>4 DEF SqliteInv
<1>. QED
  BY <1>1, <1>2 DEF SqliteNext

\* A database, whatever its version, before anybody opens it.
LEMMA SqliteStart ==
  ASSUME SqliteInit
  PROVE  SqliteInv
<1>1. PICK c \in Version, r \in [AgentName -> Agents] :
        /\ c = {} => r = NoAgents
        /\ c # Current => \A t \in AgentName : r[t].mission = 0
        /\ db = [agents |-> [columns |-> c, rows |-> r], old |-> NoSuchTable, events |-> {}]
        /\ owed = r
  BY DEF SqliteInit
<1>2. c \in SUBSET Column
  BY DEF Version, Column, Current
<1>3. db \in Database /\ db.agents.columns = c /\ db.agents.rows = r
  BY <1>1, <1>2, EmptyTables DEF Database, Table
<1>4. /\ lock = NoWriter /\ undo = NoDatabase /\ process = [p \in Process |-> Asleep]
      /\ misreads = 0 /\ deaths = 0 /\ crossed = FALSE
  BY DEF SqliteInit
<1>5. SqliteTypeOK
  <2>1. process \in [Process -> Place] /\ undo \in Database
    BY <1>4, EmptyTables
  <2>2. misreads \in 0 .. MaxMisread /\ deaths \in 0 .. MaxDeath
    BY <1>4, SqliteAssumption
  <2>. QED
    BY <1>1, <1>3, <1>4, <2>1, <2>2 DEF SqliteTypeOK
<1>6. Asleep.at = "closed" /\ \A p \in Process : process[p] = Asleep
  BY <1>4 DEF Asleep
<1>7. LockHeld /\ lock \notin Process
  BY <1>4, <1>6, SqliteAssumption DEF LockHeld, Writing
<1>8. Committed = db
  BY <1>4 DEF Committed
<1>9. Orderly(db)
  <2>1. c # Current => \A t \in AgentName : r[t].mission = 0
    BY <1>1
  <2>2. c # {} => Base \subseteq c \/ NeedsMigration(c)
    BY DEF Version, Base, NeedsMigration, Current
  <2>3. c \cap {"id", "worktree_path", "session_id"} # {} => ~({"resume_token", "workspace_path"} \subseteq c)
    BY DEF Version, Current
  <2>. QED
    BY <1>3, <2>1, <2>2, <2>3 DEF Orderly
<1>10. Kept(db, owed, crossed)
  BY <1>1, <1>3 DEF Kept
<1>11. \A p \in Process : Knows(process[p], db, misreads)
  BY <1>6 DEF Knows
<1>. QED
  BY <1>5, <1>7, <1>8, <1>9, <1>10, <1>11 DEF SqliteInv

\* The inductive invariant holds of every behaviour.
THEOREM SqliteInvariant == SqliteSpec => []SqliteInv
  BY SqliteStart, SqliteNextStep, PTL DEF SqliteSpec

\* No crash, failing statement or race of processes that migrate loses an
\* agent or an update, and an open store finds its columns (New, WithLock).
THEOREM StoreIsSound == SqliteSpec => []StoreSound
<1>1. SqliteInv => StoreSound
  <2>1. SUFFICES ASSUME SqliteInv
                 PROVE  StoreSound
    OBVIOUS
  <2>2. AgentsKept
    <3>1. Kept(Committed, owed, crossed)
      BY <2>1 DEF SqliteInv
    <3>. QED
      BY <3>1 DEF Kept, AgentsKept
  <2>3. OpenIsCurrent
    <3>1. SUFFICES ASSUME misreads = 0, NEW p \in Process, process[p].at \in {"open", "locked", "cleared"}
                   PROVE  /\ Current \subseteq Committed.agents.columns
                          /\ Committed.events = 1 .. EventColumns
      BY DEF OpenIsCurrent
    <3>2. Base \subseteq Committed.agents.columns /\ \A j \in 1 .. Columns : ~Missing(Committed, j)
      <4>1. Knows(process[p], Committed, misreads)
        BY <2>1 DEF SqliteInv
      <4>. QED
        BY <3>1, <4>1 DEF Knows
    <3>3. 1 \in 1 .. Columns /\ 2 \in 1 .. Columns
      BY Sizes, SqliteAssumption
    <3>4. "mission_id" \in Committed.agents.columns /\ "objective_id" \in Committed.agents.columns
      BY <3>2, <3>3, Sizes DEF Missing
    <3>5. Committed.events \subseteq 1 .. EventColumns
      <4>1. Committed \in Database
        BY <2>1, CommittedType DEF SqliteInv
      <4>. QED
        BY <4>1 DEF Database
    <3>6. \A k \in 1 .. EventColumns : k \in Committed.events
      <4>1. SUFFICES ASSUME NEW k \in 1 .. EventColumns
                     PROVE  k \in Committed.events
        OBVIOUS
      <4>2. k + 2 \in 1 .. Columns /\ ~(k + 2 <= Len(Late)) /\ (k + 2) - Len(Late) = k
        BY Sizes, SqliteAssumption
      <4>. QED
        BY <3>2, <4>2 DEF Missing
    <3>. QED
      BY <3>2, <3>4, <3>5, <3>6 DEF Base, Current
  <2>. QED
    BY <2>2, <2>3 DEF StoreSound
<1>. QED
  BY <1>1, SqliteInvariant, PTL

(***************************************************************************)
(* The mission queue in the memory of a daemon.                            *)
(***************************************************************************)

\* The agent t has a mission in this life of the daemon.
Mine(t) == row[t].mission \in DOMAIN missions /\ missions[row[t].mission].task = t

MemoryRow == [status : {"none", "Queued", "Running", "Completed", "Failed", "Stopped"}, mission : Nat]
MemoryMission == [status : {"reserved", "pending", "claimed", "completed", "failed", "cancelled"}, task : Agent]
Holding == [at : {"free", "claim", "check", "work"}, id : Nat, task : Agent \cup {"none"}]

QueueTypes ==
    /\ row \in [Agent -> MemoryRow] /\ missions \in Seq(MemoryMission)
    /\ channel \in Seq(Nat) /\ serving \in BOOLEAN
    /\ enqueue \in [Agent -> {"none", "persisted", "sending", "ok", "given up", "missed"}]
    /\ holds \in [InProcess -> Holding]
    /\ killing \subseteq Agent \X Nat \X {"cancel", "mark"}

\* What a row says of its agent's mission.
RowFits(t) ==
    /\ enqueue[t] = "none" <=> row[t].status = "none"
    /\ row[t].status = "none" => row[t].mission = 0
    /\ enqueue[t] \in {"persisted", "sending", "ok"} => Mine(t)
    /\ serving /\ enqueue[t] = "given up" /\ row[t].status = "Queued" => Mine(t)

\* What a mission says of its agent, and who still works for it.
MissionFits(i) ==
    LET u == missions[i].task IN
    /\ row[u].mission = i /\ enqueue[u] \in {"persisted", "sending", "ok", "given up"}
    /\ missions[i].status = "reserved" <=> enqueue[u] = "persisted"
    /\ missions[i].status = "pending" /\ enqueue[u] = "ok" => \E n \in DOMAIN channel : channel[n] = i
    /\ missions[i].status = "claimed" => \E w \in InProcess : holds[w].at # "free" /\ holds[w].id = i
    /\ missions[i].status \in {"completed", "failed"} => row[u].status # "Queued" /\ enqueue[u] = "ok"
    /\ missions[i].status = "cancelled" /\ row[u].status = "Queued" =>
         (\E k \in killing : k[1] = u) \/ (\E v \in Agent \ {u} : row[v].mission = i)

\* The channel holds a mission once, and none that a worker has.
PlaceFits(n) ==
    /\ channel[n] \in DOMAIN missions /\ missions[channel[n]].status \in {"pending", "cancelled"}
    /\ enqueue[missions[channel[n]].task] = "ok"
    /\ \A m \in DOMAIN channel : channel[m] = channel[n] => m = n
    /\ \A w \in InProcess : holds[w].at # "free" => holds[w].id # channel[n]

\* A worker has a mission of its own.
HoldFits(w) ==
    /\ holds[w].at = "free" => holds[w] = Free
    /\ holds[w].at # "free" =>
         /\ holds[w].id \in DOMAIN missions /\ missions[holds[w].id].task = holds[w].task
         /\ missions[holds[w].id].status \in {"claimed", "cancelled"} /\ enqueue[holds[w].task] = "ok"
         /\ \A v \in InProcess : holds[v].at # "free" /\ holds[v].id = holds[w].id => v = w
    /\ holds[w].at \in {"check", "work"} => row[holds[w].task].status # "Queued"

\* A kill knows the mission of the row it read.
KillFits(k) == k[2] = row[k[1]].mission /\ enqueue[k[1]] # "none"

\* Before it serves, the daemon knows no mission.
NothingYet ==
    ~serving => /\ missions = <<>> /\ channel = <<>> /\ killing = {} /\ holds = [w \in InProcess |-> Free]
                /\ \A t \in Agent : enqueue[t] \in {"none", "given up", "missed"}

\* Together.
MemoryInv ==
    /\ QueueTypes /\ NothingYet
    /\ \A t \in Agent : RowFits(t)
    /\ \A i \in DOMAIN missions : MissionFits(i)
    /\ \A n \in DOMAIN channel : PlaceFits(n)
    /\ \A w \in InProcess : HoldFits(w)
    /\ \A k \in killing : KillFits(k)

\* What the invariant says of the types of one table or place at a time.
LEMMA EnqueueType ==
  ASSUME MemoryInv
  PROVE  enqueue \in [Agent -> {"none", "persisted", "sending", "ok", "given up", "missed"}]
  BY DEF MemoryInv, QueueTypes

\* The rows.
LEMMA RowType ==
  ASSUME MemoryInv
  PROVE  row \in [Agent -> MemoryRow]
  BY DEF MemoryInv, QueueTypes

\* What the workers hold.
LEMMA HoldsType ==
  ASSUME MemoryInv
  PROVE  holds \in [InProcess -> Holding]
  BY DEF MemoryInv, QueueTypes

\* The channel.
LEMMA ChannelType ==
  ASSUME MemoryInv
  PROVE  channel \in Seq(Nat)
  BY DEF MemoryInv, QueueTypes

\* The map of missions.
LEMMA MissionType ==
  ASSUME MemoryInv
  PROVE  /\ missions \in Seq(MemoryMission) /\ DOMAIN missions = 1 .. Len(missions) /\ Len(missions) \in Nat
         /\ \A i \in DOMAIN missions : missions[i] \in MemoryMission /\ missions[i].task \in Agent
<1>1. missions \in Seq(MemoryMission)
  BY DEF MemoryInv, QueueTypes
<1>2. DOMAIN missions = 1 .. Len(missions) /\ Len(missions) \in Nat /\ \A i \in DOMAIN missions : missions[i] \in MemoryMission
  BY <1>1
<1>. QED
  BY <1>1, <1>2 DEF MemoryMission

\* The agent of a mission, and the one a kill is for.
LEMMA TaskType ==
  ASSUME MemoryInv
  PROVE  \A i \in DOMAIN missions : missions[i].task \in Agent
  BY MissionType

\* The agent a kill is for.
LEMMA KillType ==
  ASSUME MemoryInv
  PROVE  \A k \in killing : k[1] \in Agent
  BY DEF MemoryInv, QueueTypes

\* What a worker holds that is not free.
LEMMA Holder ==
  ASSUME MemoryInv
  PROVE  \A v \in InProcess : holds[v].at # "free" =>
         /\ holds[v].id \in DOMAIN missions /\ holds[v].task \in Agent /\ missions[holds[v].id].task = holds[v].task
         /\ missions[holds[v].id].status \in {"claimed", "cancelled"} /\ enqueue[holds[v].task] = "ok"
  BY TaskType DEF MemoryInv, HoldFits

\* A row is marked: its mission stays, and no row is queued that was not.
LEMMA MarkRow ==
  ASSUME NEW t \in Agent, row \in [Agent -> MemoryRow], NEW from \in SUBSET {"Queued", "Running"},
         NEW to \in {"Running", "Completed", "Failed", "Stopped"}, Mark(t, from, to)
  PROVE  /\ row' \in [Agent -> MemoryRow]
         /\ \A u \in Agent : /\ row'[u].mission = row[u].mission
                             /\ row'[u].status = "none" <=> row[u].status = "none"
                             /\ row'[u].status = "Queued" => row[u].status = "Queued"
                             /\ u # t => row'[u] = row[u]
         /\ row[t].status \in from => row'[t].status = to
         /\ row[t].status \notin from => row' = row
  BY DEF Mark, MemoryRow

\* A mission gets another status.
LEMMA MissionSet ==
  ASSUME NEW i \in DOMAIN missions, missions \in Seq(MemoryMission),
         NEW s \in {"pending", "claimed", "completed", "failed", "cancelled"}, SetMission(i, s)
  PROVE  /\ missions' \in Seq(MemoryMission) /\ Len(missions') = Len(missions) /\ DOMAIN missions' = DOMAIN missions
         /\ \A j \in DOMAIN missions : missions'[j].task = missions[j].task /\ (j # i => missions'[j] = missions[j])
         /\ missions'[i].status = s
<1>1. DOMAIN missions = 1 .. Len(missions) /\ Len(missions) \in Nat /\ \A j \in DOMAIN missions : missions[j] \in MemoryMission
  OBVIOUS
<1>2. missions[i] \in [status : {"reserved", "pending", "claimed", "completed", "failed", "cancelled"}, task : Agent]
  BY <1>1 DEF MemoryMission
<1>3. missions' = [missions EXCEPT ![i] = [missions[i] EXCEPT !.status = s]]
  BY DEF SetMission
<1> DEFINE m == [missions[i] EXCEPT !.status = s]
<1>4. m \in MemoryMission /\ m.status = s /\ m.task = missions[i].task
  BY <1>2 DEF MemoryMission
<1> HIDE DEF m
<1>5. missions' = [missions EXCEPT ![i] = m]
  BY <1>3 DEF m
<1>. QED
  BY <1>1, <1>4, <1>5

\* A request is given up.
LEMMA SendCancelledStep ==
  ASSUME MemoryInv, NEW t \in Agent, SendCancelled(t)
  PROVE  MemoryInv'
<1>0. /\ enqueue[t] = "sending" /\ enqueue' = [enqueue EXCEPT ![t] = "given up"]
      /\ row' = row /\ missions' = missions /\ channel' = channel /\ holds' = holds /\ killing' = killing
      /\ serving' = serving
  BY DEF SendCancelled
<1>1. QueueTypes'
  BY <1>0 DEF MemoryInv, QueueTypes
<1>2. ASSUME NEW u \in Agent PROVE RowFits(u)'
  <2>1. RowFits(u)
    BY DEF MemoryInv
  <2>. QED
    BY <2>1, <1>0, EnqueueType, RowType DEF RowFits, Mine
<1>3. ASSUME NEW i \in DOMAIN missions' PROVE MissionFits(i)'
  <2>1. MissionFits(i) /\ i \in DOMAIN missions /\ missions[i].task \in Agent
    BY <1>0, TaskType DEF MemoryInv
  <2>. QED
    BY <1>0, EnqueueType, RowType, <2>1 DEF MissionFits
<1>4. ASSUME NEW n \in DOMAIN channel' PROVE PlaceFits(n)'
  <2>1. PlaceFits(n)
    BY <1>0 DEF MemoryInv
  <2>2. channel[n] \in DOMAIN missions /\ missions[channel[n]].task \in Agent
    BY <2>1, TaskType DEF PlaceFits
  <2>. QED
    BY <2>1, <2>2, <1>0, EnqueueType, Holder DEF PlaceFits
<1>5. ASSUME NEW v \in InProcess PROVE HoldFits(v)'
  <2>1. HoldFits(v)
    BY DEF MemoryInv
  <2>2. /\ holds[v].at # "free" => holds[v].id \in DOMAIN missions /\ holds[v].task \in Agent
        /\ holds[v].at \in {"check", "work"} => holds[v].at # "free"
    BY Holder
  <2>. QED
    BY <2>1, <2>2, <1>0, EnqueueType, HoldsType DEF HoldFits
<1>6. ASSUME NEW kk \in killing' PROVE KillFits(kk)'
  <2>1. KillFits(kk) /\ kk[1] \in Agent
    BY <1>0, KillType DEF MemoryInv
  <2>. QED
    BY <2>1, <1>0, EnqueueType, RowType DEF KillFits
<1>7. NothingYet'
  <2>1. serving
    BY <1>0 DEF MemoryInv, NothingYet
  <2>2. serving'
    BY <1>0, <2>1
  <2>. QED
    BY <2>2 DEF NothingYet
<1>. QED
  BY <1>1, <1>2, <1>3, <1>4, <1>5, <1>6, <1>7 DEF MemoryInv

\* A mission goes into the channel.
LEMMA SendStep ==
  ASSUME MemoryInv, NEW t \in Agent, Send(t)
  PROVE  MemoryInv'
<1>r. RowFits(t) /\ Mine(t)
  BY DEF MemoryInv, RowFits, Send
<1>0. /\ enqueue[t] = "sending" /\ enqueue' = [enqueue EXCEPT ![t] = "ok"]
      /\ row' = row /\ missions' = missions /\ holds' = holds /\ killing' = killing
      /\ serving' = serving /\ serving
      /\ row[t].mission \in DOMAIN missions /\ missions[row[t].mission].task = t
      /\ missions[row[t].mission].status # "reserved"
      /\ channel' = Append(channel, row[t].mission)
      /\ channel' \in Seq(Nat) /\ DOMAIN channel' = DOMAIN channel \cup {Len(channel) + 1}
      /\ Len(channel) + 1 \notin DOMAIN channel /\ channel'[Len(channel) + 1] = row[t].mission
      /\ \A n \in DOMAIN channel : channel'[n] = channel[n]
  <2>1. /\ enqueue[t] = "sending" /\ enqueue' = [enqueue EXCEPT ![t] = "ok"]
        /\ row' = row /\ missions' = missions /\ holds' = holds /\ killing' = killing
        /\ serving' = serving /\ channel' = Append(channel, row[t].mission)
    BY DEF Send
  <2>2. serving /\ channel \in Seq(Nat)
    BY <2>1 DEF MemoryInv, NothingYet, QueueTypes
  <2>a. row[t].mission \in DOMAIN missions /\ missions[row[t].mission].task = t
    BY <1>r DEF Mine
  <2>3. row[t].mission \in DOMAIN missions /\ missions[row[t].mission].task = t /\ row[t].mission \in Nat
    <3>1. DOMAIN missions = 1 .. Len(missions) /\ Len(missions) \in Nat
      BY MissionType
    <3>. QED
      BY <2>a, <3>1
  <2>4. missions[row[t].mission].status # "reserved"
    BY <2>1, <2>3 DEF MemoryInv, MissionFits
  <2>5. /\ channel' \in Seq(Nat) /\ DOMAIN channel' = DOMAIN channel \cup {Len(channel) + 1}
      /\ Len(channel) + 1 \notin DOMAIN channel /\ channel'[Len(channel) + 1] = row[t].mission
        /\ \A n \in DOMAIN channel : channel'[n] = channel[n]
    BY <2>1, <2>2, <2>3
  <2>. QED
    BY <2>1, <2>2, <2>3, <2>4, <2>5
<1>1. QueueTypes'
  BY <1>0 DEF MemoryInv, QueueTypes
<1>2. ASSUME NEW u \in Agent PROVE RowFits(u)'
  <2>1. RowFits(u)
    BY DEF MemoryInv
  <2>. QED
    BY <2>1, <1>0, EnqueueType, RowType DEF RowFits, Mine
<1>3. ASSUME NEW i \in DOMAIN missions' PROVE MissionFits(i)'
  <2>1. MissionFits(i) /\ i \in DOMAIN missions /\ missions[i].task \in Agent
    BY <1>0, TaskType DEF MemoryInv
  <2> DEFINE u == missions'[i].task
  <2>a. /\ row'[u].mission = i /\ enqueue'[u] \in {"persisted", "sending", "ok", "given up"}
        /\ missions'[i].status = "reserved" <=> enqueue'[u] = "persisted"
        /\ missions'[i].status = "claimed" => \E w \in InProcess : holds'[w].at # "free" /\ holds'[w].id = i
        /\ missions'[i].status \in {"completed", "failed"} => row'[u].status # "Queued" /\ enqueue'[u] = "ok"
        /\ missions'[i].status = "cancelled" /\ row'[u].status = "Queued" =>
                 (\E k \in killing' : k[1] = u) \/ (\E v \in Agent \ {u} : row'[v].mission = i)
    BY <1>0, EnqueueType, RowType, <2>1 DEF MissionFits
  <2>c. missions'[i].status = "pending" /\ enqueue'[u] = "ok" => \E n \in DOMAIN channel' : channel'[n] = i
    <3>1. CASE u = t
      <4>1. i = row[t].mission
        BY <3>1, <1>0, <2>1 DEF MissionFits
      <4>. QED
        BY <4>1, <1>0
    <3>2. CASE u # t
      BY <3>2, <1>0, EnqueueType, <2>1, ZenonT(60) DEF MissionFits
    <3>. QED
      BY <3>1, <3>2
  <2>. QED
    BY <2>a, <2>c DEF MissionFits
<1>4. ASSUME NEW n \in DOMAIN channel' PROVE PlaceFits(n)'
  <2>1. \A m \in DOMAIN channel : channel[m] # row[t].mission /\ PlaceFits(m)
    BY <1>0, TaskType DEF MemoryInv, PlaceFits
  <2>2. \A w \in InProcess : holds[w].at # "free" => holds[w].id # row[t].mission
    BY <1>0, Holder
  <2>3. CASE n \in DOMAIN channel
    <3>1. PlaceFits(n) /\ channel'[n] = channel[n] /\ channel[n] # row[t].mission
      BY <2>1, <2>3, <1>0
    <3>2. \A m \in DOMAIN channel' : channel'[m] = channel'[n] => m = n
      BY <3>1, <2>1, <2>3, <1>0 DEF PlaceFits
    <3>. QED
      BY <3>1, <3>2, <1>0, EnqueueType, TaskType, ZenonT(60) DEF PlaceFits
  <2>4. CASE n = Len(channel) + 1
    <3>1. \A m \in DOMAIN channel' : channel'[m] = channel'[n] => m = n
      BY <2>1, <2>4, <1>0
    <3>2. missions[row[t].mission].status \in {"pending", "cancelled"}
      <4>1. MissionFits(row[t].mission) /\ missions[row[t].mission] \in MemoryMission
        BY <1>0, MissionType DEF MemoryInv
      <4>2. missions[row[t].mission].status \notin {"reserved", "claimed", "completed", "failed"}
        BY <4>1, <1>0, <2>2 DEF MissionFits
      <4>. QED
        BY <4>1, <4>2 DEF MemoryMission
    <3>. QED
      <4>1. /\ channel'[n] = row[t].mission /\ missions'[channel'[n]] = missions[row[t].mission]
            /\ enqueue'[missions'[channel'[n]].task] = "ok" /\ channel'[n] \in DOMAIN missions'
        BY <2>4, <1>0, EnqueueType, ZenonT(60)
      <4>2. \A w \in InProcess : holds'[w].at # "free" => holds'[w].id # channel'[n]
        BY <4>1, <2>2, <1>0
      <4>. QED
        BY <3>1, <3>2, <4>1, <4>2 DEF PlaceFits
  <2>. QED
    BY <2>3, <2>4, <1>0
<1>5. ASSUME NEW v \in InProcess PROVE HoldFits(v)'
  <2>1. HoldFits(v)
    BY DEF MemoryInv
  <2>2. /\ holds[v].at # "free" => holds[v].id \in DOMAIN missions /\ holds[v].task \in Agent
        /\ holds[v].at \in {"check", "work"} => holds[v].at # "free"
    BY Holder
  <2>. QED
    BY <2>1, <2>2, <1>0, EnqueueType, HoldsType DEF HoldFits
<1>6. ASSUME NEW kk \in killing' PROVE KillFits(kk)'
  <2>1. KillFits(kk) /\ kk[1] \in Agent
    BY <1>0, KillType DEF MemoryInv
  <2>. QED
    BY <2>1, <1>0, EnqueueType, RowType DEF KillFits
<1>7. NothingYet'
  <2>1. serving'
    BY <1>0
  <2>. QED
    BY <2>1 DEF NothingYet
<1>. QED
  BY <1>1, <1>2, <1>3, <1>4, <1>5, <1>6, <1>7 DEF MemoryInv

\* A mission is put into the map.
LEMMA PutPendingStep ==
  ASSUME MemoryInv, NEW t \in Agent, PutPending(t)
  PROVE  MemoryInv'
<1>r. RowFits(t) /\ Mine(t)
  BY DEF MemoryInv, RowFits, PutPending
<1>i. PICK x \in DOMAIN missions : x = row[t].mission /\ missions[x].task = t /\ SetMission(x, "pending")
  BY <1>r DEF Mine, PutPending
<1>0. /\ enqueue[t] = "persisted" /\ enqueue' = [enqueue EXCEPT ![t] = "sending"]
      /\ row' = row /\ channel' = channel /\ holds' = holds /\ killing' = killing
      /\ serving' = serving /\ serving /\ row[t].mission = x /\ missions[x].task = t
      /\ missions' \in Seq(MemoryMission) /\ Len(missions') = Len(missions) /\ DOMAIN missions' = DOMAIN missions
      /\ \A j \in DOMAIN missions : missions'[j].task = missions[j].task /\ (j # x => missions'[j] = missions[j])
      /\ missions'[x].status = "pending"
  <2>1. missions \in Seq(MemoryMission)
    BY DEF MemoryInv, QueueTypes
  <2>2. /\ enqueue[t] = "persisted" /\ enqueue' = [enqueue EXCEPT ![t] = "sending"]
        /\ row' = row /\ channel' = channel /\ holds' = holds /\ killing' = killing
        /\ serving' = serving /\ serving
    BY DEF PutPending, MemoryInv, NothingYet
  <2>. QED
    BY <1>i, <2>1, <2>2, MissionSet
<1>1. QueueTypes'
  BY <1>0 DEF MemoryInv, QueueTypes
<1>2. ASSUME NEW u \in Agent PROVE RowFits(u)'
  <2>1. RowFits(u)
    BY DEF MemoryInv
  <2>. QED
    BY <2>1, <1>0, EnqueueType, RowType DEF RowFits, Mine
<1>3. ASSUME NEW i \in DOMAIN missions' PROVE MissionFits(i)'
  <2>1. MissionFits(i) /\ i \in DOMAIN missions /\ missions[i].task \in Agent
    BY <1>0, TaskType DEF MemoryInv
  <2> DEFINE u == missions'[i].task
  <2>a. /\ row'[u].mission = i /\ enqueue'[u] \in {"persisted", "sending", "ok", "given up"}
        /\ missions'[i].status = "pending" /\ enqueue'[u] = "ok" => \E n \in DOMAIN channel' : channel'[n] = i
        /\ missions'[i].status = "claimed" => \E w \in InProcess : holds'[w].at # "free" /\ holds'[w].id = i
        /\ missions'[i].status \in {"completed", "failed"} => row'[u].status # "Queued" /\ enqueue'[u] = "ok"
    BY <1>0, EnqueueType, RowType, <2>1 DEF MissionFits
  <2>b. missions'[i].status = "reserved" <=> enqueue'[u] = "persisted"
    <3>1. CASE i = x
      BY <3>1, <1>0, EnqueueType, <2>1
    <3>2. CASE i # x
      <4>1. u # t
        BY <3>2, <1>0, <2>1 DEF MissionFits
      <4>. QED
        BY <3>2, <4>1, <1>0, EnqueueType, <2>1 DEF MissionFits
    <3>. QED
      BY <3>1, <3>2
  <2>f. missions'[i].status = "cancelled" /\ row'[u].status = "Queued" =>
         (\E k \in killing' : k[1] = u) \/ (\E v \in Agent \ {u} : row'[v].mission = i)
    <3>1. CASE i = x
      BY <3>1, <1>0, <2>1
    <3>2. CASE i # x
      BY <3>2, <1>0, <2>1 DEF MissionFits
    <3>. QED
      BY <3>1, <3>2
  <2>. QED
    BY <2>a, <2>b, <2>f DEF MissionFits
<1>4. ASSUME NEW n \in DOMAIN channel' PROVE PlaceFits(n)'
  <2>0. PlaceFits(n)
    BY <1>0 DEF MemoryInv
  <2>1. PlaceFits(n) /\ channel[n] \in DOMAIN missions /\ missions[channel[n]].task \in Agent /\ channel[n] # x
    BY <2>0, <1>0, TaskType DEF PlaceFits
  <2>. QED
    BY <2>1, <1>0, EnqueueType, Holder DEF PlaceFits
<1>5. ASSUME NEW v \in InProcess PROVE HoldFits(v)'
  <2>1. HoldFits(v)
    BY DEF MemoryInv
  <2>2. /\ holds[v].at # "free" => holds[v].id \in DOMAIN missions /\ holds[v].task \in Agent
        /\ holds[v].at \in {"check", "work"} => holds[v].at # "free"
    BY Holder
  <2>. QED
    BY <2>1, <2>2, <1>0, EnqueueType, HoldsType DEF HoldFits
<1>6. ASSUME NEW kk \in killing' PROVE KillFits(kk)'
  <2>1. KillFits(kk) /\ kk[1] \in Agent
    BY <1>0, KillType DEF MemoryInv
  <2>. QED
    BY <2>1, <1>0, EnqueueType, RowType DEF KillFits
<1>7. NothingYet'
  BY <1>0 DEF NothingYet
<1>. QED
  BY <1>1, <1>2, <1>3, <1>4, <1>5, <1>6, <1>7 DEF MemoryInv

\* A request to kill begins.
LEMMA KillStep ==
  ASSUME MemoryInv, NEW t \in Agent, Kill(t)
  PROVE  MemoryInv'
<1>0. /\ enqueue' = enqueue /\ row' = row /\ missions' = missions /\ channel' = channel /\ holds' = holds
      /\ serving' = serving /\ serving
      /\ killing' = killing \cup {<<t, row[t].mission, "cancel">>} /\ row[t].status \in {"Queued", "Running"}
      /\ row[t].mission \in Nat
  BY RowType DEF Kill, MemoryRow
<1>1. QueueTypes'
  <2>1. <<t, row[t].mission, "cancel">> \in Agent \X Nat \X {"cancel", "mark"}
    BY <1>0
  <2>. QED
    BY <1>0, <2>1 DEF MemoryInv, QueueTypes
<1>2. ASSUME NEW u \in Agent PROVE RowFits(u)'
  <2>1. RowFits(u)
    BY DEF MemoryInv
  <2>. QED
    BY <2>1, <1>0, EnqueueType, RowType DEF RowFits, Mine
<1>3. ASSUME NEW i \in DOMAIN missions' PROVE MissionFits(i)'
  <2>1. MissionFits(i) /\ i \in DOMAIN missions /\ missions[i].task \in Agent
    BY <1>0, TaskType DEF MemoryInv
  <2>. QED
    BY <1>0, EnqueueType, RowType, <2>1 DEF MissionFits
<1>4. ASSUME NEW n \in DOMAIN channel' PROVE PlaceFits(n)'
  <2>1. PlaceFits(n)
    BY <1>0 DEF MemoryInv
  <2>2. channel[n] \in DOMAIN missions /\ missions[channel[n]].task \in Agent
    BY <2>1, TaskType DEF PlaceFits
  <2>. QED
    BY <2>1, <2>2, <1>0, EnqueueType, Holder DEF PlaceFits
<1>5. ASSUME NEW v \in InProcess PROVE HoldFits(v)'
  <2>1. HoldFits(v)
    BY DEF MemoryInv
  <2>2. /\ holds[v].at # "free" => holds[v].id \in DOMAIN missions /\ holds[v].task \in Agent
        /\ holds[v].at \in {"check", "work"} => holds[v].at # "free"
    BY Holder
  <2>. QED
    BY <2>1, <2>2, <1>0, EnqueueType, HoldsType DEF HoldFits
<1>6. ASSUME NEW kk \in killing' PROVE KillFits(kk)'
  <2>1. CASE kk \in killing
    BY <2>1, <1>0 DEF MemoryInv, KillFits
  <2>2. CASE kk = <<t, row[t].mission, "cancel">>
    <3>1. kk[1] = t /\ kk[2] = row[t].mission
      BY <2>2
    <3>2. enqueue[t] # "none"
      BY <1>0 DEF MemoryInv, RowFits
    <3>. QED
      BY <3>1, <3>2, <1>0 DEF KillFits
  <2>. QED
    BY <2>1, <2>2, <1>0
<1>7. NothingYet'
  BY <1>0 DEF NothingYet
<1>. QED
  BY <1>1, <1>2, <1>3, <1>4, <1>5, <1>6, <1>7 DEF MemoryInv

\* A kill marks the row.
LEMMA MarkStoppedStep ==
  ASSUME MemoryInv, NEW q \in killing, MarkStopped(q)
  PROVE  MemoryInv'
<1>0. /\ enqueue' = enqueue /\ missions' = missions /\ channel' = channel /\ holds' = holds
      /\ serving' = serving /\ serving /\ q[1] \in Agent
      /\ killing' = killing \ {q} /\ row' \in [Agent -> MemoryRow]
      /\ \A u \in Agent : /\ row'[u].mission = row[u].mission
                          /\ row'[u].status = "none" <=> row[u].status = "none"
                          /\ row'[u].status = "Queued" => row[u].status = "Queued"
                          /\ u # q[1] => row'[u] = row[u]
      /\ row'[q[1]].status # "Queued"
  <2>1. /\ enqueue' = enqueue /\ missions' = missions /\ channel' = channel /\ holds' = holds
        /\ serving' = serving /\ serving /\ killing' = killing \ {q}
        /\ Mark(q[1], {"Queued", "Running"}, "Stopped")
    BY DEF MarkStopped, MemoryInv, NothingYet
  <2>2. q[1] \in Agent
    BY KillType
  <2> DEFINE t == q[1]
  <2>3. /\ row' \in [Agent -> MemoryRow]
        /\ \A u \in Agent : /\ row'[u].mission = row[u].mission
                            /\ row'[u].status = "none" <=> row[u].status = "none"
                            /\ row'[u].status = "Queued" => row[u].status = "Queued"
                            /\ u # t => row'[u] = row[u]
        /\ row[t].status \in {"Queued", "Running"} => row'[t].status = "Stopped"
        /\ row[t].status \notin {"Queued", "Running"} => row' = row
    BY RowType, <2>1, <2>2, MarkRow
  <2>. QED
    BY <2>1, <2>2, <2>3
<1>1. QueueTypes'
  BY <1>0 DEF MemoryInv, QueueTypes
<1>2. ASSUME NEW u \in Agent PROVE RowFits(u)'
  <2>1. RowFits(u)
    BY DEF MemoryInv
  <2>. QED
    BY <2>1, <1>0, EnqueueType, RowType DEF RowFits, Mine
<1>3. ASSUME NEW i \in DOMAIN missions' PROVE MissionFits(i)'
  <2>1. MissionFits(i) /\ i \in DOMAIN missions /\ missions[i].task \in Agent
    BY <1>0, TaskType DEF MemoryInv
  <2> DEFINE u == missions'[i].task
  <2>a. /\ row'[u].mission = i /\ enqueue'[u] \in {"persisted", "sending", "ok", "given up"}
        /\ missions'[i].status = "reserved" <=> enqueue'[u] = "persisted"
        /\ missions'[i].status = "pending" /\ enqueue'[u] = "ok" => \E n \in DOMAIN channel' : channel'[n] = i
        /\ missions'[i].status = "claimed" => \E w \in InProcess : holds'[w].at # "free" /\ holds'[w].id = i
        /\ missions'[i].status \in {"completed", "failed"} => row'[u].status # "Queued" /\ enqueue'[u] = "ok"
    BY <1>0, EnqueueType, RowType, <2>1 DEF MissionFits
  <2>f. missions'[i].status = "cancelled" /\ row'[u].status = "Queued" =>
         (\E k \in killing' : k[1] = u) \/ (\E v \in Agent \ {u} : row'[v].mission = i)
    <3>1. CASE \E kk \in killing : kk[1] = u
      BY <3>1, <1>0, <2>1
    <3>2. CASE \E v \in Agent \ {u} : row[v].mission = i
      BY <3>2, <1>0, <2>1
    <3>. QED
      BY <1>0, <2>1, <3>1, <3>2 DEF MissionFits
  <2>. QED
    BY <2>a, <2>f DEF MissionFits
<1>4. ASSUME NEW n \in DOMAIN channel' PROVE PlaceFits(n)'
  <2>1. PlaceFits(n)
    BY <1>0 DEF MemoryInv
  <2>2. channel[n] \in DOMAIN missions /\ missions[channel[n]].task \in Agent
    BY <2>1, TaskType DEF PlaceFits
  <2>. QED
    BY <2>1, <2>2, <1>0, EnqueueType, Holder DEF PlaceFits
<1>5. ASSUME NEW v \in InProcess PROVE HoldFits(v)'
  <2>1. HoldFits(v) /\ (holds[v].at \in {"check", "work"} => holds[v].task \in Agent /\ row[holds[v].task].status # "Queued")
    BY Holder DEF MemoryInv, HoldFits
  <2>2. holds'[v].at \in {"check", "work"} => row'[holds'[v].task].status # "Queued"
    BY <2>1, <1>0
  <2>. QED
    BY <2>1, <2>2, <1>0 DEF HoldFits
<1>6. ASSUME NEW kk \in killing' PROVE KillFits(kk)'
  <2>1. KillFits(kk) /\ kk[1] \in Agent
    BY <1>0, KillType DEF MemoryInv
  <2>. QED
    BY <2>1, <1>0 DEF KillFits
<1>7. NothingYet'
  BY <1>0 DEF NothingYet
<1>. QED
  BY <1>1, <1>2, <1>3, <1>4, <1>5, <1>6, <1>7 DEF MemoryInv

\* A row is inserted, and its mission reserved.
LEMMA PersistStep ==
  ASSUME MemoryInv, NEW t \in Agent, Persist(t)
  PROVE  MemoryInv'
<1>0. /\ enqueue[t] = "none" /\ enqueue' = [enqueue EXCEPT ![t] = "persisted"]
      /\ row[t].status = "none" /\ row[t].mission = 0 /\ serving
      /\ row' \in [Agent -> MemoryRow] /\ row'[t].status = "Queued" /\ row'[t].mission = Len(missions) + 1
      /\ \A u \in Agent \ {t} : row'[u] = row[u]
      /\ channel' = channel /\ holds' = holds /\ killing' = killing /\ serving' = serving
      /\ missions' \in Seq(MemoryMission) /\ DOMAIN missions' = DOMAIN missions \cup {Len(missions) + 1}
      /\ Len(missions) + 1 \notin DOMAIN missions /\ Len(missions) + 1 \in Nat
      /\ missions'[Len(missions) + 1].task = t /\ missions'[Len(missions) + 1].status = "reserved"
      /\ \A i \in DOMAIN missions : missions'[i] = missions[i]
  <2>1. /\ enqueue[t] = "none" /\ enqueue' = [enqueue EXCEPT ![t] = "persisted"] /\ serving
        /\ row' = [row EXCEPT ![t] = [status |-> "Queued", mission |-> Len(missions) + 1]]
        /\ missions' = Append(missions, [status |-> "reserved", task |-> t])
        /\ channel' = channel /\ holds' = holds /\ killing' = killing /\ serving' = serving
    BY DEF Persist
  <2>2. RowFits(t)
    BY DEF MemoryInv
  <2>3. row[t].status = "none" /\ row[t].mission = 0
    BY <2>1, <2>2 DEF RowFits
  <2>4. [status |-> "Queued", mission |-> Len(missions) + 1] \in MemoryRow
    BY MissionType DEF MemoryRow
  <2>5. /\ row' \in [Agent -> MemoryRow] /\ row'[t].status = "Queued" /\ row'[t].mission = Len(missions) + 1
        /\ \A u \in Agent \ {t} : row'[u] = row[u]
    BY <2>1, <2>4, RowType
  <2>6. missions \in Seq(MemoryMission) /\ [status |-> "reserved", task |-> t] \in MemoryMission
    BY DEF MemoryInv, QueueTypes, MemoryMission
  <2> DEFINE m == [status |-> "reserved", task |-> t]
  <2>7. m.status = "reserved" /\ m.task = t /\ m \in MemoryMission
    BY <2>6
  <2> HIDE DEF m
  <2>8. missions' = Append(missions, m)
    BY <2>1 DEF m
  <2>9. /\ missions' \in Seq(MemoryMission) /\ DOMAIN missions' = DOMAIN missions \cup {Len(missions) + 1}
        /\ Len(missions) + 1 \notin DOMAIN missions /\ Len(missions) + 1 \in Nat
        /\ missions'[Len(missions) + 1] = m
        /\ \A i \in DOMAIN missions : missions'[i] = missions[i]
    BY <2>6, <2>7, <2>8
  <2>. QED
    BY <2>1, <2>3, <2>5, <2>7, <2>9
<1>1. QueueTypes'
  BY <1>0 DEF MemoryInv, QueueTypes
<1>2. ASSUME NEW u \in Agent PROVE RowFits(u)'
  <2>1. RowFits(u)
    BY DEF MemoryInv
  <2>. QED
    BY <2>1, <1>0, EnqueueType, RowType DEF RowFits, Mine
<1>3. ASSUME NEW i \in DOMAIN missions' PROVE MissionFits(i)'
  <2>1. CASE i = Len(missions) + 1
    <3>1. missions'[i].task = t /\ missions'[i].status = "reserved" /\ row'[t].mission = i /\ enqueue'[t] = "persisted"
      BY <2>1, <1>0, EnqueueType
    <3>. QED
      BY <3>1 DEF MissionFits
  <2>2. CASE i \in DOMAIN missions
    <3>1. MissionFits(i) /\ missions'[i] = missions[i] /\ missions[i].task \in Agent
      BY <2>2, <1>0, TaskType DEF MemoryInv
    <3> DEFINE u == missions[i].task
    <3>2. u # t
      BY <3>1, <1>0 DEF MissionFits
    <3>3. enqueue'[u] = enqueue[u] /\ row'[u] = row[u]
      BY <3>1, <3>2, <1>0, EnqueueType
    <3>4. ASSUME NEW v \in Agent \ {u}, row[v].mission = i
          PROVE  row'[v].mission = i
      <4>1. v # t
        BY <3>4, <2>2, <1>0, MissionType
      <4>. QED
        BY <3>4, <4>1, <1>0
    <3>. QED
      BY <3>1, <3>3, <3>4, <1>0, ZenonT(60) DEF MissionFits
  <2>. QED
    BY <2>1, <2>2, <1>0
<1>4. ASSUME NEW n \in DOMAIN channel' PROVE PlaceFits(n)'
  <2>1. PlaceFits(n)
    BY <1>0 DEF MemoryInv
  <2>2. channel[n] \in DOMAIN missions /\ missions[channel[n]].task \in Agent
    BY <2>1, TaskType DEF PlaceFits
  <2>. QED
    BY <2>1, <2>2, <1>0, EnqueueType, Holder DEF PlaceFits
<1>5. ASSUME NEW v \in InProcess PROVE HoldFits(v)'
  <2>1. HoldFits(v)
    BY DEF MemoryInv
  <2>2. /\ holds[v].at # "free" => holds[v].id \in DOMAIN missions /\ holds[v].task \in Agent
        /\ holds[v].at \in {"check", "work"} => holds[v].at # "free"
    BY Holder
  <2>. QED
    BY <2>1, <2>2, <1>0, EnqueueType, HoldsType DEF HoldFits
<1>6. ASSUME NEW kk \in killing' PROVE KillFits(kk)'
  <2>1. KillFits(kk) /\ kk[1] \in Agent
    BY <1>0, KillType DEF MemoryInv
  <2>. QED
    BY <2>1, <1>0, EnqueueType, RowType DEF KillFits
<1>7. NothingYet'
  BY <1>0 DEF NothingYet
<1>. QED
  BY <1>1, <1>2, <1>3, <1>4, <1>5, <1>6, <1>7 DEF MemoryInv

\* A kill cancels the mission.
LEMMA CancelStep ==
  ASSUME MemoryInv, NEW q \in killing, Cancel(q)
  PROVE  MemoryInv'
<1>0. /\ enqueue' = enqueue /\ row' = row /\ channel' = channel /\ holds' = holds
      /\ serving' = serving /\ serving /\ q[1] \in Agent /\ q[2] = row[q[1]].mission /\ enqueue[q[1]] # "none"
      /\ killing' = (killing \ {q}) \cup {<<q[1], q[2], "mark">>}
      /\ missions' \in Seq(MemoryMission) /\ Len(missions') = Len(missions) /\ DOMAIN missions' = DOMAIN missions
      /\ \A j \in DOMAIN missions : missions'[j].task = missions[j].task
      /\ \A j \in DOMAIN missions : \/ missions'[j] = missions[j]
                                    \/ /\ j = q[2] /\ missions'[j].status = "cancelled"
                                       /\ missions[j].status \in {"pending", "claimed"}
  <2>1. /\ enqueue' = enqueue /\ row' = row /\ channel' = channel /\ holds' = holds
        /\ serving' = serving /\ serving
        /\ killing' = (killing \ {q}) \cup {<<q[1], q[2], "mark">>}
    BY DEF Cancel, MemoryInv, NothingYet
  <2>2. q[1] \in Agent /\ q[2] = row[q[1]].mission /\ enqueue[q[1]] # "none"
    BY KillType DEF MemoryInv, KillFits
  <2>3. missions \in Seq(MemoryMission)
    BY DEF MemoryInv, QueueTypes
  <2>4. CASE Known(q[2]) /\ missions[q[2]].status \in {"pending", "claimed"}
    <3>1. q[2] \in DOMAIN missions /\ SetMission(q[2], "cancelled")
      BY <2>4 DEF Cancel, Known
    <3>2. /\ missions' \in Seq(MemoryMission) /\ Len(missions') = Len(missions) /\ DOMAIN missions' = DOMAIN missions
          /\ \A j \in DOMAIN missions : missions'[j].task = missions[j].task /\ (j # q[2] => missions'[j] = missions[j])
          /\ missions'[q[2]].status = "cancelled"
      BY <3>1, <2>3, MissionSet
    <3>. QED
      BY <2>1, <2>2, <2>4, <3>2
  <2>5. CASE ~(Known(q[2]) /\ missions[q[2]].status \in {"pending", "claimed"})
    <3>1. missions' = missions
      BY <2>5 DEF Cancel
    <3>. QED
      BY <2>1, <2>2, <2>3, <3>1
  <2>. QED
    BY <2>4, <2>5
<1>1. QueueTypes'
  <2>1. QueueTypes /\ q \in Agent \X Nat \X {"cancel", "mark"}
    BY DEF MemoryInv, QueueTypes
  <2>2. <<q[1], q[2], "mark">> \in Agent \X Nat \X {"cancel", "mark"}
    BY <2>1
  <2>. QED
    BY <2>1, <2>2, <1>0 DEF QueueTypes
<1>2. ASSUME NEW u \in Agent PROVE RowFits(u)'
  <2>1. RowFits(u)
    BY DEF MemoryInv
  <2>. QED
    BY <2>1, <1>0, EnqueueType, RowType DEF RowFits, Mine
<1>3. ASSUME NEW i \in DOMAIN missions' PROVE MissionFits(i)'
  <2>1. MissionFits(i) /\ i \in DOMAIN missions /\ missions[i].task \in Agent
    BY <1>0, TaskType DEF MemoryInv
  <2> DEFINE u == missions'[i].task
  <2>a. /\ row'[u].mission = i /\ enqueue'[u] \in {"persisted", "sending", "ok", "given up"}
        /\ missions'[i].status = "reserved" <=> enqueue'[u] = "persisted"
        /\ missions'[i].status = "pending" /\ enqueue'[u] = "ok" => \E n \in DOMAIN channel' : channel'[n] = i
        /\ missions'[i].status = "claimed" => \E w \in InProcess : holds'[w].at # "free" /\ holds'[w].id = i
        /\ missions'[i].status \in {"completed", "failed"} => row'[u].status # "Queued" /\ enqueue'[u] = "ok"
    BY <1>0, EnqueueType, RowType, <2>1 DEF MissionFits
  <2>f. missions'[i].status = "cancelled" /\ row'[u].status = "Queued" =>
         (\E k \in killing' : k[1] = u) \/ (\E v \in Agent \ {u} : row'[v].mission = i)
    <3>1. CASE \E kk \in killing : kk[1] = u
      <4>1. PICK kk \in killing : kk[1] = u
        BY <3>1
      <4>2. CASE kk = q
        <5>1. <<q[1], q[2], "mark">> \in killing' /\ <<q[1], q[2], "mark">>[1] = u
          BY <4>1, <4>2, <1>0
        <5>. QED
          BY <5>1
      <4>. QED
        BY <4>1, <4>2, <1>0
    <3>2. CASE \E v \in Agent \ {u} : row[v].mission = i
      BY <3>2, <1>0, <2>1
    <3>3. CASE missions'[i] = missions[i]
      BY <3>3, <1>0, <2>1, <3>1, <3>2 DEF MissionFits
    <3>4. CASE i = q[2]
      <4>1. CASE q[1] = u
        BY <4>1, <3>1
      <4>2. CASE q[1] # u
        BY <4>2, <3>4, <3>2, <1>0
      <4>. QED
        BY <4>1, <4>2
    <3>. QED
      BY <2>1, <1>0, <3>3, <3>4
  <2>. QED
    BY <2>a, <2>f DEF MissionFits
<1>4. ASSUME NEW n \in DOMAIN channel' PROVE PlaceFits(n)'
  <2>1. PlaceFits(n)
    BY <1>0 DEF MemoryInv
  <2>2. channel[n] \in DOMAIN missions /\ missions[channel[n]].task \in Agent
    BY <2>1, TaskType DEF PlaceFits
  <2>. QED
    BY <2>1, <2>2, <1>0, EnqueueType, Holder DEF PlaceFits
<1>5. ASSUME NEW v \in InProcess PROVE HoldFits(v)'
  <2>1. HoldFits(v)
    BY DEF MemoryInv
  <2>2. /\ holds[v].at # "free" => holds[v].id \in DOMAIN missions /\ holds[v].task \in Agent
        /\ holds[v].at \in {"check", "work"} => holds[v].at # "free"
    BY Holder
  <2>. QED
    BY <2>1, <2>2, <1>0, EnqueueType, HoldsType DEF HoldFits
<1>6. ASSUME NEW kk \in killing' PROVE KillFits(kk)'
  <2>1. CASE kk \in killing
    BY <2>1, <1>0 DEF MemoryInv, KillFits
  <2>2. CASE kk = <<q[1], q[2], "mark">>
    <3>1. kk[1] = q[1] /\ kk[2] = q[2]
      BY <2>2
    <3>. QED
      BY <3>1, <1>0 DEF KillFits
  <2>. QED
    BY <2>1, <2>2, <1>0
<1>7. NothingYet'
  BY <1>0 DEF NothingYet
<1>. QED
  BY <1>1, <1>2, <1>3, <1>4, <1>5, <1>6, <1>7 DEF MemoryInv

\* The daemon restarts.
LEMMA RestartStep ==
  ASSUME MemoryInv, Restart
  PROVE  MemoryInv'
<1>0. /\ serving' = FALSE /\ missions' = <<>> /\ channel' = <<>> /\ killing' = {} /\ holds' = [w \in InProcess |-> Free]
      /\ enqueue' = [t \in Agent |-> IF enqueue[t] = "none" THEN "none" ELSE "given up"] /\ row' = row
  BY DEF Restart
<1>1. QueueTypes'
  <2>1. Free \in Holding
    BY DEF Free, Holding
  <2>2. holds' \in [InProcess -> Holding]
    BY <1>0, <2>1
  <2>3. missions' \in Seq(MemoryMission) /\ channel' \in Seq(Nat) /\ killing' \subseteq Agent \X Nat \X {"cancel", "mark"}
    <3>1. missions' = <<>> /\ channel' = <<>> /\ killing' = {}
      BY <1>0
    <3>. QED
      BY <3>1
  <2>4. enqueue' \in [Agent -> {"none", "persisted", "sending", "ok", "given up", "missed"}]
    BY <1>0
  <2>. QED
    BY <2>2, <2>3, <2>4, <1>0, RowType DEF QueueTypes
<1>2. ASSUME NEW u \in Agent PROVE RowFits(u)'
  <2>1. RowFits(u)
    BY DEF MemoryInv
  <2>. QED
    BY <2>1, <1>0 DEF RowFits
<1>3. DOMAIN missions' = {} /\ DOMAIN channel' = {} /\ killing' = {}
  <2>1. missions' = <<>> /\ channel' = <<>> /\ killing' = {}
    BY <1>0
  <2>. QED
    BY <2>1
<1>4. ASSUME NEW v \in InProcess PROVE HoldFits(v)'
  <2>1. holds'[v] = Free /\ Free.at = "free"
    BY <1>0 DEF Free
  <2>. QED
    BY <2>1 DEF HoldFits
<1>5. NothingYet'
  BY <1>0 DEF NothingYet
<1>. QED
  BY <1>1, <1>2, <1>3, <1>4, <1>5 DEF MemoryInv

\* The daemon reconciles.
LEMMA ReconcileOrphanedStep ==
  ASSUME MemoryInv, ReconcileOrphaned
  PROVE  MemoryInv'
<1>0. /\ serving' = TRUE /\ ~serving /\ missions' = missions /\ channel' = channel /\ killing' = killing /\ holds' = holds
      /\ missions = <<>> /\ channel = <<>> /\ killing = {} /\ holds = [w \in InProcess |-> Free]
      /\ \A t \in Agent : enqueue[t] \in {"none", "given up", "missed"}
  BY DEF ReconcileOrphaned, MemoryInv, NothingYet
<1>1. PICK missed \in SUBSET ForgottenRows :
         /\ row' = [t \in Agent |-> IF t \in ForgottenRows \ missed THEN [row[t] EXCEPT !.status = "Failed"] ELSE row[t]]
         /\ enqueue' = [t \in Agent |-> IF t \in missed THEN "missed" ELSE enqueue[t]]
  BY DEF ReconcileOrphaned
<1>2. ForgottenRows = {t \in Agent : row[t].status = "Queued"}
  <2>1. missions = <<>>
    BY <1>0
  <2>2. DOMAIN missions = {}
    BY <2>1
  <2>. QED
    BY <2>2 DEF ForgottenRows, Known
<1>3. ASSUME NEW u \in Agent
      PROVE  /\ row'[u] \in MemoryRow /\ row'[u].mission = row[u].mission /\ (row'[u].status = "none" <=> row[u].status = "none")
             /\ row'[u].status = "Queued" => enqueue'[u] = "missed"
             /\ enqueue'[u] = enqueue[u] \/ (enqueue'[u] = "missed" /\ row[u].status = "Queued")
  <2>1. row[u] \in [status : {"none", "Queued", "Running", "Completed", "Failed", "Stopped"}, mission : Nat]
    BY RowType DEF MemoryRow
  <2>2. row'[u] = IF u \in ForgottenRows \ missed THEN [row[u] EXCEPT !.status = "Failed"] ELSE row[u]
    BY <1>1
  <2>3. enqueue'[u] = IF u \in missed THEN "missed" ELSE enqueue[u]
    BY <1>1
  <2>. QED
    BY <1>2, <2>1, <2>2, <2>3 DEF MemoryRow
<1>4. QueueTypes'
  <2>1. row' \in [Agent -> MemoryRow]
    <3>1. row' = [t \in Agent |-> row'[t]]
      BY <1>1
    <3>. QED
      BY <3>1, <1>3
  <2>2. enqueue' \in [Agent -> {"none", "persisted", "sending", "ok", "given up", "missed"}]
    BY <1>1, EnqueueType
  <2>. QED
    BY <2>1, <2>2, <1>0 DEF MemoryInv, QueueTypes
<1>5. ASSUME NEW u \in Agent PROVE RowFits(u)'
  <2>1. RowFits(u) /\ enqueue[u] \in {"none", "given up", "missed"}
    BY <1>0 DEF MemoryInv
  <2>. QED
    BY <2>1, <1>3 DEF RowFits
<1>6. DOMAIN missions' = {} /\ DOMAIN channel' = {} /\ killing' = {}
  <2>1. missions' = <<>> /\ channel' = <<>> /\ killing' = {}
    BY <1>0
  <2>. QED
    BY <2>1
<1>7. ASSUME NEW v \in InProcess PROVE HoldFits(v)'
  <2>1. holds'[v] = Free /\ Free.at = "free"
    BY <1>0 DEF Free
  <2>. QED
    BY <2>1 DEF HoldFits
<1>8. NothingYet'
  <2>1. serving'
    BY <1>0
  <2>. QED
    BY <2>1 DEF NothingYet
<1>. QED
  BY <1>4, <1>5, <1>6, <1>7, <1>8 DEF MemoryInv

\* A worker goes on with its mission, and the agent is not queued any more.
LEMMA HolderGoesOn ==
  ASSUME MemoryInv, NEW b \in InProcess, holds[b].at # "free", NEW p \in {"check", "work"},
         missions' = missions, holds' = [holds EXCEPT ![b].at = p],
         row' \in [Agent -> MemoryRow],
         \A u \in Agent : /\ row'[u].mission = row[u].mission
                          /\ row'[u].status = "none" <=> row[u].status = "none"
                          /\ row'[u].status = "Queued" => row[u].status = "Queued",
         row'[holds[b].task].status # "Queued",
         enqueue' = enqueue, channel' = channel, killing' = killing, serving' = serving
  PROVE  MemoryInv'
<1>0. /\ row' \in [Agent -> MemoryRow] /\ serving
      /\ \A u \in Agent : /\ row'[u].mission = row[u].mission
                          /\ row'[u].status = "none" <=> row[u].status = "none"
                          /\ row'[u].status = "Queued" => row[u].status = "Queued"
      /\ row'[holds[b].task].status # "Queued"
      /\ enqueue' = enqueue /\ channel' = channel /\ killing' = killing /\ serving' = serving
      /\ missions' = missions /\ holds' \in [InProcess -> Holding]
      /\ holds'[b].at = p /\ \A v \in InProcess : /\ holds'[v].id = holds[v].id /\ holds'[v].task = holds[v].task
                                                  /\ v # b => holds'[v] = holds[v]
  <2>1. serving
    <3>1. Free.at = "free"
      BY DEF Free
    <3>. QED
      BY <3>1 DEF MemoryInv, NothingYet
  <2> DEFINE h == [holds[b] EXCEPT !.at = p]
  <2>2. h \in Holding /\ h.at = p /\ h.id = holds[b].id /\ h.task = holds[b].task
    BY HoldsType DEF Holding
  <2>3. holds' = [holds EXCEPT ![b] = h]
    OBVIOUS
  <2> HIDE DEF h
  <2>4. /\ holds' \in [InProcess -> Holding]
        /\ holds'[b].at = p /\ \A v \in InProcess : /\ holds'[v].id = holds[v].id /\ holds'[v].task = holds[v].task
                                                    /\ v # b => holds'[v] = holds[v]
    BY <2>2, <2>3, HoldsType
  <2>. QED
    BY <2>1, <2>4
<1>1. QueueTypes'
  BY <1>0 DEF MemoryInv, QueueTypes
<1>2. ASSUME NEW u \in Agent PROVE RowFits(u)'
  <2>1. RowFits(u)
    BY DEF MemoryInv
  <2>. QED
    BY <2>1, <1>0, EnqueueType, RowType DEF RowFits, Mine
<1>3. ASSUME NEW i \in DOMAIN missions' PROVE MissionFits(i)'
  <2>1. MissionFits(i) /\ i \in DOMAIN missions /\ missions[i].task \in Agent
    BY <1>0, TaskType DEF MemoryInv
  <2> DEFINE u == missions'[i].task
  <2>a. row'[u].mission = i /\ enqueue'[u] \in {"persisted", "sending", "ok", "given up"}
    BY <1>0, EnqueueType, RowType, <2>1 DEF MissionFits
  <2>b. missions'[i].status = "reserved" <=> enqueue'[u] = "persisted"
    BY <1>0, EnqueueType, RowType, <2>1 DEF MissionFits
  <2>c. missions'[i].status = "pending" /\ enqueue'[u] = "ok" => \E n \in DOMAIN channel' : channel'[n] = i
    BY <1>0, EnqueueType, RowType, <2>1, ZenonT(60) DEF MissionFits
  <2>d. missions'[i].status = "claimed" => \E w \in InProcess : holds'[w].at # "free" /\ holds'[w].id = i
    BY <1>0, EnqueueType, RowType, <2>1, ZenonT(60) DEF MissionFits
  <2>e. missions'[i].status \in {"completed", "failed"} => row'[u].status # "Queued" /\ enqueue'[u] = "ok"
    BY <1>0, EnqueueType, RowType, <2>1, ZenonT(60) DEF MissionFits
  <2>f. missions'[i].status = "cancelled" /\ row'[u].status = "Queued" =>
         (\E k \in killing' : k[1] = u) \/ (\E v \in Agent \ {u} : row'[v].mission = i)
    <3>1. CASE \E kk \in killing : kk[1] = u
      BY <3>1, <1>0, <2>1
    <3>2. CASE \E v \in Agent \ {u} : row[v].mission = i
      BY <3>2, <1>0, <2>1
    <3>3. missions[i].status = "cancelled" /\ row[u].status = "Queued" =>
             (\E k \in killing : k[1] = u) \/ (\E v \in Agent \ {u} : row[v].mission = i)
      <4>1. missions'[i].task = missions[i].task
        BY <1>0
      <4>. QED
        BY <2>1, <4>1 DEF MissionFits
    <3>. QED
      BY <1>0, <2>1, <3>1, <3>2, <3>3
  <2>. QED
    BY <2>a, <2>b, <2>c, <2>d, <2>e, <2>f DEF MissionFits
<1>4. ASSUME NEW n \in DOMAIN channel' PROVE PlaceFits(n)'
  <2>1. PlaceFits(n)
    BY <1>0 DEF MemoryInv
  <2>2. ASSUME NEW w \in InProcess, holds'[w].at # "free" PROVE holds'[w].id # channel'[n]
    BY <2>1, <2>2, <1>0 DEF PlaceFits
  <2>. QED
    BY <2>1, <2>2, <1>0 DEF PlaceFits
<1>5. ASSUME NEW v \in InProcess PROVE HoldFits(v)'
  <2>1. \A w \in InProcess : HoldFits(w) /\ (holds'[w].at # "free" => holds[w].at # "free")
    BY <1>0 DEF MemoryInv
  <2>2. holds'[v].at = "free" => holds'[v] = Free
    BY <2>1, <1>0 DEF HoldFits
  <2>3. holds'[v].at # "free" =>
         /\ holds'[v].id \in DOMAIN missions' /\ missions'[holds'[v].id].task = holds'[v].task
         /\ missions'[holds'[v].id].status \in {"claimed", "cancelled"} /\ enqueue'[holds'[v].task] = "ok"
    BY <2>1, <1>0 DEF HoldFits
  <2>4. ASSUME holds'[v].at # "free", NEW w \in InProcess, holds'[w].at # "free", holds'[w].id = holds'[v].id PROVE w = v
    BY <2>1, <2>4, <1>0 DEF HoldFits
  <2>5. holds'[v].at \in {"check", "work"} => row'[holds'[v].task].status # "Queued"
    <3>1. CASE v = b
      BY <3>1, <1>0
    <3>2. CASE v # b
      BY <3>2, <1>0, <2>1, Holder DEF HoldFits
    <3>. QED
      BY <3>1, <3>2
  <2>. QED
    BY <2>2, <2>3, <2>4, <2>5 DEF HoldFits
<1>6. ASSUME NEW kk \in killing' PROVE KillFits(kk)'
  <2>1. KillFits(kk) /\ kk[1] \in Agent
    BY <1>0, KillType DEF MemoryInv
  <2>. QED
    BY <2>1, <1>0, EnqueueType, RowType DEF KillFits
<1>7. NothingYet'
  <2>1. serving'
    BY <1>0
  <2>. QED
    BY <2>1 DEF NothingYet
<1>. QED
  BY <1>1, <1>2, <1>3, <1>4, <1>5, <1>6, <1>7 DEF MemoryInv

\* A worker ends its mission, and the agent is not queued any more.
LEMMA HolderEnds ==
  ASSUME MemoryInv, NEW b \in InProcess, holds[b].at # "free", NEW s \in {"completed", "failed"},
         End(b, s),
         row' \in [Agent -> MemoryRow],
         \A u \in Agent : /\ row'[u].mission = row[u].mission
                          /\ row'[u].status = "none" <=> row[u].status = "none"
                          /\ row'[u].status = "Queued" => row[u].status = "Queued",
         row'[holds[b].task].status # "Queued",
         enqueue' = enqueue, channel' = channel, killing' = killing, serving' = serving
  PROVE  MemoryInv'
<1>0. /\ row' \in [Agent -> MemoryRow] /\ serving
      /\ \A u \in Agent : /\ row'[u].mission = row[u].mission
                          /\ row'[u].status = "none" <=> row[u].status = "none"
                          /\ row'[u].status = "Queued" => row[u].status = "Queued"
      /\ row'[holds[b].task].status # "Queued"
      /\ enqueue' = enqueue /\ channel' = channel /\ killing' = killing /\ serving' = serving
      /\ holds' \in [InProcess -> Holding] /\ holds'[b] = Free /\ Free \in Holding /\ Free.at = "free"
      /\ \A v \in InProcess \ {b} : holds'[v] = holds[v]
      /\ holds[b].id \in DOMAIN missions
      /\ missions' \in Seq(MemoryMission) /\ Len(missions') = Len(missions) /\ DOMAIN missions' = DOMAIN missions
      /\ \A j \in DOMAIN missions : missions'[j].task = missions[j].task /\ (j # holds[b].id => missions'[j] = missions[j])
      /\ missions'[holds[b].id].status = s
  <2>1. Free \in Holding /\ Free.at = "free"
    BY DEF Free, Holding
  <2>2. holds' = [holds EXCEPT ![b] = Free] /\ SetMission(holds[b].id, s)
    BY DEF End
  <2>3. missions \in Seq(MemoryMission) /\ holds[b].id \in DOMAIN missions
    BY Holder DEF MemoryInv, QueueTypes
  <2>4. /\ missions' \in Seq(MemoryMission) /\ Len(missions') = Len(missions) /\ DOMAIN missions' = DOMAIN missions
        /\ \A j \in DOMAIN missions : missions'[j].task = missions[j].task /\ (j # holds[b].id => missions'[j] = missions[j])
        /\ missions'[holds[b].id].status = s
    BY <2>2, <2>3, MissionSet
  <2>5. serving
    BY <2>1 DEF MemoryInv, NothingYet
  <2>6. /\ holds' \in [InProcess -> Holding] /\ holds'[b] = Free
        /\ \A v \in InProcess \ {b} : holds'[v] = holds[v]
    BY <2>1, <2>2, HoldsType
  <2>. QED
    BY <2>1, <2>3, <2>4, <2>5, <2>6
<1>1. QueueTypes'
  BY <1>0 DEF MemoryInv, QueueTypes
<1>2. ASSUME NEW u \in Agent PROVE RowFits(u)'
  <2>1. RowFits(u)
    BY DEF MemoryInv
  <2>. QED
    BY <2>1, <1>0, EnqueueType, RowType, ZenonT(60) DEF RowFits, Mine
<1>3. ASSUME NEW i \in DOMAIN missions' PROVE MissionFits(i)'
  <2>1. MissionFits(i) /\ i \in DOMAIN missions /\ missions[i].task \in Agent
    BY <1>0, TaskType DEF MemoryInv
  <2> DEFINE u == missions'[i].task
  <2>a. row'[u].mission = i /\ enqueue'[u] \in {"persisted", "sending", "ok", "given up"}
    BY <1>0, EnqueueType, RowType, <2>1, ZenonT(60) DEF MissionFits
  <2>b. missions'[i].status = "reserved" <=> enqueue'[u] = "persisted"
    <3>1. CASE i = holds[b].id
      BY <3>1, <1>0, <2>1, Holder
    <3>2. CASE i # holds[b].id
      BY <3>2, <1>0, <2>1 DEF MissionFits
    <3>. QED
      BY <3>1, <3>2
  <2>c. missions'[i].status = "pending" /\ enqueue'[u] = "ok" => \E n \in DOMAIN channel' : channel'[n] = i
    <3>1. CASE i = holds[b].id
      BY <3>1, <1>0
    <3>2. CASE i # holds[b].id
      BY <3>2, <1>0, <2>1, ZenonT(60) DEF MissionFits
    <3>. QED
      BY <3>1, <3>2
  <2>d. missions'[i].status = "claimed" => \E w \in InProcess : holds'[w].at # "free" /\ holds'[w].id = i
    <3>1. ASSUME missions'[i].status = "claimed"
          PROVE  \E w \in InProcess : holds'[w].at # "free" /\ holds'[w].id = i
      <4>1. i # holds[b].id /\ missions'[i] = missions[i]
        BY <3>1, <2>1, <1>0
      <4>2. PICK w \in InProcess : holds[w].at # "free" /\ holds[w].id = i
        BY <3>1, <4>1, <2>1 DEF MissionFits
      <4>. QED
        BY <4>1, <4>2, <1>0
    <3>. QED
      BY <3>1
  <2>e. missions'[i].status \in {"completed", "failed"} => row'[u].status # "Queued" /\ enqueue'[u] = "ok"
    <3>1. CASE i = holds[b].id
      BY <3>1, <1>0, <2>1, Holder
    <3>2. CASE i # holds[b].id
      BY <3>2, <1>0, <2>1, ZenonT(60) DEF MissionFits
    <3>. QED
      BY <3>1, <3>2
  <2>f. missions'[i].status = "cancelled" /\ row'[u].status = "Queued" =>
         (\E k \in killing' : k[1] = u) \/ (\E v \in Agent \ {u} : row'[v].mission = i)
    <3>1. CASE i = holds[b].id
      BY <3>1, <1>0
    <3>2. CASE i # holds[b].id
      <4>1. CASE \E kk \in killing : kk[1] = u
        BY <4>1, <1>0, <2>1
      <4>2. CASE \E v \in Agent \ {u} : row[v].mission = i
        BY <4>2, <1>0, <2>1
      <4>3. missions[i].status = "cancelled" /\ row[u].status = "Queued" =>
               (\E k \in killing : k[1] = u) \/ (\E v \in Agent \ {u} : row[v].mission = i)
        <5>1. missions'[i].task = missions[i].task
          BY <1>0, <2>1
        <5>. QED
          BY <2>1, <5>1 DEF MissionFits
      <4>. QED
        BY <3>2, <1>0, <2>1, <4>1, <4>2, <4>3
    <3>. QED
      BY <3>1, <3>2
  <2>. QED
    BY <2>a, <2>b, <2>c, <2>d, <2>e, <2>f DEF MissionFits
<1>4. ASSUME NEW n \in DOMAIN channel' PROVE PlaceFits(n)'
  <2>1. PlaceFits(n) /\ channel[n] # holds[b].id
    BY <1>0 DEF MemoryInv, PlaceFits
  <2>2. ASSUME NEW w \in InProcess, holds'[w].at # "free" PROVE holds'[w].id # channel'[n]
    BY <2>1, <2>2, <1>0 DEF PlaceFits
  <2>. QED
    BY <2>1, <2>2, <1>0 DEF PlaceFits
<1>5. ASSUME NEW v \in InProcess PROVE HoldFits(v)'
  <2>1. CASE v = b
    BY <2>1, <1>0 DEF HoldFits
  <2>2. CASE v # b
    <3>1. \A w \in InProcess : HoldFits(w)
      BY DEF MemoryInv
    <3>2. holds'[v].at # "free" => holds'[v].id # holds[b].id
      BY <2>2, <3>1, <1>0 DEF HoldFits
    <3>3. ASSUME holds'[v].at # "free", NEW w \in InProcess, holds'[w].at # "free", holds'[w].id = holds'[v].id PROVE w = v
      BY <2>2, <3>1, <3>3, <1>0 DEF HoldFits
    <3>4. holds'[v].at # "free" =>
         /\ holds'[v].id \in DOMAIN missions' /\ missions'[holds'[v].id].task = holds'[v].task
         /\ missions'[holds'[v].id].status \in {"claimed", "cancelled"} /\ enqueue'[holds'[v].task] = "ok"
      BY <2>2, <3>1, <3>2, <1>0 DEF HoldFits
    <3>5. holds'[v].at \in {"check", "work"} => row'[holds'[v].task].status # "Queued"
      BY <2>2, <3>1, <1>0, Holder DEF HoldFits
    <3>6. holds'[v].at = "free" => holds'[v] = Free
      BY <2>2, <3>1, <1>0 DEF HoldFits
    <3>. QED
      BY <3>3, <3>4, <3>5, <3>6 DEF HoldFits
  <2>. QED
    BY <2>1, <2>2
<1>6. ASSUME NEW kk \in killing' PROVE KillFits(kk)'
  <2>1. KillFits(kk) /\ kk[1] \in Agent
    BY <1>0, KillType DEF MemoryInv
  <2>. QED
    BY <2>1, <1>0, EnqueueType, RowType DEF KillFits
<1>7. NothingYet'
  <2>1. serving'
    BY <1>0
  <2>. QED
    BY <2>1 DEF NothingYet
<1>. QED
  BY <1>1, <1>2, <1>3, <1>4, <1>5, <1>6, <1>7 DEF MemoryInv

\* A worker passes a cancelled mission.
LEMMA DequeueSkips ==
  ASSUME MemoryInv, NEW b \in InProcess, channel # <<>>, channel' = Tail(channel),
         missions[channel[1]].status # "pending", missions' = missions, holds' = holds,
         row' = row, enqueue' = enqueue, killing' = killing, serving' = serving
  PROVE  MemoryInv'
<1>0. /\ missions' = missions /\ holds' = holds
      /\ row' = row /\ enqueue' = enqueue /\ killing' = killing /\ serving' = serving /\ serving
      /\ channel' \in Seq(Nat) /\ DOMAIN channel' \subseteq Nat \ {0} /\ 1 \in DOMAIN channel
      /\ \A n \in DOMAIN channel' : n + 1 \in DOMAIN channel /\ channel'[n] = channel[n + 1]
      /\ \A n \in DOMAIN channel : n # 1 => n - 1 \in DOMAIN channel' /\ channel'[n - 1] = channel[n]
      /\ channel[1] \in DOMAIN missions
  <2>1. channel \in Seq(Nat) /\ channel # <<>> /\ channel' = Tail(channel)
    BY DEF MemoryInv, QueueTypes
  <2>2. /\ channel' \in Seq(Nat) /\ DOMAIN channel' \subseteq Nat \ {0} /\ 1 \in DOMAIN channel
        /\ \A n \in DOMAIN channel' : n + 1 \in DOMAIN channel /\ channel'[n] = channel[n + 1]
        /\ \A n \in DOMAIN channel : n # 1 => n - 1 \in DOMAIN channel' /\ channel'[n - 1] = channel[n]
    BY <2>1
  <2>3. channel[1] \in DOMAIN missions
    BY <2>2 DEF MemoryInv, PlaceFits
  <2>4. serving
    BY <2>1 DEF MemoryInv, NothingYet
  <2>. QED
    BY <2>2, <2>3, <2>4
<1>1. QueueTypes'
  BY <1>0 DEF MemoryInv, QueueTypes
<1>2. ASSUME NEW u \in Agent PROVE RowFits(u)'
  <2>1. RowFits(u)
    BY DEF MemoryInv
  <2>. QED
    BY <2>1, <1>0, EnqueueType, RowType DEF RowFits, Mine
<1>3. ASSUME NEW i \in DOMAIN missions' PROVE MissionFits(i)'
  <2>1. MissionFits(i) /\ i \in DOMAIN missions /\ missions[i].task \in Agent
    BY <1>0, TaskType DEF MemoryInv
  <2> DEFINE u == missions'[i].task
  <2>a. /\ row'[u].mission = i /\ enqueue'[u] \in {"persisted", "sending", "ok", "given up"}
        /\ missions'[i].status = "reserved" <=> enqueue'[u] = "persisted"
        /\ missions'[i].status = "claimed" => \E w \in InProcess : holds'[w].at # "free" /\ holds'[w].id = i
        /\ missions'[i].status \in {"completed", "failed"} => row'[u].status # "Queued" /\ enqueue'[u] = "ok"
        /\ missions'[i].status = "cancelled" /\ row'[u].status = "Queued" =>
                 (\E k \in killing' : k[1] = u) \/ (\E v \in Agent \ {u} : row'[v].mission = i)
    BY <1>0, EnqueueType, RowType, <2>1 DEF MissionFits
  <2>c. missions'[i].status = "pending" /\ enqueue'[u] = "ok" => \E n \in DOMAIN channel' : channel'[n] = i
    <3>1. ASSUME missions[i].status = "pending", enqueue[u] = "ok"
          PROVE  \E n \in DOMAIN channel' : channel'[n] = i
      <4>1. PICK n \in DOMAIN channel : channel[n] = i
        BY <3>1, <2>1, <1>0 DEF MissionFits
      <4>2. n # 1
        BY <3>1, <4>1
      <4>. QED
        BY <4>1, <4>2, <1>0
    <3>. QED
      BY <3>1, <1>0
  <2>. QED
    BY <2>a, <2>c DEF MissionFits
<1>4. ASSUME NEW n \in DOMAIN channel' PROVE PlaceFits(n)'
  <2>1. PlaceFits(n + 1) /\ channel'[n] = channel[n + 1] /\ n + 1 \in DOMAIN channel /\ n \in Nat
    BY <1>0 DEF MemoryInv
  <2>2. ASSUME NEW m \in DOMAIN channel', channel'[m] = channel'[n] PROVE m = n
    <3>1. m \in Nat /\ m + 1 \in DOMAIN channel /\ channel[m + 1] = channel[n + 1]
      BY <2>1, <2>2, <1>0
    <3>2. m + 1 = n + 1
      BY <3>1, <2>1 DEF PlaceFits
    <3>. QED
      BY <3>1, <3>2, <2>1

  <2>. QED
    BY <2>1, <2>2, <1>0 DEF PlaceFits
<1>5. ASSUME NEW v \in InProcess PROVE HoldFits(v)'
  <2>1. HoldFits(v)
    BY DEF MemoryInv
  <2>2. /\ holds[v].at # "free" => holds[v].id \in DOMAIN missions /\ holds[v].task \in Agent
        /\ holds[v].at \in {"check", "work"} => holds[v].at # "free"
    BY Holder
  <2>. QED
    BY <2>1, <2>2, <1>0, EnqueueType, HoldsType DEF HoldFits
<1>6. ASSUME NEW kk \in killing' PROVE KillFits(kk)'
  <2>1. KillFits(kk) /\ kk[1] \in Agent
    BY <1>0, KillType DEF MemoryInv
  <2>. QED
    BY <2>1, <1>0, EnqueueType, RowType DEF KillFits
<1>7. NothingYet'
  <2>1. serving'
    BY <1>0
  <2>. QED
    BY <2>1 DEF NothingYet
<1>. QED
  BY <1>1, <1>2, <1>3, <1>4, <1>5, <1>6, <1>7 DEF MemoryInv

\* A worker takes a mission.
LEMMA DequeueTakes ==
  ASSUME MemoryInv, NEW b \in InProcess, channel # <<>>, channel' = Tail(channel),
         missions[channel[1]].status = "pending", SetMission(channel[1], "claimed"),
         holds[b].at = "free",
         holds' = [holds EXCEPT ![b] = [at |-> "claim", id |-> channel[1], task |-> missions[channel[1]].task]],
         row' = row, enqueue' = enqueue, killing' = killing, serving' = serving
  PROVE  MemoryInv'
<1>0. /\ holds' \in [InProcess -> Holding] /\ \A v \in InProcess \ {b} : holds'[v] = holds[v]
      /\ holds'[b].at = "claim" /\ holds'[b].id = channel[1] /\ holds'[b].task = missions[channel[1]].task
      /\ missions' \in Seq(MemoryMission) /\ Len(missions') = Len(missions) /\ DOMAIN missions' = DOMAIN missions
      /\ \A j \in DOMAIN missions : missions'[j].task = missions[j].task /\ (j # channel[1] => missions'[j] = missions[j])
      /\ missions'[channel[1]].status = "claimed"
      /\ row' = row /\ enqueue' = enqueue /\ killing' = killing /\ serving' = serving /\ serving
      /\ channel' \in Seq(Nat) /\ DOMAIN channel' \subseteq Nat \ {0} /\ 1 \in DOMAIN channel
      /\ \A n \in DOMAIN channel' : n + 1 \in DOMAIN channel /\ channel'[n] = channel[n + 1]
      /\ \A n \in DOMAIN channel : n # 1 => n - 1 \in DOMAIN channel' /\ channel'[n - 1] = channel[n]
      /\ channel[1] \in DOMAIN missions /\ PlaceFits(1)
      /\ missions[channel[1]].status = "pending"
  <2>1. channel \in Seq(Nat) /\ channel # <<>> /\ channel' = Tail(channel)
    BY DEF MemoryInv, QueueTypes
  <2>2. /\ channel' \in Seq(Nat) /\ DOMAIN channel' \subseteq Nat \ {0} /\ 1 \in DOMAIN channel
        /\ \A n \in DOMAIN channel' : n + 1 \in DOMAIN channel /\ channel'[n] = channel[n + 1]
        /\ \A n \in DOMAIN channel : n # 1 => n - 1 \in DOMAIN channel' /\ channel'[n - 1] = channel[n]
    BY <2>1
  <2>3. PlaceFits(1) /\ channel[1] \in DOMAIN missions
    BY <2>2 DEF MemoryInv, PlaceFits
  <2>4. serving
    BY <2>1 DEF MemoryInv, NothingYet
  <2>5. missions \in Seq(MemoryMission)
    BY DEF MemoryInv, QueueTypes
  <2>6. /\ missions' \in Seq(MemoryMission) /\ Len(missions') = Len(missions) /\ DOMAIN missions' = DOMAIN missions
        /\ \A j \in DOMAIN missions : missions'[j].task = missions[j].task /\ (j # channel[1] => missions'[j] = missions[j])
        /\ missions'[channel[1]].status = "claimed"
    BY <2>3, <2>5, MissionSet
  <2> DEFINE h == [at |-> "claim", id |-> channel[1], task |-> missions[channel[1]].task]
  <2>7. h.at = "claim" /\ h.id = channel[1] /\ h.task = missions[channel[1]].task /\ h \in Holding
    BY <2>1, <2>2, <2>3, TaskType DEF Holding
  <2> HIDE DEF h
  <2>8. holds' = [holds EXCEPT ![b] = h]
    BY DEF h
  <2>9. holds' \in [InProcess -> Holding] /\ holds'[b] = h /\ \A v \in InProcess \ {b} : holds'[v] = holds[v]
    BY <2>7, <2>8, HoldsType
  <2>. QED
    BY <2>2, <2>3, <2>4, <2>6, <2>7, <2>9
<1>1. QueueTypes'
  BY <1>0 DEF MemoryInv, QueueTypes
<1>2. ASSUME NEW u \in Agent PROVE RowFits(u)'
  <2>1. RowFits(u)
    BY DEF MemoryInv
  <2>. QED
    BY <2>1, <1>0, EnqueueType, RowType DEF RowFits, Mine
<1>3. ASSUME NEW i \in DOMAIN missions' PROVE MissionFits(i)'
  <2>1. MissionFits(i) /\ i \in DOMAIN missions /\ missions[i].task \in Agent
    BY <1>0, TaskType DEF MemoryInv
  <2> DEFINE u == missions'[i].task
  <2>a. /\ row'[u].mission = i /\ enqueue'[u] \in {"persisted", "sending", "ok", "given up"}
        /\ missions'[i].status = "reserved" <=> enqueue'[u] = "persisted"
        /\ missions'[i].status = "claimed" => \E w \in InProcess : holds'[w].at # "free" /\ holds'[w].id = i
        /\ missions'[i].status \in {"completed", "failed"} => row'[u].status # "Queued" /\ enqueue'[u] = "ok"
    BY <1>0, EnqueueType, RowType, <2>1 DEF MissionFits
  <2>c. missions'[i].status = "pending" /\ enqueue'[u] = "ok" => \E n \in DOMAIN channel' : channel'[n] = i
    <3>1. ASSUME missions'[i].status = "pending", enqueue'[u] = "ok"
          PROVE  \E n \in DOMAIN channel' : channel'[n] = i
      <4>1. i # channel[1] /\ missions'[i] = missions[i]
        BY <3>1, <2>1, <1>0
      <4>2. PICK n \in DOMAIN channel : channel[n] = i
        BY <3>1, <4>1, <2>1, <1>0 DEF MissionFits
      <4>. QED
        BY <4>1, <4>2, <1>0
    <3>. QED
      BY <3>1
  <2>f. missions'[i].status = "cancelled" /\ row'[u].status = "Queued" =>
         (\E k \in killing' : k[1] = u) \/ (\E v \in Agent \ {u} : row'[v].mission = i)
    <3>1. CASE i = channel[1]
      BY <3>1, <1>0
    <3>2. CASE i # channel[1]
      <4>1. missions'[i] = missions[i]
        BY <3>2, <2>1, <1>0
      <4>2. missions[i].status = "cancelled" /\ row[u].status = "Queued" =>
               (\E k \in killing : k[1] = u) \/ (\E v \in Agent \ {u} : row[v].mission = i)
        BY <4>1, <2>1 DEF MissionFits
      <4>. QED
        BY <4>1, <4>2, <1>0
    <3>. QED
      BY <3>1, <3>2
  <2>. QED
    BY <2>a, <2>c, <2>f DEF MissionFits
<1>4. ASSUME NEW n \in DOMAIN channel' PROVE PlaceFits(n)'
  <2>1. PlaceFits(n + 1) /\ channel'[n] = channel[n + 1] /\ n + 1 \in DOMAIN channel /\ n \in Nat
    BY <1>0 DEF MemoryInv
  <2>2. ASSUME NEW m \in DOMAIN channel', channel'[m] = channel'[n] PROVE m = n
    <3>1. m \in Nat /\ m + 1 \in DOMAIN channel /\ channel[m + 1] = channel[n + 1]
      BY <2>1, <2>2, <1>0
    <3>2. m + 1 = n + 1
      BY <3>1, <2>1 DEF PlaceFits
    <3>. QED
      BY <3>1, <3>2, <2>1

  <2>3. channel'[n] # channel[1]
    BY <2>1, <1>0 DEF PlaceFits
  <2>4. ASSUME NEW w \in InProcess, holds'[w].at # "free" PROVE holds'[w].id # channel'[n]
    BY <2>1, <2>3, <2>4, <1>0 DEF PlaceFits
  <2>. QED
    BY <2>1, <2>2, <2>3, <2>4, <1>0 DEF PlaceFits
<1>5. ASSUME NEW v \in InProcess PROVE HoldFits(v)'
  <2>1. \A w \in InProcess : HoldFits(w) /\ (holds[w].at # "free" => holds[w].id # channel[1])
    BY <1>0 DEF MemoryInv, PlaceFits
  <2>2. ASSUME holds'[v].at # "free", NEW w \in InProcess, holds'[w].at # "free", holds'[w].id = holds'[v].id PROVE w = v
    BY <2>1, <2>2, <1>0 DEF HoldFits
  <2>3. CASE v = b
    BY <2>2, <2>3, <1>0 DEF HoldFits, PlaceFits
  <2>4. CASE v # b
    <3>1. holds'[v] = holds[v] /\ HoldFits(v) /\ (holds[v].at # "free" => holds[v].id # channel[1])
      BY <2>1, <2>4, <1>0
    <3>. QED
      BY <2>2, <3>1, <1>0 DEF HoldFits
  <2>. QED
    BY <2>3, <2>4
<1>6. ASSUME NEW kk \in killing' PROVE KillFits(kk)'
  <2>1. KillFits(kk) /\ kk[1] \in Agent
    BY <1>0, KillType DEF MemoryInv
  <2>. QED
    BY <2>1, <1>0, EnqueueType, RowType DEF KillFits
<1>7. NothingYet'
  <2>1. serving'
    BY <1>0
  <2>. QED
    BY <2>1 DEF NothingYet
<1>. QED
  BY <1>1, <1>2, <1>3, <1>4, <1>5, <1>6, <1>7 DEF MemoryInv
\* A worker claims its agent, or finds it claimed or ended and fails the mission.
LEMMA ClaimQueuedAgentStep ==
  ASSUME MemoryInv, NEW w \in InProcess, ClaimQueuedAgent(w)
  PROVE  MemoryInv'
<1> DEFINE t == holds[w].task
<1>1. holds[w].at # "free" /\ t \in Agent
  BY Holder DEF ClaimQueuedAgent
<1> HIDE DEF t
<1>2. Mark(t, {"Queued"}, "Running") /\ enqueue' = enqueue /\ channel' = channel /\ killing' = killing /\ serving' = serving
  BY DEF ClaimQueuedAgent, t
<1>3. /\ row' \in [Agent -> MemoryRow]
      /\ \A u \in Agent : /\ row'[u].mission = row[u].mission
                          /\ row'[u].status = "none" <=> row[u].status = "none"
                          /\ row'[u].status = "Queued" => row[u].status = "Queued"
      /\ row'[t].status # "Queued"
  BY <1>1, <1>2, RowType, MarkRow
<1>4. CASE row[t].status = "Queued"
  <2>1. missions' = missions /\ holds' = [holds EXCEPT ![w].at = "check"]
    BY <1>4 DEF ClaimQueuedAgent, t
  <2>. QED
    BY <1>1, <1>2, <1>3, <2>1, HolderGoesOn DEF t
<1>5. CASE row[t].status # "Queued"
  <2>1. End(w, "failed")
    BY <1>5 DEF ClaimQueuedAgent, t
  <2>. QED
    BY <1>1, <1>2, <1>3, <2>1, HolderEnds DEF t
<1>. QED
  BY <1>4, <1>5

\* A worker looks whether its mission was cancelled before it starts the agent.
LEMMA CheckCancelledStep ==
  ASSUME MemoryInv, NEW w \in InProcess, CheckCancelled(w)
  PROVE  MemoryInv'
<1> DEFINE t == holds[w].task
<1>1. holds[w].at # "free" /\ t \in Agent /\ row[t].status # "Queued"
  BY Holder DEF CheckCancelled, MemoryInv, HoldFits
<1> HIDE DEF t
<1>2. enqueue' = enqueue /\ channel' = channel /\ killing' = killing /\ serving' = serving
  BY DEF CheckCancelled
<1>3. CASE missions[holds[w].id].status = "cancelled"
  <2>1. Mark(t, {"Queued", "Running"}, "Stopped") /\ End(w, "failed")
    BY <1>3 DEF CheckCancelled, t
  <2>2. /\ row' \in [Agent -> MemoryRow]
        /\ \A u \in Agent : /\ row'[u].mission = row[u].mission
                            /\ row'[u].status = "none" <=> row[u].status = "none"
                            /\ row'[u].status = "Queued" => row[u].status = "Queued"
        /\ row'[t].status # "Queued"
    BY <1>1, <2>1, RowType, MarkRow
  <2>. QED
    BY <1>1, <1>2, <2>1, <2>2, HolderEnds DEF t
<1>4. CASE missions[holds[w].id].status # "cancelled"
  <2>1. row' = row /\ missions' = missions /\ holds' = [holds EXCEPT ![w].at = "work"]
    BY <1>4 DEF CheckCancelled
  <2>2. /\ row' \in [Agent -> MemoryRow]
        /\ \A u \in Agent : /\ row'[u].mission = row[u].mission
                            /\ row'[u].status = "none" <=> row[u].status = "none"
                            /\ row'[u].status = "Queued" => row[u].status = "Queued"
        /\ row'[t].status # "Queued"
    BY <1>1, <2>1, RowType
  <2>. QED
    BY <1>1, <1>2, <2>1, <2>2, HolderGoesOn DEF t
<1>. QED
  BY <1>3, <1>4

\* A worker's run ends, well or not.
LEMMA WorkStep ==
  ASSUME MemoryInv, NEW w \in InProcess, Work(w)
  PROVE  MemoryInv'
<1> DEFINE t == holds[w].task
<1>1. holds[w].at # "free" /\ t \in Agent /\ row[t].status # "Queued"
  BY Holder DEF Work, MemoryInv, HoldFits
<1> HIDE DEF t
<1>2. enqueue' = enqueue /\ channel' = channel /\ killing' = killing /\ serving' = serving
  BY DEF Work
<1>3. \/ Mark(t, {"Running"}, "Completed") /\ End(w, "completed")
      \/ Mark(t, {"Queued", "Running"}, "Failed") /\ End(w, "failed")
  BY DEF Work, t
<1>4. /\ row' \in [Agent -> MemoryRow]
      /\ \A u \in Agent : /\ row'[u].mission = row[u].mission
                          /\ row'[u].status = "none" <=> row[u].status = "none"
                          /\ row'[u].status = "Queued" => row[u].status = "Queued"
      /\ row'[t].status # "Queued"
  <2>1. CASE Mark(t, {"Running"}, "Completed")
    BY <1>1, <2>1, RowType, MarkRow
  <2>2. CASE Mark(t, {"Queued", "Running"}, "Failed")
    BY <1>1, <2>2, RowType, MarkRow
  <2>. QED
    BY <1>3, <2>1, <2>2
<1>5. CASE End(w, "completed")
  BY <1>1, <1>2, <1>4, <1>5, HolderEnds DEF t
<1>6. CASE End(w, "failed")
  BY <1>1, <1>2, <1>4, <1>6, HolderEnds DEF t
<1>. QED
  BY <1>3, <1>5, <1>6

\* A worker receives from the channel.
LEMMA DequeueStep ==
  ASSUME MemoryInv, NEW w \in InProcess, Dequeue(w)
  PROVE  MemoryInv'
<1>1. /\ holds[w].at = "free" /\ channel # <<>> /\ channel' = Tail(channel)
      /\ row' = row /\ enqueue' = enqueue /\ killing' = killing /\ serving' = serving
  BY DEF Dequeue
<1>2. Head(channel) = channel[1]
  BY <1>1, ChannelType
<1>3. CASE missions[channel[1]].status # "pending"
  <2>1. missions' = missions /\ holds' = holds
    BY <1>2, <1>3 DEF Dequeue
  <2>. QED
    BY <1>1, <1>3, <2>1, DequeueSkips
<1>4. CASE missions[channel[1]].status = "pending"
  <2>1. /\ SetMission(channel[1], "claimed")
        /\ holds' = [holds EXCEPT ![w] = [at |-> "claim", id |-> channel[1], task |-> missions[channel[1]].task]]
    BY <1>2, <1>4 DEF Dequeue
  <2>. QED
    BY <1>1, <1>4, <2>1, DequeueTakes
<1>. QED
  BY <1>3, <1>4

\* The invariant of the in-memory queue: rows, missions, channel, workers and
\* kills agree in every reachable state (internal/queue/memory.go).
THEOREM MemoryInvariant == MemorySpec => []MemoryInv
<1>1. MemoryInit => MemoryInv
  <2> SUFFICES ASSUME MemoryInit PROVE MemoryInv
    OBVIOUS
  <2>1. NoRowYet \in MemoryRow /\ NoRowYet.status = "none" /\ NoRowYet.mission = 0
    BY DEF NoRowYet, MemoryRow
  <2>2. Free \in Holding /\ Free.at = "free"
    BY DEF Free, Holding
  <2>3. missions = <<>> /\ channel = <<>> /\ killing = {} /\ serving = TRUE
    BY DEF MemoryInit
  <2>4. /\ \A t \in Agent : row[t] = NoRowYet /\ enqueue[t] = "none"
        /\ \A w \in InProcess : holds[w] = Free
    BY DEF MemoryInit
  <2>5. row \in [Agent -> MemoryRow] /\ holds \in [InProcess -> Holding]
    BY <2>1, <2>2 DEF MemoryInit
  <2>6. enqueue \in [Agent -> {"none", "persisted", "sending", "ok", "given up", "missed"}]
    BY DEF MemoryInit
  <2>7. QueueTypes
    <3>1. missions \in Seq(MemoryMission) /\ channel \in Seq(Nat)
      BY <2>3
    <3>2. serving \in BOOLEAN /\ killing \subseteq Agent \X Nat \X {"cancel", "mark"}
      BY <2>3
    <3>. QED
      BY <3>1, <3>2, <2>5, <2>6 DEF QueueTypes
  <2>8. DOMAIN missions = {} /\ DOMAIN channel = {}
    BY <2>3
  <2>9. \A t \in Agent : RowFits(t)
    BY <2>1, <2>4 DEF RowFits
  <2>10. \A w \in InProcess : HoldFits(w)
    BY <2>2, <2>4 DEF HoldFits
  <2>11. NothingYet
    BY <2>3 DEF NothingYet
  <2>. QED
    BY <2>3, <2>7, <2>8, <2>9, <2>10, <2>11 DEF MemoryInv
<1>2. MemoryInv /\ [MemoryNext]_memoryVars => MemoryInv'
  <2> SUFFICES ASSUME MemoryInv, [MemoryNext]_memoryVars PROVE MemoryInv'
    OBVIOUS
  <2>1. ASSUME NEW t \in Agent, Persist(t) PROVE MemoryInv'
    BY <2>1, PersistStep
  <2>2. ASSUME NEW t \in Agent, PutPending(t) PROVE MemoryInv'
    BY <2>2, PutPendingStep
  <2>3. ASSUME NEW t \in Agent, Send(t) PROVE MemoryInv'
    BY <2>3, SendStep
  <2>4. ASSUME NEW t \in Agent, SendCancelled(t) PROVE MemoryInv'
    BY <2>4, SendCancelledStep
  <2>5. ASSUME NEW t \in Agent, Kill(t) PROVE MemoryInv'
    BY <2>5, KillStep
  <2>6. ASSUME NEW w \in InProcess, Dequeue(w) PROVE MemoryInv'
    BY <2>6, DequeueStep
  <2>7. ASSUME NEW w \in InProcess, ClaimQueuedAgent(w) PROVE MemoryInv'
    BY <2>7, ClaimQueuedAgentStep
  <2>8. ASSUME NEW w \in InProcess, CheckCancelled(w) PROVE MemoryInv'
    BY <2>8, CheckCancelledStep
  <2>9. ASSUME NEW w \in InProcess, Work(w) PROVE MemoryInv'
    BY <2>9, WorkStep
  <2>10. ASSUME NEW k \in killing, Cancel(k) PROVE MemoryInv'
    BY <2>10, CancelStep
  <2>11. ASSUME NEW k \in killing, MarkStopped(k) PROVE MemoryInv'
    BY <2>11, MarkStoppedStep
  <2>12. CASE UNCHANGED memoryVars
    <3>1. /\ row' = row /\ missions' = missions /\ channel' = channel /\ enqueue' = enqueue /\ holds' = holds
          /\ killing' = killing /\ serving' = serving
      BY <2>12 DEF memoryVars
    <3>2. QueueTypes' /\ NothingYet'
      BY <3>1 DEF MemoryInv, QueueTypes, NothingYet
    <3>3. \A t \in Agent : RowFits(t)'
      BY <3>1 DEF MemoryInv, RowFits, Mine
    <3>4. ASSUME NEW i \in DOMAIN missions' PROVE MissionFits(i)'
      <4>1. MissionFits(i)
        BY <3>1 DEF MemoryInv
      <4>. QED
        BY <3>1, <4>1 DEF MissionFits
    <3>5. \A n \in DOMAIN channel' : PlaceFits(n)'
      BY <3>1 DEF MemoryInv, PlaceFits
    <3>6. (\A w \in InProcess : HoldFits(w)') /\ \A k \in killing' : KillFits(k)'
      BY <3>1 DEF MemoryInv, HoldFits, KillFits
    <3>. QED
      BY <3>2, <3>3, <3>4, <3>5, <3>6 DEF MemoryInv
  <2>. QED
    BY <2>1, <2>2, <2>3, <2>4, <2>5, <2>6, <2>7, <2>8, <2>9, <2>10, <2>11, <2>12, RestartStep, ReconcileOrphanedStep
       DEF MemoryNext
<1>. QED
  BY <1>1, <1>2, PTL DEF MemorySpec

\* A queued agent is being enqueued, waits once in the channel, is with one
\* worker or is being killed: whatever the number of agents, workers and
\* restarts and the capacity of the channel (Enqueue, Dequeue, Ack, Fail and
\* Cancel of internal/queue/memory.go, reconcileOrphanedQueuedAgents).
THEOREM QueuedAgentsWait == MemorySpec => []QueuedIsWaiting
<1>1. MemoryInv => QueuedIsWaiting
  <2> SUFFICES ASSUME MemoryInv PROVE QueuedIsWaiting
    OBVIOUS
  <2>1. ASSUME serving, NEW t \in Agent, row[t].status = "Queued"
        PROVE  LET i == row[t].mission IN
               \/ enqueue[t] \in {"persisted", "sending"} \/ (enqueue[t] = "given up" /\ Known(i)) \/ enqueue[t] = "missed"
               \/ \E k \in killing : k[1] = t
               \/ Known(i) /\ missions[i].status = "cancelled" /\ \E u \in Agent \ {t} : row[u].mission = i
               \/ Known(i) /\ missions[i].task = t /\ missions[i].status = "pending"
                    /\ Cardinality({n \in DOMAIN channel : channel[n] = i}) = 1
               \/ \E w \in InProcess : holds[w].id = i /\ holds[w].task = t
    <3> DEFINE i == row[t].mission
    <3>1. CASE enqueue[t] \in {"persisted", "sending", "missed"}
      BY <3>1
    <3>2. CASE enqueue[t] \in {"ok", "given up"}
      <4>1. Mine(t)
        BY <2>1, <3>2 DEF MemoryInv, RowFits
      <4>2. i \in DOMAIN missions /\ missions[i].task = t /\ MissionFits(i) /\ missions[i] \in MemoryMission
        BY <4>1, MissionType DEF Mine, MemoryInv
      <4>3. missions[i].status # "reserved"
        BY <3>2, <4>2 DEF MissionFits
      <4>4. Known(i)
        BY <4>2, <4>3 DEF Known
      <4> HIDE DEF i
      <4>5. CASE enqueue[t] = "given up"
        BY <4>4, <4>5 DEF i
      <4>6. CASE enqueue[t] = "ok" /\ missions[i].status = "pending"
        <5>1. PICK n \in DOMAIN channel : channel[n] = i
          BY <4>2, <4>6 DEF MissionFits
        <5>2. PlaceFits(n)
          BY DEF MemoryInv
        <5>3. {m \in DOMAIN channel : channel[m] = i} = {n}
          BY <5>1, <5>2 DEF PlaceFits
        <5>4. Cardinality({m \in DOMAIN channel : channel[m] = i}) = 1
          BY <5>3, FS_Singleton
        <5>. QED
          BY <4>2, <4>4, <4>6, <5>4 DEF i
      <4>7. CASE missions[i].status = "claimed"
        <5>1. PICK w \in InProcess : holds[w].at # "free" /\ holds[w].id = i
          BY <4>2, <4>7 DEF MissionFits
        <5>2. holds[w].task = t
          BY <4>2, <5>1, Holder
        <5>. QED
          BY <5>1, <5>2 DEF i
      <4>8. CASE missions[i].status = "cancelled"
        <5>1. row[t].status = "Queued"
          BY <2>1
        <5>2. (\E k \in killing : k[1] = t) \/ (\E v \in Agent \ {t} : row[v].mission = i)
          BY <4>2, <4>8, <5>1 DEF MissionFits
        <5>. QED
          BY <4>4, <4>8, <5>2 DEF i
      <4>9. missions[i].status \notin {"completed", "failed"}
        BY <2>1, <4>2 DEF MissionFits
      <4>10. missions[i].status \in {"reserved", "pending", "claimed", "completed", "failed", "cancelled"}
        BY <4>2 DEF MemoryMission
      <4>. QED
        BY <3>2, <4>3, <4>5, <4>6, <4>7, <4>8, <4>9, <4>10
    <3>3. enqueue[t] \in {"persisted", "sending", "ok", "given up", "missed"}
      <4>1. RowFits(t)
        BY DEF MemoryInv
      <4>2. enqueue[t] # "none"
        BY <2>1, <4>1 DEF RowFits
      <4>. QED
        BY <4>2, EnqueueType
    <3>. QED
      BY <3>1, <3>2, <3>3
  <2>2. ASSUME NEW w \in InProcess, NEW v \in InProcess, holds[w].at # "free"
        PROVE  /\ missions[holds[w].id].task = holds[w].task /\ missions[holds[w].id].status \in {"claimed", "cancelled"}
               /\ holds[v].id = holds[w].id => v = w
               /\ \A n \in DOMAIN channel : channel[n] # holds[w].id
    <3>1. missions[holds[w].id].task = holds[w].task /\ missions[holds[w].id].status \in {"claimed", "cancelled"}
      BY <2>2, Holder
    <3>2. \A n \in DOMAIN channel : channel[n] # holds[w].id
      BY <2>2 DEF MemoryInv, PlaceFits
    <3>3. HoldFits(w) /\ HoldFits(v)
      BY DEF MemoryInv
    <3>4. holds[w].id # 0
      BY <2>2, Holder, MissionType
    <3>5. Free.id = 0
      BY DEF Free
    <3>6. holds[v].id = holds[w].id => v = w
      BY <2>2, <3>3, <3>4, <3>5 DEF HoldFits
    <3>. QED
      BY <3>1, <3>2, <3>6
  <2>. QED
    BY <2>1, <2>2 DEF QueuedIsWaiting
<1>. QED
  BY <1>1, MemoryInvariant, PTL

(***************************************************************************)
(* The pages of a table.                                                   *)
(***************************************************************************)

Fetcher == [at : {"idle", "once", "page", "close", "staged", "failed"}, page : Nat, total : Nat,
            cursor : {NoCursor} \cup {<<i>> : i \in Int}, retries : Nat, partial : BOOLEAN, cut : BOOLEAN,
            broken : BOOLEAN]
ParquetFile == [state : {"absent", "torn", "readable"}, rows : Seq(Int)]

PagedTypes ==
    /\ job \in Jobs /\ remote \in [first : Int, last : Int] /\ table \in ParquetFile /\ fetching \in Fetcher
    /\ arrivals \in Nat /\ disk \in Nat

\* The source only grows, and at its first row by no more than what arrived.
SourceGrows ==
    /\ remote.first <= job.first /\ job.first - remote.first <= arrivals
    /\ job.last <= remote.last /\ remote.first <= remote.last + 1

\* No hole between two rows, and of an offset no more of an overlap than arrived.
Follows(this, next) == next <= this + 1 /\ (next < this + 1 => job.mode = "offset" /\ this - next < arrivals)
Joined(rows) ==
    (job.named /\ Length <= job.size) \/ job.mode = "once" =>
        \A i \in 1 .. Len(rows) - 1 : Follows(rows[i], rows[i + 1])

\* The next page goes on where the last row is.
NextPageFits ==
    /\ table.rows # <<>> <=> fetching.page > 0
    /\ fetching.page > 0 /\ job.named =>
         LET this == table.rows[Len(table.rows)] IN
         /\ PageStart <= this + 1
         /\ Length <= job.size => Follows(this, PageStart)

\* The last row is the last of the source, or the cap is reached.
Complete(rows) ==
    rows # <<>> /\ job.named /\ (job.mode = "cursor" => job.shape = "object" /\ job.next) /\ Length >= job.size =>
        Len(rows) = job.cap \/ rows[Len(rows)] >= job.last

NotYetReadable == fetching.at # "staged" => table.state # "readable"
Beginning == fetching.at \in {"idle", "once"} =>
    /\ fetching.page = 0 /\ fetching.total = 0 /\ fetching.cursor = NoCursor
    /\ ~fetching.partial /\ ~fetching.cut /\ ~fetching.broken
    /\ fetching.at = "once" => job.mode = "once"
Paging == fetching.at = "page" =>
    /\ job.mode # "once" /\ fetching.total = Len(table.rows) /\ fetching.total < job.cap
    /\ ~fetching.partial /\ ~fetching.cut /\ ~fetching.broken
    /\ Joined(table.rows) /\ NextPageFits
    /\ fetching.page > 0 /\ job.mode = "cursor" => fetching.cursor # NoCursor
Closing == fetching.at = "close" =>
    /\ fetching.total = Len(table.rows) /\ fetching.total <= job.cap
    /\ ~fetching.partial /\ ~fetching.broken
    /\ Joined(table.rows)
    /\ ~fetching.cut /\ job.mode # "once" => Complete(table.rows)
StagedTable == fetching.at = "staged" /\ ~fetching.broken =>
    /\ table.state = "readable" /\ fetching.total <= Len(table.rows) /\ Len(table.rows) <= job.cap
    /\ ~fetching.partial => Len(table.rows) = fetching.total
    /\ Joined(table.rows)
    /\ ~fetching.partial /\ ~fetching.cut /\ job.mode # "once" => Complete(table.rows)

\* The inductive invariant behind PagesJoin.
PagedInv == PagedTypes /\ SourceGrows /\ NotYetReadable /\ Beginning /\ Paging /\ Closing /\ StagedTable

\* What the types say of one part at a time, and the binding is one of Jobs.
LEMMA JobFacts ==
  ASSUME PagedInv
  PROVE  /\ job \in Jobs /\ job.mode \in {"once", "offset", "cursor"} /\ job.named \in BOOLEAN
         /\ job.size \in Nat \ {0} /\ job.cap \in Nat \ {0} /\ job.most \in Nat \ {0} /\ job.first \in Int /\ job.last \in Int
         /\ Length \in Nat \ {0} /\ arrivals \in Nat
         /\ remote \in [first : Int, last : Int] /\ remote.first \in Int /\ remote.last \in Int
         /\ table \in ParquetFile /\ table.rows \in Seq(Int) /\ Len(table.rows) \in Nat
<1>1. job \in Jobs /\ IsJob(job) /\ remote \in [first : Int, last : Int] /\ table \in ParquetFile /\ arrivals \in Nat
  BY PagedAssumption DEF PagedInv, PagedTypes
<1>2. /\ job.mode \in {"once", "offset", "cursor"} /\ job.named \in BOOLEAN
      /\ job.size \in Nat \ {0} /\ job.cap \in Nat \ {0} /\ job.most \in Nat \ {0} /\ job.first \in Int /\ job.last \in Int
  BY <1>1 DEF IsJob
<1>3. Length \in Nat \ {0}
  BY <1>2 DEF Length, Least
<1>4. table.rows \in Seq(Int) /\ Len(table.rows) \in Nat
  BY <1>1 DEF ParquetFile
<1>. QED
  BY <1>1, <1>2, <1>3, <1>4

\* The numbers alone.
LEMMA PagedNumbers ==
  ASSUME PagedInv
  PROVE  /\ remote.first \in Int /\ remote.last \in Int /\ job.first \in Int /\ job.last \in Int /\ arrivals \in Nat
         /\ job.size \in Nat \ {0} /\ job.cap \in Nat \ {0} /\ Length \in Nat \ {0}
  BY JobFacts

\* The state of the goroutine.
LEMMA FetcherFacts ==
  ASSUME PagedInv
  PROVE  /\ fetching \in Fetcher /\ fetching.page \in Nat /\ fetching.total \in Nat /\ fetching.retries \in Nat
         /\ fetching.cursor # NoCursor => fetching.cursor[1] \in Int
<1>1. fetching \in Fetcher
  BY DEF PagedInv, PagedTypes
<1>2. fetching.page \in Nat /\ fetching.total \in Nat /\ fetching.retries \in Nat /\ fetching.cursor \in {NoCursor} \cup {<<i>> : i \in Int}
  BY <1>1 DEF Fetcher
<1>3. ASSUME fetching.cursor # NoCursor PROVE fetching.cursor[1] \in Int
  <2>1. PICK i \in Int : fetching.cursor = <<i>>
    BY <1>2, <1>3
  <2>. QED
    BY <2>1
<1>. QED
  BY <1>1, <1>2, <1>3

\* Rows that follow each other.
LEMMA RowsFromFacts ==
  ASSUME NEW from \in Int, NEW n \in Nat
  PROVE  /\ RowsFrom(from, n) \in Seq(Int) /\ Len(RowsFrom(from, n)) = n
         /\ \A i \in 1 .. n : RowsFrom(from, n)[i] = from + i - 1
  BY DEF RowsFrom

\* The beginning of a sequence of rows.
LEMMA PrefixFacts ==
  ASSUME NEW s \in Seq(Int), NEW k \in 0 .. Len(s)
  PROVE  /\ SubSeq(s, 1, k) \in Seq(Int) /\ Len(SubSeq(s, 1, k)) = k
         /\ \A i \in 1 .. k : SubSeq(s, 1, k)[i] = s[i]
  OBVIOUS

\* Rows after rows.
LEMMA AppendedFacts ==
  ASSUME NEW s \in Seq(Int), NEW t \in Seq(Int)
  PROVE  /\ s \o t \in Seq(Int) /\ Len(s \o t) = Len(s) + Len(t)
         /\ \A i \in 1 .. Len(s) : (s \o t)[i] = s[i]
         /\ \A i \in Len(s) + 1 .. Len(s) + Len(t) : (s \o t)[i] = t[i - Len(s)]
  OBVIOUS

\* What the tool answers: rows of the source that follow each other, and as
\* many as there are and fit.
LEMMA PageFacts ==
  ASSUME PagedInv, fetching.at = "page"
  PROVE  /\ PageStart \in Int /\ Page \in Seq(Int) /\ Len(Page) \in Nat /\ Len(Page) <= Length
         /\ \A i \in 1 .. Len(Page) : Page[i] = PageStart + i - 1
         /\ Page = <<>> <=> PageStart > remote.last
         /\ Page = <<>> <=> Len(Page) = 0
         /\ Page # <<>> => PageStart + Len(Page) - 1 <= remote.last
         /\ Page # <<>> /\ Len(Page) < Length => PageStart + Len(Page) - 1 = remote.last
<1>1. PageStart \in Int
  <2>1. CASE job.mode = "offset" /\ job.named
    <3>1. Offset(fetching.page) \in Int
      BY JobFacts, FetcherFacts DEF Offset
    <3>2. PageStart = remote.first + Offset(fetching.page)
      BY <2>1 DEF PageStart
    <3>. QED
      BY <3>1, <3>2, JobFacts
  <2>2. CASE job.mode = "cursor" /\ job.named /\ fetching.page > 0
    <3>1. fetching.cursor # NoCursor
      BY <2>2 DEF PagedInv, Paging
    <3>2. PageStart = fetching.cursor[1] + 1
      BY <2>2 DEF PageStart
    <3>. QED
      BY <3>1, <3>2, FetcherFacts
  <2>3. CASE ~(job.mode = "offset" /\ job.named) /\ ~(job.mode = "cursor" /\ job.named /\ fetching.page > 0)
    <3>1. PageStart = remote.first
      BY <2>3 DEF PageStart
    <3>. QED
      BY <3>1, JobFacts
  <2>. QED
    BY <2>1, <2>2, <2>3
<1> DEFINE n == IF PageStart > remote.last THEN 0 ELSE Least(Length, remote.last - PageStart + 1)
<1>2. /\ n \in Nat /\ n <= Length /\ (n = 0 <=> PageStart > remote.last)
      /\ n # 0 => PageStart + n - 1 <= remote.last
      /\ n # 0 /\ n < Length => PageStart + n - 1 = remote.last
  <2>1. Length \in Nat \ {0} /\ remote.last \in Int
    BY PagedNumbers
  <2>. QED
    BY <1>1, <2>1 DEF Least
<1>3. Page = RowsFrom(PageStart, n)
  BY DEF Page
<1> HIDE DEF n
<1>4. Page \in Seq(Int) /\ Len(Page) = n /\ \A i \in 1 .. n : Page[i] = PageStart + i - 1
  BY <1>1, <1>2, <1>3, RowsFromFacts
<1>5. Page = <<>> <=> Len(Page) = 0
  BY <1>4
<1>. QED
  BY <1>1, <1>2, <1>4, <1>5

\* Rows that follow what is there, one by one.
LEMMA FollowAppended ==
  ASSUME NEW s \in Seq(Int), NEW p \in Seq(Int), NEW from \in Int, \A i \in 1 .. Len(p) : p[i] = from + i - 1,
         \A i \in 1 .. Len(s) - 1 : Follows(s[i], s[i + 1]), Len(s) > 0 => Follows(s[Len(s)], from)
  PROVE  \A i \in 1 .. Len(s \o p) - 1 : Follows((s \o p)[i], (s \o p)[i + 1])
<1>1. PICK r \in Seq(Int) : r = s \o p
  BY AppendedFacts
<1>2. /\ Len(r) = Len(s) + Len(p) /\ Len(s) \in Nat /\ Len(p) \in Nat
      /\ \A i \in 1 .. Len(s) : r[i] = s[i]
  BY <1>1, AppendedFacts
<1>3. \A i \in Len(s) + 1 .. Len(s) + Len(p) : r[i] = p[i - Len(s)]
  BY <1>1, AppendedFacts
<1>4. ASSUME NEW i \in Len(s) + 1 .. Len(s) + Len(p)
      PROVE  r[i] = from + (i - Len(s)) - 1
  <2>1. i - Len(s) \in 1 .. Len(p)
    BY <1>2
  <2>. QED
    BY <1>3, <2>1
<1>5. ASSUME NEW i \in 1 .. Len(r) - 1
      PROVE  Follows(r[i], r[i + 1])
  <2>1. CASE i < Len(s)
    <3>1. i \in 1 .. Len(s) - 1 /\ i \in 1 .. Len(s) /\ i + 1 \in 1 .. Len(s)
      BY <2>1, <1>2
    <3>2. r[i] = s[i] /\ r[i + 1] = s[i + 1]
      BY <3>1, <1>2
    <3>. QED
      BY <3>1, <3>2
  <2>2. CASE i = Len(s)
    <3>1. i \in 1 .. Len(s) /\ i + 1 \in Len(s) + 1 .. Len(s) + Len(p) /\ Len(s) > 0
      BY <2>2, <1>2
    <3>2. r[i] = s[Len(s)] /\ r[i + 1] = from + (i + 1 - Len(s)) - 1
      <4>1. r[i] = s[Len(s)]
        BY <2>2, <3>1, <1>2
      <4>. QED
        BY <4>1, <3>1, <1>4
    <3>3. from + (i + 1 - Len(s)) - 1 = from
      BY <2>2, <1>2
    <3>. QED
      BY <3>1, <3>2, <3>3
  <2>3. CASE i > Len(s)
    <3>1. i \in Len(s) + 1 .. Len(s) + Len(p) /\ i + 1 \in Len(s) + 1 .. Len(s) + Len(p)
      <4>1. Len(r) \in Nat /\ i \in 1 .. Len(r) - 1 /\ Len(r) = Len(s) + Len(p) /\ Len(s) \in Nat /\ Len(p) \in Nat
        BY <1>2
      <4>2. i \in Int /\ i <= Len(r) - 1
        BY <4>1
      <4>3. i >= Len(s) + 1 /\ i <= Len(s) + Len(p) - 1
        BY <2>3, <4>1, <4>2
      <4>. QED
        <5>1. PICK a \in Nat, b \in Nat : a = Len(s) /\ b = Len(p)
          BY <4>1
        <5>2. i >= a + 1 /\ i <= a + b - 1 /\ i \in Int
          BY <4>2, <4>3, <5>1
        <5>3. i \in a + 1 .. a + b /\ i + 1 \in a + 1 .. a + b
          BY <5>2
        <5>. QED
          BY <5>1, <5>3
    <3>2. r[i] = from + (i - Len(s)) - 1 /\ r[i + 1] = from + (i + 1 - Len(s)) - 1
      BY <3>1, <1>4
    <3>3. r[i] \in Int /\ r[i + 1] = r[i] + 1
      BY <3>1, <3>2, <1>2
    <3>. QED
      BY <3>3 DEF Follows
  <2>. QED
    BY <2>1, <2>2, <2>3, <1>2
<1>. QED
  BY <1>1, <1>5

\* Rows of the page that are written after those of the pages before.
LEMMA JoinedAppend ==
  ASSUME PagedInv, fetching.at = "page", NEW k \in 0 .. Len(Page)
  PROVE  LET rows == table.rows \o SubSeq(Page, 1, k) IN
         /\ rows \in Seq(Int) /\ Len(rows) = Len(table.rows) + k /\ Joined(rows)
         /\ k > 0 => rows[Len(rows)] = PageStart + k - 1
<1> DEFINE p == SubSeq(Page, 1, k)
           s == table.rows
           rows == s \o p
<1>1. p \in Seq(Int) /\ Len(p) = k /\ k \in Nat /\ \A i \in 1 .. Len(p) : p[i] = PageStart + i - 1
  BY PageFacts, PrefixFacts
<1>2. s \in Seq(Int) /\ Len(s) \in Nat
  BY JobFacts
<1>3. PageStart \in Int
  BY PageFacts
<1>4. Joined(rows)
  <2>1. ASSUME (job.named /\ Length <= job.size) \/ job.mode = "once"
        PROVE  \A i \in 1 .. Len(rows) - 1 : Follows(rows[i], rows[i + 1])
    <3>1. job.mode # "once" /\ job.named /\ Length <= job.size /\ Joined(table.rows) /\ NextPageFits
      BY <2>1 DEF PagedInv, Paging
    <3>2. \A i \in 1 .. Len(s) - 1 : Follows(s[i], s[i + 1])
      BY <3>1 DEF Joined
    <3>3. Len(s) > 0 => Follows(s[Len(s)], PageStart)
      <4>1. ASSUME Len(s) > 0 PROVE s # <<>>
        BY <4>1
      <4>. QED
        BY <4>1, <3>1, FetcherFacts DEF NextPageFits
    <3> HIDE DEF p, s
    <3>. QED
      BY <1>1, <1>2, <1>3, <3>2, <3>3, FollowAppended
  <2>. QED
    BY <2>1 DEF Joined
<1> HIDE DEF p, s
<1>5. /\ rows \in Seq(Int) /\ Len(rows) = Len(s) + k
      /\ \A i \in Len(s) + 1 .. Len(s) + Len(p) : rows[i] = p[i - Len(s)]
  BY <1>1, <1>2, AppendedFacts
<1> HIDE DEF rows
<1>6. ASSUME k > 0 PROVE rows[Len(rows)] = PageStart + k - 1
  <2>1. Len(rows) \in Len(s) + 1 .. Len(s) + Len(p) /\ Len(rows) - Len(s) = k /\ k \in 1 .. Len(p)
    BY <1>1, <1>2, <1>5, <1>6
  <2>. QED
    BY <2>1, <1>1, <1>5
<1>. QED
  BY <1>4, <1>5, <1>6 DEF rows, p, s

\* A step that leaves the binding and the source alone.
LEMMA WorldKept ==
  ASSUME PagedInv, KeepWorld \/ DiskFault
  PROVE  job' = job /\ remote' = remote /\ arrivals' = arrivals /\ disk' \in Nat
  BY DEF KeepWorld, DiskFault, PagedInv, PagedTypes

\* A fetch fails, and is tried again or not.
LEMMA FailStep ==
  ASSUME PagedInv, job' = job, remote' = remote, arrivals' = arrivals, disk' \in Nat,
         Fail(fetching), table' \in ParquetFile, table'.state # "readable"
  PROVE  PagedInv'
<1>1. /\ fetching'.at \in {"failed", "idle"} /\ fetching'.page = 0 /\ fetching'.total = 0 /\ fetching'.cursor = NoCursor
      /\ fetching'.partial = FALSE /\ fetching'.cut = FALSE /\ fetching'.broken = FALSE /\ fetching' \in Fetcher
  <2>1. NotFetched \in Fetcher /\ fetching.retries + 1 \in Nat
    BY FetcherFacts DEF NotFetched, Fetcher, NoCursor
  <2> DEFINE a == IF fetching.retries + 1 > MaxRetry THEN "failed" ELSE "idle"
  <2>2. fetching' = [NotFetched EXCEPT !.retries = fetching.retries + 1, !.at = a] /\ a \in {"failed", "idle"}
    BY DEF Fail
  <2> HIDE DEF a
  <2>3. /\ NotFetched.page = 0 /\ NotFetched.total = 0 /\ NotFetched.cursor = NoCursor
        /\ NotFetched.partial = FALSE /\ NotFetched.cut = FALSE /\ NotFetched.broken = FALSE
    BY DEF NotFetched
  <2>. QED
    BY <2>1, <2>2, <2>3 DEF Fetcher
<1>2. PagedTypes'
  BY <1>1, JobFacts DEF PagedTypes
<1>3. SourceGrows'
  BY DEF PagedInv, SourceGrows
<1>4. NotYetReadable' /\ Beginning' /\ Paging' /\ Closing' /\ StagedTable'
  BY <1>1 DEF NotYetReadable, Beginning, Paging, Closing, StagedTable
<1>. QED
  BY <1>2, <1>3, <1>4 DEF PagedInv

\* What a fetch that fails keeps of its rows.
LEMMA PartialStep ==
  ASSUME PagedInv, job' = job, remote' = remote, arrivals' = arrivals, disk' \in Nat, fetching.at = "page",
         NEW rows \in Seq(Int), NEW state \in {"torn", "readable"}, Partial(rows, state),
         Joined(rows), fetching.total <= Len(rows), Len(rows) <= job.cap
  PROVE  PagedInv'
<1>1. CASE fetching.total > 0
  <2>1. /\ table' = [state |-> state, rows |-> rows]
        /\ fetching' = [fetching EXCEPT !.at = "staged", !.partial = TRUE, !.broken = state = "torn"]
    BY <1>1 DEF Partial
  <2>2. /\ fetching'.at = "staged" /\ fetching'.partial = TRUE /\ fetching'.broken = (state = "torn")
        /\ fetching'.total = fetching.total /\ fetching' \in Fetcher
    BY <2>1, FetcherFacts DEF Fetcher
  <2>3. table'.state = state /\ table'.rows = rows /\ table' \in ParquetFile
    BY <2>1 DEF ParquetFile
  <2>4. PagedTypes'
    BY <2>2, <2>3, JobFacts DEF PagedTypes
  <2>5. SourceGrows'
    BY DEF PagedInv, SourceGrows
  <2>6. Joined(rows)'
    BY DEF Joined, Length, Follows
  <2>7. StagedTable'
    BY <2>2, <2>3, <2>6 DEF StagedTable
  <2>8. NotYetReadable' /\ Beginning' /\ Paging' /\ Closing'
    BY <2>2 DEF NotYetReadable, Beginning, Paging, Closing
  <2>. QED
    BY <2>4, <2>5, <2>7, <2>8 DEF PagedInv
<1>2. CASE ~(fetching.total > 0)
  <2>1. table' = NoTable /\ Fail(fetching)
    BY <1>2 DEF Partial
  <2>2. table' \in ParquetFile /\ table'.state # "readable"
    BY <2>1 DEF NoTable, ParquetFile
  <2>. QED
    BY <2>1, <2>2, FailStep
<1>. QED
  BY <1>1, <1>2

\* A page is written, and the fetch ends or goes on.
LEMMA PageArrivesStep ==
  ASSUME PagedInv, PageArrives
  PROVE  PagedInv'
<1>0. fetching.at = "page" /\ job' = job /\ remote' = remote /\ arrivals' = arrivals /\ disk' \in Nat
  BY WorldKept DEF PageArrives, Fetching
<1>1. PICK more \in BOOLEAN :
        /\ Page # <<>> /\ Page[Len(Page)] < remote.last => more
        /\ NextPage(IF more /\ Page # <<>> THEN <<Page[Len(Page)]>> ELSE NoCursor)
  BY DEF PageArrives
<1> DEFINE answer == IF more /\ Page # <<>> THEN <<Page[Len(Page)]>> ELSE NoCursor
<1>2. /\ job.mode # "once" /\ fetching.total = Len(table.rows) /\ fetching.total < job.cap
      /\ ~fetching.partial /\ ~fetching.cut /\ ~fetching.broken /\ Joined(table.rows) /\ NextPageFits
  BY <1>0 DEF PagedInv, Paging
<1>3. SourceGrows'
  BY <1>0 DEF PagedInv, SourceGrows
<1>4. table.state # "readable"
  BY <1>0 DEF PagedInv, NotYetReadable
<1>5. CASE Page = <<>>
  <2>1. fetching' = [fetching EXCEPT !.at = "close"] /\ table' = table
    BY <1>1, <1>5 DEF NextPage
  <2>2. /\ fetching'.at = "close" /\ fetching'.total = fetching.total /\ fetching'.partial = fetching.partial
        /\ fetching'.broken = fetching.broken /\ fetching' \in Fetcher
    BY <2>1, FetcherFacts DEF Fetcher
  <2>3. PagedTypes'
    BY <1>0, <2>1, <2>2, JobFacts DEF PagedTypes
  <2>4. Joined(table.rows)'
    BY <1>0, <1>2, <2>1 DEF Joined, Length, Follows
  <2>5. Complete(table.rows)
    <3>1. ASSUME table.rows # <<>>, job.named PROVE table.rows[Len(table.rows)] >= job.last
      <4>1. PageStart <= table.rows[Len(table.rows)] + 1
        BY <1>2, <3>1, JobFacts, FetcherFacts DEF NextPageFits
      <4>2. table.rows[Len(table.rows)] \in Int
        BY <3>1, JobFacts
      <4>3. job.last <= remote.last /\ PageStart > remote.last /\ PageStart \in Int
        BY <1>0, <1>5, PageFacts DEF PagedInv, SourceGrows
      <4>. QED
        BY <4>1, <4>2, <4>3, JobFacts
    <3>. QED
      BY <3>1 DEF Complete
  <2>6. Complete(table.rows)'
    BY <1>0, <2>1, <2>5 DEF Complete, Length
  <2>7. Closing'
    BY <1>0, <1>2, <2>1, <2>2, <2>4, <2>6, JobFacts DEF Closing
  <2>8. NotYetReadable' /\ Beginning' /\ Paging' /\ StagedTable'
    BY <1>4, <2>1, <2>2 DEF NotYetReadable, Beginning, Paging, StagedTable
  <2>. QED
    BY <1>3, <2>3, <2>7, <2>8 DEF PagedInv
<1>6. CASE Page # <<>>
  <2> DEFINE k == Least(Len(Page), job.cap - fetching.total)
             items == SubSeq(Page, 1, k)
             rows == table.rows \o items
             total == fetching.total + Len(items)
             f == [fetching EXCEPT !.page = @ + 1, !.total = total]
  <2>1. k \in 1 .. Len(Page) /\ (k < Len(Page) => fetching.total + k = job.cap) /\ fetching.total + k <= job.cap
    <3>1. Len(Page) \in Nat \ {0} /\ job.cap \in Nat /\ fetching.total \in Nat /\ fetching.total < job.cap
      BY <1>0, <1>2, <1>6, PageFacts, PagedNumbers, FetcherFacts
    <3>. QED
      BY <3>1 DEF Least
  <2>2. items \in Seq(Int) /\ Len(items) = k
    BY <2>1, <1>0, PageFacts, PrefixFacts
  <2>3. /\ rows \in Seq(Int) /\ Len(rows) = Len(table.rows) + k /\ Joined(rows)
        /\ rows[Len(rows)] = PageStart + k - 1
    <3>1. k \in 0 .. Len(Page) /\ k > 0
      BY <2>1, <1>0, PageFacts
    <3> HIDE DEF k
    <3>. QED
      BY <3>1, <1>0, JoinedAppend
  <2>4. table' = [table EXCEPT !.rows = @ \o items]
    BY <1>1, <1>6 DEF NextPage
  <2>5. fetching' = IF total >= job.cap \/ Len(items) < job.size THEN [f EXCEPT !.at = "close"]
                    ELSE IF job.mode # "cursor" THEN f
                    ELSE IF job.shape # "object" \/ ~job.next \/ answer = NoCursor THEN [f EXCEPT !.at = "close"]
                    ELSE [f EXCEPT !.cursor = answer]
    BY <1>1, <1>6 DEF NextPage
  <2> HIDE DEF k, items
  <2>6. table'.rows = rows /\ table'.state = table.state /\ table' \in ParquetFile
    <3>1. table \in [state : {"absent", "torn", "readable"}, rows : Seq(Int)]
      BY JobFacts DEF ParquetFile
    <3> HIDE DEF rows
    <3>2. table' = [table EXCEPT !.rows = rows]
      BY <2>4 DEF rows
    <3>. QED
      BY <3>1, <3>2, <2>3 DEF ParquetFile
  <2> HIDE DEF rows
  <2>7. total = Len(rows) /\ total \in Nat /\ total <= job.cap /\ total = fetching.total + k /\ k \in Nat
    <3>1. k \in Nat /\ Len(table.rows) \in Nat /\ job.cap \in Nat
      <4>1. Len(Page) \in Nat
        BY <1>0, PageFacts
      <4>. QED
        BY <2>1, <4>1, JobFacts
    <3>. QED
      BY <3>1, <2>1, <2>2, <2>3, <1>2
  <2> HIDE DEF total
  <2>8. /\ f \in Fetcher /\ f.at = "page" /\ f.page = fetching.page + 1 /\ f.total = total /\ f.cursor = fetching.cursor
        /\ f.partial = fetching.partial /\ f.cut = fetching.cut /\ f.broken = fetching.broken
    <3>1. fetching.page + 1 \in Nat /\ fetching \in Fetcher
      BY FetcherFacts
    <3>. QED
      BY <1>0, <2>7, <3>1 DEF Fetcher
  <2> HIDE DEF f
  <2>9. Joined(table.rows)'
    BY <1>0, <2>3, <2>6 DEF Joined, Length, Follows
  <2>10. rows # <<>>
    <3>1. Len(rows) > 0
      BY <2>1, <2>3, <2>7, <1>2, FetcherFacts
    <3>. QED
      BY <3>1, <2>3
  <2>11. CASE total >= job.cap \/ Len(items) < job.size \/ (job.mode = "cursor" /\ (job.shape # "object" \/ ~job.next \/ answer = NoCursor))
    <3>1. fetching' = [f EXCEPT !.at = "close"]
      BY <2>5, <2>11
    <3>2. /\ fetching'.at = "close" /\ fetching'.total = total /\ fetching'.partial = fetching.partial
          /\ fetching'.broken = fetching.broken /\ fetching' \in Fetcher
      BY <2>8, <3>1 DEF Fetcher
    <3>3. PagedTypes'
      BY <1>0, <2>6, <3>2, JobFacts DEF PagedTypes
    <3>4. Complete(rows)
      <4>1. ASSUME job.named, Length >= job.size, job.mode = "cursor" => job.shape = "object" /\ job.next, total # job.cap
            PROVE  rows[Len(rows)] >= job.last
        <5>1. k = Len(Page)
          BY <4>1, <2>1, <2>7, PageFacts, <1>0
        <5>2. CASE Len(items) < job.size
          <6>1. PageStart + Len(Page) - 1 = remote.last
            <7>1. Len(Page) < Length
              BY <5>1, <5>2, <4>1, <2>2, <2>7, PagedNumbers
            <7>. QED
              BY <7>1, <1>6, <1>0, PageFacts
          <6>. QED
            BY <6>1, <5>1, <2>3, <1>0, JobFacts DEF PagedInv, SourceGrows
        <5>3. CASE job.mode = "cursor" /\ answer = NoCursor
          <6>1. ~more
            BY <5>3, <1>6 DEF NoCursor
          <6>2. ~(Page[Len(Page)] < remote.last)
            BY <6>1, <1>1, <1>6
          <6>3. Page[Len(Page)] = PageStart + Len(Page) - 1 /\ PageStart + Len(Page) - 1 \in Int
            BY <1>0, <1>6, PageFacts
          <6>. QED
            BY <6>2, <6>3, <5>1, <2>3, <1>0, JobFacts DEF PagedInv, SourceGrows
        <5>4. Len(items) < job.size \/ (job.mode = "cursor" /\ answer = NoCursor)
          BY <2>11, <4>1, <2>7, JobFacts
        <5>. QED
          BY <5>2, <5>3, <5>4
      <4>. QED
        BY <4>1, <2>7 DEF Complete
    <3>5. Complete(table.rows)'
      BY <1>0, <2>6, <3>4 DEF Complete, Length
    <3>6. Closing'
      BY <1>0, <1>2, <2>6, <2>7, <2>9, <3>2, <3>5 DEF Closing
    <3>7. NotYetReadable' /\ Beginning' /\ Paging' /\ StagedTable'
      BY <1>4, <2>6, <3>2 DEF NotYetReadable, Beginning, Paging, StagedTable
    <3>. QED
      BY <1>3, <3>3, <3>6, <3>7 DEF PagedInv
  <2>12. CASE ~(total >= job.cap \/ Len(items) < job.size \/ (job.mode = "cursor" /\ (job.shape # "object" \/ ~job.next \/ answer = NoCursor)))
    <3>1. k = Len(Page) /\ k >= job.size /\ total < job.cap
      <4>1. Len(Page) \in Nat /\ job.size \in Nat /\ job.cap \in Nat
        BY <1>0, PageFacts, PagedNumbers
      <4>. QED
        BY <4>1, <2>12, <2>1, <2>2, <2>7
    <3>2. job.mode = "cursor" => answer = <<Page[Len(Page)]>>
      BY <2>12
    <3>3. Page[Len(Page)] = PageStart + k - 1 /\ Page[Len(Page)] \in Int
      BY <3>1, <2>1, <1>0, PageFacts
    <3> HIDE DEF answer
    <3>4. /\ fetching' \in Fetcher /\ fetching'.at = "page" /\ fetching'.page = fetching.page + 1 /\ fetching'.total = total
          /\ fetching'.partial = fetching.partial /\ fetching'.cut = fetching.cut /\ fetching'.broken = fetching.broken
          /\ job.mode = "cursor" => fetching'.cursor = <<Page[Len(Page)]>>
      <4>1. CASE job.mode # "cursor"
        BY <4>1, <2>5, <2>8, <2>12
      <4>2. CASE job.mode = "cursor"
        <5>1. fetching' = [f EXCEPT !.cursor = answer]
          BY <4>2, <2>5, <2>12
        <5>2. answer \in {NoCursor} \cup {<<i>> : i \in Int}
          BY <4>2, <3>2, <3>3
        <5>. QED
          BY <5>1, <5>2, <3>2, <4>2, <2>8 DEF Fetcher
      <4>. QED
        BY <4>1, <4>2
    <3>5. PagedTypes'
      BY <1>0, <2>6, <3>4, JobFacts DEF PagedTypes
    <3>6. NextPageFits'
      <4>1. ASSUME job.named
            PROVE  /\ PageStart' \in Int /\ PageStart' <= rows[Len(rows)] + 1
                   /\ Length <= job.size => PageStart' = rows[Len(rows)] + 1
        <5>1. CASE job.mode = "offset"
          <6>1. PageStart = remote.first + Offset(fetching.page) /\ PageStart' = remote.first + Offset(fetching.page + 1)
            BY <4>1, <5>1, <3>4, <1>0 DEF PageStart, Offset
          <6>2. Offset(fetching.page + 1) = Offset(fetching.page) + job.size /\ Offset(fetching.page) \in Int
            <7>1. fetching.page \in Nat /\ job.size \in Nat
              BY PagedNumbers, FetcherFacts
            <7>. QED
              BY <7>1 DEF Offset
          <6>3. PageStart' = PageStart + job.size
            BY <6>1, <6>2, JobFacts
          <6>4. Length <= job.size => k = job.size
            BY <3>1, <1>0, PageFacts, JobFacts
          <6>. QED
            <7>1. PageStart \in Int /\ k \in Nat /\ job.size \in Nat
              BY <2>7, <1>0, PageFacts, PagedNumbers
            <7>2. rows[Len(rows)] = PageStart + k - 1 /\ k >= job.size
              BY <2>3, <3>1
            <7> HIDE DEF k
            <7>. QED
              BY <7>1, <7>2, <6>3, <6>4
        <5>2. CASE job.mode = "cursor"
          <6>1. fetching'.page > 0
            BY <3>4, FetcherFacts
          <6>2. PageStart' = fetching'.cursor[1] + 1
            BY <6>1, <4>1, <5>2, <1>0 DEF PageStart
          <6>3. PageStart' = Page[Len(Page)] + 1
            BY <6>2, <5>2, <3>4
          <6>. QED
            BY <6>3, <3>3, <2>3
        <5>. QED
          BY <5>1, <5>2, <1>2, JobFacts
      <4>2. fetching'.page > 0
        BY <3>4, FetcherFacts
      <4>3. rows[Len(rows)] \in Int
        BY <2>3, <3>3
      <4>. QED
        BY <4>1, <4>2, <4>3, <2>6, <2>10, <1>0 DEF NextPageFits, Follows, Length
    <3>7. Paging'
      <4>1. job.mode = "cursor" => fetching'.cursor # NoCursor
        <5>1. <<Page[Len(Page)]>> # <<>>
          OBVIOUS
        <5>. QED
          BY <3>4, <5>1 DEF NoCursor
      <4>. QED
        BY <1>0, <1>2, <2>6, <2>7, <2>9, <3>1, <3>4, <3>6, <4>1 DEF Paging
    <3>8. NotYetReadable' /\ Beginning' /\ Closing' /\ StagedTable'
      BY <1>4, <2>6, <3>4 DEF NotYetReadable, Beginning, Closing, StagedTable
    <3>. QED
      BY <1>3, <3>5, <3>7, <3>8 DEF PagedInv
  <2>. QED
    BY <2>11, <2>12
<1>. QED
  BY <1>5, <1>6

\* A page is not to be had, or not to be written.
LEMMA PageFailsStep ==
  ASSUME PagedInv, PageFails \/ PageNotWritten
  PROVE  PagedInv'
<1>0. fetching.at = "page" /\ job' = job /\ remote' = remote /\ arrivals' = arrivals /\ disk' \in Nat
  BY WorldKept DEF PageFails, PageNotWritten, Fetching
<1>1. fetching.total = Len(table.rows) /\ fetching.total < job.cap /\ Joined(table.rows)
  BY <1>0 DEF PagedInv, Paging
<1>2. table.rows \in Seq(Int) /\ Len(table.rows) \in Nat /\ job.cap \in Nat
  BY JobFacts
<1>3. CASE PageFails
  <2>1. Partial(table.rows, "readable")
    BY <1>3 DEF PageFails
  <2>. QED
    BY <1>0, <1>1, <1>2, <2>1, PartialStep
<1>4. CASE PageNotWritten
  <2>1. PICK n \in 0 .. Len(Page), state \in {"torn", "readable"} :
          Partial(table.rows \o SubSeq(Page, 1, Least(n, job.cap - fetching.total)), state)
    BY <1>4 DEF PageNotWritten
  <2> DEFINE k == Least(n, job.cap - fetching.total)
  <2>2. k \in 0 .. Len(Page) /\ fetching.total + k <= job.cap /\ k \in Nat
    <3>1. Len(Page) \in Nat /\ fetching.total \in Nat
      BY <1>0, PageFacts, FetcherFacts
    <3>. QED
      BY <3>1, <1>1, <1>2 DEF Least
  <2>3. Partial(table.rows \o SubSeq(Page, 1, k), state)
    BY <2>1
  <2> HIDE DEF k
  <2> DEFINE rows == table.rows \o SubSeq(Page, 1, k)
  <2>4. rows \in Seq(Int) /\ Len(rows) = Len(table.rows) + k /\ Joined(rows)
    BY <1>0, <2>2, JoinedAppend
  <2>5. Partial(rows, state)
    BY <2>3
  <2> HIDE DEF rows
  <2>6. fetching.total <= Len(rows) /\ Len(rows) <= job.cap
    BY <1>1, <1>2, <2>2, <2>4
  <2>. QED
    BY <1>0, <2>4, <2>5, <2>6, PartialStep
<1>. QED
  BY <1>3, <1>4

\* The steps that only move the goroutine, or make or close the file.
LEMMA FetcherMoves ==
  ASSUME PagedInv, OpenWriter \/ BudgetOver \/ CloseWriter \/ CallTool \/ WriteAll
  PROVE  PagedInv'
<1>0. job' = job /\ remote' = remote /\ arrivals' = arrivals /\ disk' \in Nat
  BY WorldKept DEF OpenWriter, BudgetOver, CloseWriter, CallTool, WriteAll
<1>1. SourceGrows'
  BY <1>0 DEF PagedInv, SourceGrows
<1>2. ASSUME OpenWriter PROVE PagedInv'
  <2>1. fetching.at = "idle" /\ job.mode # "once" /\ table' = [state |-> "torn", rows |-> <<>>] /\ fetching' = [fetching EXCEPT !.at = "page"]
    BY <1>2 DEF OpenWriter, Fetching
  <2>2. /\ fetching.page = 0 /\ fetching.total = 0 /\ fetching.cursor = NoCursor
        /\ ~fetching.partial /\ ~fetching.cut /\ ~fetching.broken
    BY <2>1 DEF PagedInv, Beginning
  <2>3. /\ fetching' \in Fetcher /\ fetching'.at = "page" /\ fetching'.page = 0 /\ fetching'.total = 0
        /\ fetching'.partial = fetching.partial /\ fetching'.cut = fetching.cut /\ fetching'.broken = fetching.broken
    BY <2>1, <2>2, FetcherFacts DEF Fetcher
  <2>4. table'.state = "torn" /\ table'.rows = <<>> /\ table' \in ParquetFile
    BY <2>1 DEF ParquetFile
  <2>5. PagedTypes'
    BY <1>0, <2>3, <2>4, JobFacts DEF PagedTypes
  <2>6. Len(table'.rows) = 0
    BY <2>4
  <2>7. Joined(table.rows)'
    BY <2>6 DEF Joined
  <2>8. NextPageFits'
    BY <2>3, <2>4 DEF NextPageFits
  <2>9. Paging'
    <3>1. job.cap \in Nat \ {0}
      BY PagedNumbers
    <3>. QED
      BY <1>0, <2>1, <2>2, <2>3, <2>6, <2>7, <2>8, <3>1 DEF Paging
  <2>10. NotYetReadable' /\ Beginning' /\ Closing' /\ StagedTable'
    BY <2>3, <2>4 DEF NotYetReadable, Beginning, Closing, StagedTable
  <2>. QED
    BY <1>1, <2>5, <2>9, <2>10 DEF PagedInv
<1>3. ASSUME BudgetOver PROVE PagedInv'
  <2>1. fetching.at = "page" /\ table' = table /\ fetching' = [fetching EXCEPT !.at = "close", !.cut = TRUE]
    BY <1>3 DEF BudgetOver, Fetching
  <2>2. fetching.total = Len(table.rows) /\ fetching.total < job.cap /\ ~fetching.partial /\ ~fetching.broken /\ Joined(table.rows)
    BY <2>1 DEF PagedInv, Paging
  <2>3. /\ fetching' \in Fetcher /\ fetching'.at = "close" /\ fetching'.total = fetching.total /\ fetching'.cut = TRUE
        /\ fetching'.partial = fetching.partial /\ fetching'.broken = fetching.broken
    BY <2>1, FetcherFacts DEF Fetcher
  <2>4. PagedTypes'
    BY <1>0, <2>1, <2>3, JobFacts DEF PagedTypes
  <2>5. Joined(table.rows)'
    BY <1>0, <2>1, <2>2 DEF Joined, Length, Follows
  <2>6. Closing'
    <3>1. job.cap \in Nat /\ fetching.total \in Nat
      BY PagedNumbers, FetcherFacts
    <3>. QED
      BY <1>0, <2>1, <2>2, <2>3, <2>5, <3>1 DEF Closing
  <2>7. NotYetReadable' /\ Beginning' /\ Paging' /\ StagedTable'
    BY <2>1, <2>3 DEF PagedInv, NotYetReadable, Beginning, Paging, StagedTable
  <2>. QED
    BY <1>1, <2>4, <2>6, <2>7 DEF PagedInv
<1>4. ASSUME CloseWriter PROVE PagedInv'
  <2>1. fetching.at = "close" /\ table' = [table EXCEPT !.state = "readable"] /\ fetching' = [fetching EXCEPT !.at = "staged"]
    BY <1>4 DEF CloseWriter, Fetching
  <2>2. /\ fetching.total = Len(table.rows) /\ fetching.total <= job.cap /\ ~fetching.partial /\ ~fetching.broken
        /\ Joined(table.rows) /\ (~fetching.cut /\ job.mode # "once" => Complete(table.rows))
    BY <2>1 DEF PagedInv, Closing
  <2>3. /\ fetching' \in Fetcher /\ fetching'.at = "staged" /\ fetching'.total = fetching.total /\ fetching'.cut = fetching.cut
        /\ fetching'.partial = fetching.partial /\ fetching'.broken = fetching.broken
    BY <2>1, FetcherFacts DEF Fetcher
  <2>4. table'.state = "readable" /\ table'.rows = table.rows /\ table' \in ParquetFile
    BY <2>1, JobFacts DEF ParquetFile
  <2>5. PagedTypes'
    BY <1>0, <2>3, <2>4, JobFacts DEF PagedTypes
  <2>6. Joined(table.rows)' /\ (Complete(table.rows) => Complete(table.rows)')
    BY <1>0, <2>2, <2>4 DEF Joined, Length, Follows, Complete
  <2>7. fetching.total <= Len(table.rows)
    BY <2>2, FetcherFacts
  <2>8. StagedTable'
    BY <1>0, <2>2, <2>3, <2>4, <2>6, <2>7 DEF StagedTable
  <2>9. NotYetReadable' /\ Beginning' /\ Paging' /\ Closing'
    BY <2>3 DEF NotYetReadable, Beginning, Paging, Closing
  <2>. QED
    BY <1>1, <2>5, <2>8, <2>9 DEF PagedInv
<1>5. ASSUME CallTool PROVE PagedInv'
  <2>1. fetching.at = "idle" /\ job.mode = "once" /\ table' = table /\ fetching' = [fetching EXCEPT !.at = "once"]
    BY <1>5 DEF CallTool, Fetching
  <2>2. /\ fetching' \in Fetcher /\ fetching'.at = "once" /\ fetching'.page = fetching.page /\ fetching'.total = fetching.total
        /\ fetching'.cursor = fetching.cursor /\ fetching'.partial = fetching.partial /\ fetching'.cut = fetching.cut
        /\ fetching'.broken = fetching.broken
    BY <2>1, FetcherFacts DEF Fetcher
  <2>3. PagedTypes'
    BY <1>0, <2>1, <2>2, JobFacts DEF PagedTypes
  <2>4. NotYetReadable' /\ Beginning' /\ Paging' /\ Closing' /\ StagedTable'
    BY <1>0, <2>1, <2>2 DEF PagedInv, NotYetReadable, Beginning, Paging, Closing, StagedTable
  <2>. QED
    BY <1>1, <2>3, <2>4 DEF PagedInv
<1>6. ASSUME WriteAll PROVE PagedInv'
  <2> DEFINE k == Least(Len(Object), job.cap)
             items == SubSeq(Object, 1, k)
  <2>1. fetching.at = "once" /\ table' = [state |-> "torn", rows |-> items] /\ fetching' = [fetching EXCEPT !.at = "close", !.total = Len(items)]
    BY <1>6 DEF WriteAll, Fetching
  <2>2. job.mode = "once" /\ ~fetching.partial /\ ~fetching.cut /\ ~fetching.broken
    BY <2>1 DEF PagedInv, Beginning
  <2>3. PICK n \in Nat : Object = RowsFrom(remote.first, n)
    <3>1. Least(job.most, remote.last - remote.first + 1) \in Nat
      <4>1. remote.first <= remote.last + 1
        BY DEF PagedInv, SourceGrows
      <4>2. job.most \in Nat
        BY JobFacts
      <4>. QED
        BY <4>1, <4>2, PagedNumbers DEF Least
    <3>2. 1 \in Nat
      OBVIOUS
    <3>. QED
      BY <3>1, <3>2 DEF Object
  <2>4. remote.first \in Int
    BY PagedNumbers
  <2>5. Object \in Seq(Int) /\ Len(Object) = n /\ \A i \in 1 .. n : Object[i] = remote.first + i - 1
    BY <2>3, <2>4, RowsFromFacts
  <2>6. k \in 0 .. Len(Object) /\ k <= job.cap /\ k \in Nat /\ k <= n
    BY <2>5, PagedNumbers DEF Least
  <2>7. items \in Seq(Int) /\ Len(items) = k /\ \A i \in 1 .. k : items[i] = Object[i]
    BY <2>5, <2>6, PrefixFacts
  <2> HIDE DEF items, k
  <2>8. /\ fetching' \in Fetcher /\ fetching'.at = "close" /\ fetching'.total = k /\ fetching'.cut = fetching.cut
        /\ fetching'.partial = fetching.partial /\ fetching'.broken = fetching.broken
    BY <2>1, <2>6, <2>7, FetcherFacts DEF Fetcher
  <2>9. table'.state = "torn" /\ table'.rows = items /\ table' \in ParquetFile
    BY <2>1, <2>7 DEF ParquetFile
  <2>10. PagedTypes'
    BY <1>0, <2>8, <2>9, JobFacts DEF PagedTypes
  <2>11. PICK rows \in Seq(Int) : rows = items
    BY <2>7
  <2>12. Joined(table.rows)'
    <3>1. ASSUME NEW i \in 1 .. Len(rows) - 1 PROVE Follows(rows[i], rows[i + 1])'
      <4>1. i \in 1 .. n /\ i + 1 \in 1 .. n /\ i \in 1 .. k /\ i + 1 \in 1 .. k /\ i \in Nat
        BY <2>6, <2>7, <2>11
      <4>2. rows[i] = remote.first + i - 1 /\ rows[i + 1] = remote.first + (i + 1) - 1
        BY <4>1, <2>5, <2>7, <2>11
      <4>3. rows[i] \in Int /\ rows[i + 1] = rows[i] + 1
        BY <4>1, <4>2, <2>4
      <4>. QED
        BY <4>3 DEF Follows
    <3>2. table'.rows = rows
      BY <2>9, <2>11
    <3>. QED
      BY <3>1, <3>2 DEF Joined
  <2>13. Closing'
    BY <1>0, <2>2, <2>6, <2>7, <2>8, <2>9, <2>12 DEF Closing
  <2>14. NotYetReadable' /\ Beginning' /\ Paging' /\ StagedTable'
    BY <2>8, <2>9 DEF NotYetReadable, Beginning, Paging, StagedTable
  <2>. QED
    BY <1>1, <2>10, <2>13, <2>14 DEF PagedInv
<1>. QED
  BY <1>2, <1>3, <1>4, <1>5, <1>6

\* A fetch fails before it has rows, or its file is given up.
LEMMA FetchFailsStep ==
  ASSUME PagedInv, Refuse \/ OpenFails \/ CloseFails \/ CallToolFails
  PROVE  PagedInv'
<1>1. job' = job /\ remote' = remote /\ arrivals' = arrivals /\ disk' \in Nat
  BY WorldKept DEF Refuse, OpenFails, CloseFails, CallToolFails
<1>2. Fail(fetching)
  BY DEF Refuse, OpenFails, CloseFails, CallToolFails
<1>3. table' \in ParquetFile /\ table'.state # "readable"
  <2>1. CASE table' = NoTable
    BY <2>1 DEF NoTable, ParquetFile
  <2>2. CASE table' = table /\ fetching.at # "staged"
    BY <2>2, JobFacts DEF PagedInv, NotYetReadable
  <2>. QED
    BY <2>1, <2>2 DEF Refuse, OpenFails, CloseFails, CallToolFails, Fetching
<1>. QED
  BY <1>1, <1>2, <1>3, FailStep

\* The process ends under a fetch.
LEMMA FetcherDiesStep ==
  ASSUME PagedInv, FetcherDies
  PROVE  PagedInv'
<1>1. /\ fetching.at \in {"once", "page", "close"} /\ fetching' = NotFetched /\ table' = table
      /\ job' = job /\ remote' = remote /\ arrivals' = arrivals /\ disk' \in Nat
  BY WorldKept DEF FetcherDies
<1>2. /\ NotFetched \in Fetcher /\ NotFetched.at = "idle" /\ NotFetched.page = 0 /\ NotFetched.total = 0
      /\ NotFetched.cursor = NoCursor /\ NotFetched.partial = FALSE /\ NotFetched.cut = FALSE /\ NotFetched.broken = FALSE
  BY DEF NotFetched, Fetcher, NoCursor
<1>3. PagedTypes'
  BY <1>1, <1>2, JobFacts DEF PagedTypes
<1>4. SourceGrows'
  BY <1>1 DEF PagedInv, SourceGrows
<1>5. NotYetReadable'
  BY <1>1 DEF PagedInv, NotYetReadable
<1>6. Beginning' /\ Paging' /\ Closing' /\ StagedTable'
  BY <1>1, <1>2 DEF Beginning, Paging, Closing, StagedTable
<1>. QED
  BY <1>3, <1>4, <1>5, <1>6 DEF PagedInv

\* A row arrives in the source.
LEMMA RowArrivesStep ==
  ASSUME PagedInv, RowArrives
  PROVE  PagedInv'
<1>1. /\ fetching.at \notin {"staged", "failed"} /\ arrivals' = arrivals + 1
      /\ job' = job /\ table' = table /\ fetching' = fetching /\ disk' = disk
      /\ remote' \in {[remote EXCEPT !.last = @ + 1], [remote EXCEPT !.first = @ - 1]}
  BY DEF RowArrives
<1>2. /\ remote' \in [first : Int, last : Int] /\ arrivals' \in Nat
      /\ remote'.first \in {remote.first, remote.first - 1} /\ remote'.last \in {remote.last, remote.last + 1}
      /\ remote'.first \in Int /\ remote'.last \in Int
  BY <1>1, JobFacts
<1>3. PagedTypes'
  BY <1>1, <1>2 DEF PagedInv, PagedTypes
<1>4. SourceGrows'
  <2>1. SourceGrows
    BY DEF PagedInv
  <2>. QED
    BY <2>1, <1>1, <1>2, PagedNumbers DEF SourceGrows
<1>5. NotYetReadable' /\ Beginning' /\ StagedTable'
  BY <1>1 DEF PagedInv, NotYetReadable, Beginning, StagedTable
<1>6. Joined(table.rows) => Joined(table.rows)'
  <2>1. ASSUME NEW i \in 1 .. Len(table.rows) - 1, Follows(table.rows[i], table.rows[i + 1])
        PROVE  Follows(table.rows[i], table.rows[i + 1])'
    <3>1. table.rows[i] \in Int /\ table.rows[i + 1] \in Int
      <4>1. i \in 1 .. Len(table.rows) /\ i + 1 \in 1 .. Len(table.rows) /\ table.rows \in Seq(Int)
        BY JobFacts
      <4>. QED
        BY <4>1
    <3>. QED
      BY <2>1, <3>1, <1>1, PagedNumbers DEF Follows
  <2>. QED
    BY <2>1, <1>1 DEF Joined, Length
<1>7. Closing'
  BY <1>1, <1>6 DEF PagedInv, Closing, Complete, Length
<1>8. Paging'
  <2>1. ASSUME fetching.at = "page" PROVE Paging'
    <3>1. Paging /\ NextPageFits /\ Joined(table.rows) /\ job.mode # "once"
      BY <2>1 DEF PagedInv, Paging
    <3>2. ASSUME fetching.page > 0, job.named
          PROVE  /\ PageStart' \in {PageStart, PageStart - 1} /\ (job.mode # "offset" => PageStart' = PageStart)
                 /\ PageStart \in Int
      <4>1. CASE job.mode = "offset"
        <5>1. PageStart = remote.first + Offset(fetching.page) /\ PageStart' = remote'.first + Offset(fetching.page)
          BY <3>2, <4>1, <1>1 DEF PageStart, Offset
        <5>2. Offset(fetching.page) \in Int
          BY PagedNumbers, FetcherFacts DEF Offset
        <5>. QED
          BY <4>1, <5>1, <5>2, <1>2, PagedNumbers
      <4>2. CASE job.mode = "cursor"
        <5>1. PageStart' = PageStart
          BY <3>2, <4>2, <1>1 DEF PageStart
        <5>. QED
          BY <5>1, <2>1, PageFacts
      <4>. QED
        BY <4>1, <4>2, <3>1, JobFacts
    <3>3. NextPageFits'
      <4>1. ASSUME fetching.page > 0, job.named
            PROVE  LET this == table.rows[Len(table.rows)] IN
                   /\ PageStart' <= this + 1
                   /\ Length <= job.size => Follows(this, PageStart)'
        <5> DEFINE this == table.rows[Len(table.rows)]
        <5>1. this \in Int
          <6>1. table.rows # <<>> /\ table.rows \in Seq(Int)
            BY <3>1, <4>1, JobFacts DEF NextPageFits
          <6>. QED
            BY <6>1
        <5>2. PageStart <= this + 1 /\ (Length <= job.size => Follows(this, PageStart))
          BY <3>1, <4>1 DEF NextPageFits
        <5>3. this' = this
          BY <1>1
        <5> HIDE DEF this
        <5>4. PageStart' <= this + 1
          BY <5>1, <5>2, <4>1, <3>2
        <5>5. ASSUME Length <= job.size PROVE Follows(this, PageStart)'
          BY <5>1, <5>2, <5>3, <5>4, <5>5, <4>1, <3>2, <1>1, PagedNumbers DEF Follows
        <5>. QED
          BY <5>4, <5>5 DEF this
      <4>. QED
        BY <4>1, <3>1, <1>1 DEF NextPageFits, Length
    <3>. QED
      BY <3>1, <3>3, <1>1, <1>6 DEF Paging
  <2>. QED
    BY <2>1, <1>1 DEF Paging
<1>. QED
  BY <1>3, <1>4, <1>5, <1>7, <1>8 DEF PagedInv

\* The invariant of a paged fetch: where it is, what the file holds and where
\* the next page begins agree (mcp_fetcher.go, FetchPaginated).
THEOREM PagedInvariant == PagedSpec => []PagedInv
<1>1. PagedInit => PagedInv
  <2> SUFFICES ASSUME PagedInit PROVE PagedInv
    OBVIOUS
  <2>1. /\ job \in Jobs /\ remote = [first |-> job.first, last |-> job.last]
        /\ table = NoTable /\ fetching = NotFetched /\ arrivals = 0 /\ disk = 0
    BY DEF PagedInit
  <2>2. job.first \in Int /\ job.last \in Int /\ job.first <= job.last + 1
    BY <2>1, PagedAssumption DEF IsJob
  <2>3. /\ NotFetched \in Fetcher /\ NotFetched.at = "idle" /\ NotFetched.page = 0 /\ NotFetched.total = 0
        /\ NotFetched.cursor = NoCursor /\ NotFetched.partial = FALSE /\ NotFetched.cut = FALSE /\ NotFetched.broken = FALSE
    BY DEF NotFetched, Fetcher, NoCursor
  <2>4. NoTable \in ParquetFile /\ NoTable.state = "absent"
    BY DEF NoTable, ParquetFile
  <2>5. PagedTypes
    BY <2>1, <2>2, <2>3, <2>4 DEF PagedTypes
  <2>6. SourceGrows
    BY <2>1, <2>2 DEF SourceGrows
  <2>7. NotYetReadable /\ Beginning /\ Paging /\ Closing /\ StagedTable
    BY <2>1, <2>3, <2>4 DEF NotYetReadable, Beginning, Paging, Closing, StagedTable
  <2>. QED
    BY <2>5, <2>6, <2>7 DEF PagedInv
<1>2. PagedInv /\ [PagedNext]_pagedVars => PagedInv'
  <2> SUFFICES ASSUME PagedInv, [PagedNext]_pagedVars PROVE PagedInv'
    OBVIOUS
  <2>1. CASE UNCHANGED pagedVars
    <3>1. job' = job /\ remote' = remote /\ table' = table /\ fetching' = fetching /\ arrivals' = arrivals /\ disk' = disk
      BY <2>1 DEF pagedVars
    <3>2. PagedTypes' /\ SourceGrows' /\ NotYetReadable' /\ Beginning'
      BY <3>1 DEF PagedInv, PagedTypes, SourceGrows, NotYetReadable, Beginning
    <3>3. Joined(table.rows)' <=> Joined(table.rows)
      BY <3>1 DEF Joined, Length, Follows
    <3>4. (NextPageFits' <=> NextPageFits) /\ (Complete(table.rows)' <=> Complete(table.rows))
      BY <3>1 DEF NextPageFits, Follows, Length, PageStart, Offset, Complete
    <3>5. Paging' /\ Closing' /\ StagedTable'
      BY <3>1, <3>3, <3>4 DEF PagedInv, Paging, Closing, StagedTable
    <3>. QED
      BY <3>2, <3>5 DEF PagedInv
  <2>. QED
    BY <2>1, PageArrivesStep, PageFailsStep, FetcherMoves, FetchFailsStep, FetcherDiesStep, RowArrivesStep DEF PagedNext
<1>. QED
  BY <1>1, <1>2, PTL DEF PagedSpec

\* The pages of a staged table join, whatever its binding says, however many
\* rows it has or gains, and however often its fetch fails (Fetch,
\* FetchPaginated, buildPartialResult).
THEOREM StagedPagesJoin == PagedSpec => []PagesJoin
<1>1. PagedInv => PagesJoin
  <2> SUFFICES ASSUME PagedInv PROVE PagesJoin
    OBVIOUS
  <2>1. fetching.at = "failed" => table.state # "readable"
    BY DEF PagedInv, NotYetReadable
  <2>2. ASSUME fetching.at = "staged", ~fetching.broken
        PROVE  LET rows == table.rows IN
               /\ table.state = "readable"
               /\ fetching.total <= Len(rows) /\ Len(rows) <= job.cap
               /\ ~fetching.partial => Len(rows) = fetching.total
               /\ (job.named /\ Length <= job.size) \/ job.mode = "once" => \A i \in 1..Len(rows) - 1 :
                    /\ rows[i + 1] <= rows[i] + 1
                    /\ rows[i + 1] < rows[i] + 1 => job.mode = "offset" /\ rows[i] - rows[i + 1] < arrivals
               /\ ~fetching.partial /\ ~fetching.cut /\ rows # <<>> /\ job.named /\ job.mode # "once"
                    /\ (job.mode = "cursor" => job.shape = "object" /\ job.next)
                    /\ Length >= job.size =>
                      Len(rows) = job.cap \/ rows[Len(rows)] >= job.last
    <3>1. /\ table.state = "readable" /\ fetching.total <= Len(table.rows) /\ Len(table.rows) <= job.cap
          /\ ~fetching.partial => Len(table.rows) = fetching.total
          /\ Joined(table.rows)
          /\ ~fetching.partial /\ ~fetching.cut /\ job.mode # "once" => Complete(table.rows)
      BY <2>2 DEF PagedInv, StagedTable
    <3>. QED
      BY <3>1 DEF Joined, Follows, Complete
  <2>. QED
    BY <2>1, <2>2 DEF PagesJoin, Fetching
<1>. QED
  BY <1>1, PagedInvariant, PTL

(***************************************************************************)
(* The files of a project.                                                 *)
(***************************************************************************)

\* The entries that files have, and the states of a file: one that is not
\* whole says nothing.
Content ==
    {<<"drift", "plain">>, <<"drift", "quoted">>, <<"backend", "kubernetes">>, <<"backend", "local">>}
    \cup UNION {{<<id, "service">>, <<id, "var">>, <<id, "edited">>, <<id, "rendered">>,
                 ServerEntry(id, "local"), ServerEntry(id, "docker-compose"), ServerEntry(id, "k8s")} : id \in Id}
FileState == {f \in [is : {"absent", "torn", "whole"}, has : SUBSET Content] : f.is # "whole" => f.has = {}}
PlanStep == [do : {"update", "write", "delete", "scaffold"}, path : Path]
ConfigCommand ==
    [at : Rest \cup {"prompt", "normalize", "snapshot", "bak", "apply", "temp", "rename", "cleanup", "restore",
                     "rewrite", "unlink", "scaffold", "fill"},
     op : {"none", "init", "add", "remove"}, id : Asked \cup {"none"}, kind : Kind, force : BOOLEAN,
     plan : Seq(PlanStep), n : Nat, baks : Seq(Updated), written : SUBSET Path, node : FileState,
     before : [Path -> FileState] \cup {<<>>}, restored : BOOLEAN]

ProjectTypes ==
    /\ file \in [Path -> FileState] /\ bak \in [Path -> FileState] /\ cmd \in ConfigCommand
    /\ file[ManifestDir].has = {}

Edits(c) == c.op \in {"add", "remove"}

\* What the plan of an add or a remove is: each file once, the three files
\* that are updated and manifests, which an add without --force only makes.
PlanFits(c) ==
    /\ c.op = "none" => c.at = "idle"
    /\ c.op # "none" => c.before \in [Path -> FileState] /\ c.before[ManifestDir].has = {} /\ Len(c.plan) >= 1
    /\ Edits(c) =>
         /\ c.id \in Id
         /\ \A i, j \in DOMAIN c.plan : c.plan[i].path = c.plan[j].path => i = j
         /\ \A i \in DOMAIN c.plan : c.plan[i].path # ManifestDir /\ (c.plan[i].do = "update" <=> c.plan[i].path \in Updated)
    /\ c.op = "add" =>
         /\ \E i \in DOMAIN c.plan : c.plan[i].path = FractaYAML
         /\ c.kind = "k8s" => c.plan[1].do = "write" /\ Len(c.plan) >= 2
         /\ \A i \in DOMAIN c.plan : /\ c.plan[i].do \in {"update", "write"}
                                     /\ c.plan[i].do = "write" =>
                                          c.kind = "k8s" /\ (c.force \/ ~Exists(c.before[c.plan[i].path]))
         /\ \A p \in c.written : p \notin Updated /\ (c.force \/ ~Exists(c.before[p]))
    /\ c.op = "remove" =>
         \A i \in DOMAIN c.plan : /\ c.plan[i].do \in {"update", "delete"}
                                  /\ c.plan[i].do = "update" => Exists(c.before[c.plan[i].path])

\* The place of a command: its operation and its step.
PlaceOf(c) ==
    /\ c.at = "prompt" => c.n = 0 /\ c.op # "none"
    /\ c.at = "normalize" => c.n = 0 /\ c.op = "add"
    /\ c.at \in {"snapshot", "bak"} => c.n \in DOMAIN c.plan /\ c.op = "add"
    /\ c.at = "bak" => c.plan[c.n].do = "update"
    /\ c.at = "apply" => c.n \in DOMAIN c.plan /\ Edits(c)
    /\ c.at \in {"temp", "rename"} => (c.n = 0 /\ c.op = "add") \/ (c.n \in DOMAIN c.plan /\ Edits(c) /\ c.plan[c.n].do # "delete")
    /\ c.at = "cleanup" => c.n = Len(c.plan) + 1 /\ c.op = "add"
    /\ c.at \in {"scaffold", "fill"} => c.op = "init" /\ c.n \in DOMAIN c.plan
    /\ c.at \in {"restore", "rewrite", "unlink"} => c.op = "add"
    /\ c.at \in {"rewrite", "unlink"} => c.baks # <<>>
    /\ c.n = 0 => c.baks = <<>> /\ c.written = {}

\* The file p as the command found it, once normalised; a torn one may be
\* read as an empty document.
Found(p) == IF cmd.op = "add" /\ p = FractaYAML THEN Normal(cmd.before[p]) ELSE cmd.before[p]
AsFound(f, p) ==
    \/ f = Found(p)
    \/ cmd.op = "add" /\ p = FractaYAML /\ cmd.before[p].is = "torn" /\ f = Whole({})

\* The content of a file that was whole.
Same(f, p) == cmd.before[p].is = "whole" => f \in {cmd.before[p], Normal(cmd.before[p])}

SteppedBy(p, m) == \E i \in DOMAIN cmd.plan : i < m /\ cmd.plan[i].path = p
Saved(p) == SteppedBy(p, cmd.n) \/ (cmd.at \in {"apply", "temp", "rename"} /\ p = cmd.plan[cmd.n].path)

\* The file p, f, at the m-th step: those of the steps before are as they
\* should be, the others as they were.
InPlace(f, p, m) ==
    IF p = ManifestDir
    THEN f = IF cmd.op = "add" /\ cmd.kind = "k8s" /\ m >= 2 THEN Whole({}) ELSE cmd.before[p]
    ELSE IF SteppedBy(p, m) THEN f = Target(p) ELSE AsFound(f, p)

Stepping == cmd.at \in {"snapshot", "bak", "apply", "temp", "rename", "cleanup"}

NotBegun ==
    /\ cmd.at \in {"prompt", "normalize"} \/ (cmd.at \in {"temp", "rename"} /\ cmd.n = 0) => file = cmd.before
    /\ cmd.at = "normalize" => Exists(file[FractaYAML])
StepsDone == Stepping /\ cmd.n >= 1 => \A p \in Path : InPlace(file[p], p, cmd.n)

NodeFits ==
    /\ cmd.at = "bak" => cmd.node = file[cmd.plan[cmd.n].path]
    /\ cmd.at \in {"temp", "rename"} =>
         IF cmd.n = 0 THEN AsFound(cmd.node, FractaYAML) ELSE cmd.node = Target(cmd.plan[cmd.n].path)

\* What an add has saved.
BaksFit ==
    Stepping /\ cmd.op = "add" /\ cmd.n >= 1 =>
        /\ \A i \in DOMAIN cmd.baks : Saved(cmd.baks[i]) /\ Same(bak[cmd.baks[i]], cmd.baks[i])
        /\ \A p \in Updated : Saved(p) /\ cmd.before[p].is = "whole" => \E i \in DOMAIN cmd.baks : cmd.baks[i] = p

\* The rollback of an add: a file is as it was or saved.
Spared(p) == cmd.before[p].is # "whole" \/ (cmd.force /\ p \notin Updated)
RollingBack ==
    cmd.restored /\ cmd.at \in {"restore", "rewrite", "unlink"} =>
        /\ \A p \in Path : \/ Spared(p) \/ Same(file[p], p)
                           \/ Same(bak[p], p) /\ \E i \in DOMAIN cmd.baks : cmd.baks[i] = p
        /\ \A i \in DOMAIN cmd.baks : \/ Same(bak[cmd.baks[i]], cmd.baks[i])
                                      \/ bak[cmd.baks[i]] = Absent /\ Same(file[cmd.baks[i]], cmd.baks[i])
        /\ cmd.at = "rewrite" => Same(cmd.node, Last(cmd.baks)) /\ Same(bak[Last(cmd.baks)], Last(cmd.baks))
        /\ cmd.at = "unlink" => Same(file[Last(cmd.baks)], Last(cmd.baks))

\* The inductive invariant behind ProjectSound.
ProjectInv ==
    /\ ProjectTypes /\ PlanFits(cmd) /\ PlaceOf(cmd)
    /\ NotBegun /\ StepsDone /\ NodeFits /\ BaksFit /\ RollingBack
    /\ ProjectSound

\* The files of a project are different from each other.
LEMMA PathFacts ==
  /\ FractaYAML \in Path /\ ComposeFile \in Path /\ EnvExample \in Path /\ ManifestDir \in Path
  /\ FractaYAML \in Updated /\ ComposeFile \in Updated /\ EnvExample \in Updated /\ ManifestDir \notin Updated
  /\ Updated \subseteq Path
  /\ FractaYAML # ComposeFile /\ FractaYAML # EnvExample /\ ComposeFile # EnvExample
  /\ \A id \in Id : /\ Manifest(id) \in Path /\ Manifest(id) \notin Updated /\ Manifest(id) # ManifestDir
                    /\ Secret(id) \in Path /\ Secret(id) \notin Updated /\ Secret(id) # ManifestDir
                    /\ Manifest(id) # Secret(id)
<1>1. \A id : Manifest(id)[1] = "mcp.yaml" /\ Secret(id)[1] = "mcp-secret.yaml"
  BY DEF Manifest, Secret
<1>2. /\ FractaYAML[1] = "fracta.yaml" /\ ComposeFile[1] = "docker-compose.yml"
      /\ EnvExample[1] = ".env.example" /\ ManifestDir[1] = "manifests"
  BY DEF FractaYAML, ComposeFile, EnvExample, ManifestDir
<1>3. /\ FractaYAML # ComposeFile /\ FractaYAML # EnvExample /\ ComposeFile # EnvExample
      /\ ManifestDir \notin Updated
  BY <1>2 DEF Updated
<1>4. ASSUME NEW id \in Id
      PROVE  /\ Manifest(id) \notin Updated /\ Manifest(id) # ManifestDir
             /\ Secret(id) \notin Updated /\ Secret(id) # ManifestDir /\ Manifest(id) # Secret(id)
  BY <1>1, <1>2 DEF Updated
<1>. QED
  BY <1>3, <1>4 DEF Updated, Path

\* The states of a file.
LEMMA FileFacts ==
  /\ Absent \in FileState /\ Torn \in FileState /\ Absent.is = "absent" /\ Torn.is = "torn"
  /\ Absent.has = {} /\ Torn.has = {}
  /\ \A S \in SUBSET Content : Whole(S) \in FileState /\ Whole(S).is = "whole" /\ Whole(S).has = S
  /\ \A f \in FileState : /\ f.is \in {"absent", "torn", "whole"} /\ f.has \in SUBSET Content
                          /\ f.is = "whole" => f = Whole(f.has)
                          /\ f.is = "torn" => f = Torn
                          /\ f.is = "absent" => f = Absent
                          /\ f.is # "whole" => f.has = {}
  BY DEF Absent, Torn, Whole, FileState

\* A YAML round trip.
LEMMA NormalFacts ==
  ASSUME NEW f \in FileState
  PROVE  /\ Normalized(f.has) \in SUBSET Content /\ Normal(f) \in FileState /\ Normal(f).is = f.is
         /\ f.is # "whole" => Normal(f) = f
         /\ Normal(f).has = Normalized(f.has)
<1>1. \A e \in Content : (IF e = <<"drift", "plain">> THEN <<"drift", "quoted">> ELSE e) \in Content
  BY DEF Content
<1>2. Normalized(f.has) \in SUBSET Content
  BY <1>1, FileFacts DEF Normalized
<1>3. Normalized({}) = {}
  BY DEF Normalized
<1>. QED
  BY <1>2, <1>3, FileFacts DEF Normal

\* What the steps of a plan make of a content is one.
LEMMA ChangedFacts ==
  ASSUME NEW op \in {"add", "remove"}, NEW id \in Id, NEW k \in Kind, NEW p \in Path, NEW S \in SUBSET Content
  PROVE  Changed(op, id, k, p, S) \in SUBSET Content
<1>1. /\ <<id, "service">> \in Content /\ <<id, "var">> \in Content /\ <<id, "rendered">> \in Content
      /\ ServerEntry(id, k) \in Content
  BY DEF Content, Kind
<1>2. Existing(S, id, k) \subseteq S
  BY DEF Existing
<1>. QED
  BY <1>1, <1>2, PathFacts DEF Changed, UpsertMCPServer, RemoveMCPServer, UpsertComposeService, RemoveComposeService, AppendEnvExample

Places == Rest \cup {"prompt", "normalize", "snapshot", "bak", "apply", "temp", "rename", "cleanup", "restore",
                     "rewrite", "unlink", "scaffold", "fill"}

\* A command that goes on with the same job.
SameJob(r) ==
    /\ r.op = cmd.op /\ r.id = cmd.id /\ r.kind = cmd.kind /\ r.force = cmd.force
    /\ r.plan = cmd.plan /\ r.before = cmd.before

\* A command at another place, with other content at hand.
LEMMA GoFacts ==
  ASSUME cmd \in ConfigCommand, NEW a \in Places
  PROVE  LET r == [cmd EXCEPT !.at = a] IN
         r \in ConfigCommand /\ SameJob(r) /\ r.at = a /\ r.n = cmd.n /\ r.baks = cmd.baks /\ r.written = cmd.written
         /\ r.node = cmd.node /\ r.restored = cmd.restored
  BY DEF ConfigCommand, Places, SameJob
LEMMA GoNodeFacts ==
  ASSUME cmd \in ConfigCommand, NEW a \in Places, NEW f \in FileState
  PROVE  LET r == [cmd EXCEPT !.at = a, !.node = f] IN
         r \in ConfigCommand /\ SameJob(r) /\ r.at = a /\ r.n = cmd.n /\ r.baks = cmd.baks /\ r.written = cmd.written
         /\ r.node = f /\ r.restored = cmd.restored
  BY ZenonT(60) DEF ConfigCommand, Places, SameJob
LEMMA GoBaksFacts ==
  ASSUME cmd \in ConfigCommand, NEW a \in Places, NEW b \in Seq(Updated)
  PROVE  LET r == [cmd EXCEPT !.at = a, !.baks = b] IN
         r \in ConfigCommand /\ SameJob(r) /\ r.at = a /\ r.n = cmd.n /\ r.baks = b /\ r.written = cmd.written
         /\ r.node = cmd.node /\ r.restored = cmd.restored
  BY ZenonT(60) DEF ConfigCommand, Places, SameJob
LEMMA BaksFacts ==
  ASSUME cmd \in ConfigCommand, NEW b \in Seq(Updated)
  PROVE  LET r == [cmd EXCEPT !.baks = b] IN
         r \in ConfigCommand /\ SameJob(r) /\ r.at = cmd.at /\ r.n = cmd.n /\ r.baks = b /\ r.written = cmd.written
         /\ r.node = cmd.node /\ r.restored = cmd.restored
  BY DEF ConfigCommand, Places, SameJob
LEMMA GoRestoredFacts ==
  ASSUME cmd \in ConfigCommand, NEW a \in Places
  PROVE  LET r == [cmd EXCEPT !.at = a, !.restored = FALSE] IN
         r \in ConfigCommand /\ SameJob(r) /\ r.at = a /\ r.n = cmd.n /\ r.baks = cmd.baks /\ r.written = cmd.written
         /\ r.node = cmd.node /\ r.restored = FALSE
  BY DEF ConfigCommand, Places, SameJob
LEMMA FollowingFacts ==
  ASSUME cmd \in ConfigCommand, NEW a \in Places, NEW w \in SUBSET Path
  PROVE  /\ LET r == Following(cmd, a) IN
              r \in ConfigCommand /\ SameJob(r) /\ r.at = a /\ r.n = cmd.n + 1 /\ r.baks = cmd.baks
              /\ r.written = cmd.written /\ r.node = Absent /\ r.restored = cmd.restored
         /\ LET r == [Following(cmd, a) EXCEPT !.written = w] IN
              r \in ConfigCommand /\ SameJob(r) /\ r.at = a /\ r.n = cmd.n + 1 /\ r.baks = cmd.baks
              /\ r.written = w /\ r.node = Absent /\ r.restored = cmd.restored
<1>1. LET r == Following(cmd, a) IN
        r \in ConfigCommand /\ SameJob(r) /\ r.at = a /\ r.n = cmd.n + 1 /\ r.baks = cmd.baks
        /\ r.written = cmd.written /\ r.node = Absent /\ r.restored = cmd.restored
  <2>1. cmd.n + 1 \in Nat /\ Absent \in FileState
    BY FileFacts DEF ConfigCommand
  <2>2. Following(cmd, a) = [cmd EXCEPT !.at = a, !.n = cmd.n + 1, !.node = Absent]
    BY DEF Following
  <2>3. PICK m, f : m = cmd.n + 1 /\ f = Absent
    OBVIOUS
  <2>4. LET r == [cmd EXCEPT !.at = a, !.n = m, !.node = f] IN
          r \in ConfigCommand /\ SameJob(r) /\ r.at = a /\ r.n = m /\ r.baks = cmd.baks
          /\ r.written = cmd.written /\ r.node = f /\ r.restored = cmd.restored
    BY <2>1, <2>3, ZenonT(60) DEF ConfigCommand, Places, SameJob
  <2>. QED
    BY <2>2, <2>3, <2>4
<1>2. PICK q \in ConfigCommand : q = Following(cmd, a)
  BY <1>1
<1>3. LET r == [q EXCEPT !.written = w] IN
        r \in ConfigCommand /\ SameJob(r) /\ r.at = a /\ r.n = cmd.n + 1 /\ r.baks = cmd.baks
        /\ r.written = w /\ r.node = Absent /\ r.restored = cmd.restored
  BY <1>1, <1>2 DEF ConfigCommand, SameJob
<1>. QED
  BY <1>1, <1>2, <1>3

\* The job fixes what the files are to be.
LEMMA JobKept ==
  ASSUME SameJob(cmd')
  PROVE  /\ \A p : Target(p)' = Target(p) /\ Found(p)' = Found(p)
         /\ \A f, p : (AsFound(f, p)' <=> AsFound(f, p)) /\ (Same(f, p)' <=> Same(f, p))
         /\ \A p : Spared(p)' <=> Spared(p)
         /\ \A f, p, m : (SteppedBy(p, m)' <=> SteppedBy(p, m)) /\ (InPlace(f, p, m)' <=> InPlace(f, p, m))
         /\ PlanFits(cmd) /\ (cmd.op = "none" => cmd'.at = "idle")
              /\ (cmd.op = "add" => \A p \in cmd'.written : p \notin Updated /\ (cmd.force \/ ~Exists(cmd.before[p])))
              => PlanFits(cmd')
<1>. USE DEF SameJob
<1>1. \A p : Target(p)' = Target(p)
  BY DEF Target, Planned
<1>2. \A p : Found(p)' = Found(p)
  BY DEF Found
<1>3. \A f, p : (AsFound(f, p)' <=> AsFound(f, p)) /\ (Same(f, p)' <=> Same(f, p))
  BY <1>2 DEF AsFound, Same
<1>4. \A p : Spared(p)' <=> Spared(p)
  BY DEF Spared
<1>5. PlanFits(cmd) /\ (cmd.op = "none" => cmd'.at = "idle")
        /\ (cmd.op = "add" => \A p \in cmd'.written : p \notin Updated /\ (cmd.force \/ ~Exists(cmd.before[p])))
        => PlanFits(cmd')
  BY DEF PlanFits, Edits
<1>6. \A p, m : SteppedBy(p, m)' <=> SteppedBy(p, m)
  BY DEF SteppedBy
<1>7. \A f, p, m : InPlace(f, p, m)' <=> InPlace(f, p, m)
  BY <1>1, <1>3, <1>6 DEF InPlace
<1>. QED
  BY <1>1, <1>2, <1>3, <1>4, <1>5, <1>6, <1>7


\* What the invariant says of the types.
LEMMA ProjectTypeFacts ==
  ASSUME ProjectInv
  PROVE  /\ file \in [Path -> FileState] /\ bak \in [Path -> FileState] /\ cmd \in ConfigCommand
         /\ file[ManifestDir].has = {}
         /\ cmd.op \in {"none", "init", "add", "remove"} /\ cmd.at \in Places /\ cmd.kind \in Kind
         /\ cmd.plan \in Seq(PlanStep) /\ Len(cmd.plan) \in Nat /\ cmd.n \in Nat /\ cmd.baks \in Seq(Updated)
         /\ cmd.written \in SUBSET Path /\ cmd.node \in FileState /\ cmd.restored \in BOOLEAN /\ cmd.force \in BOOLEAN
         /\ \A i \in DOMAIN cmd.plan : cmd.plan[i].path \in Path
         /\ \A i \in DOMAIN cmd.baks : cmd.baks[i] \in Updated /\ cmd.baks[i] \in Path
         /\ DOMAIN cmd.plan = 1 .. Len(cmd.plan)
         /\ cmd.op # "none" => cmd.before \in [Path -> FileState] /\ Len(cmd.plan) >= 1
<1>1. cmd \in ConfigCommand /\ file \in [Path -> FileState] /\ bak \in [Path -> FileState]
      /\ file[ManifestDir].has = {} /\ (cmd.op # "none" => cmd.before \in [Path -> FileState] /\ Len(cmd.plan) >= 1)
  BY DEF ProjectInv, ProjectTypes, PlanFits
<1>2. /\ cmd.op \in {"none", "init", "add", "remove"} /\ cmd.at \in Places /\ cmd.kind \in Kind
      /\ cmd.plan \in Seq(PlanStep) /\ cmd.n \in Nat /\ cmd.baks \in Seq(Updated)
      /\ cmd.written \in SUBSET Path /\ cmd.node \in FileState /\ cmd.restored \in BOOLEAN /\ cmd.force \in BOOLEAN
  BY <1>1 DEF ConfigCommand, Places
<1>3. Len(cmd.plan) \in Nat /\ DOMAIN cmd.plan = 1 .. Len(cmd.plan)
  BY <1>2
<1>4. ASSUME NEW i \in DOMAIN cmd.plan PROVE cmd.plan[i].path \in Path
  <2>1. cmd.plan[i] \in PlanStep
    BY <1>2, <1>4
  <2>. QED
    BY <2>1 DEF PlanStep
<1>5. \A i \in DOMAIN cmd.baks : cmd.baks[i] \in Updated /\ cmd.baks[i] \in Path
  BY <1>2, PathFacts
<1>. QED
  BY <1>1, <1>2, <1>3, <1>4, <1>5

\* The step at hand.
LEMMA ActFacts ==
  ASSUME ProjectInv, cmd.n \in DOMAIN cmd.plan
  PROVE  /\ Act = cmd.plan[cmd.n] /\ Act.path \in Path /\ cmd.n >= 1 /\ cmd.n <= Len(cmd.plan)
         /\ Edits(cmd) => /\ Act.path # ManifestDir /\ (Act.do = "update" <=> Act.path \in Updated)
                          /\ ~SteppedBy(Act.path, cmd.n)
<1>1. cmd.n \in 1 .. Len(cmd.plan) /\ Act = cmd.plan[cmd.n] /\ Act.path \in Path
  BY ProjectTypeFacts DEF Act
<1>2. ASSUME Edits(cmd)
      PROVE  /\ Act.path # ManifestDir /\ (Act.do = "update" <=> Act.path \in Updated)
             /\ ~SteppedBy(Act.path, cmd.n)
  <2>1. PlanFits(cmd)
    BY DEF ProjectInv
  <2>. QED
    BY <1>1, <1>2, <2>1, ProjectTypeFacts DEF PlanFits, SteppedBy
<1>. QED
  BY <1>1, <1>2, ProjectTypeFacts

\* What a file is to be.
LEMMA TargetCases ==
  ASSUME NEW p
  PROVE  Target(p) = IF p = ManifestDir
                     THEN IF cmd.op = "add" /\ cmd.kind = "k8s" THEN Whole({}) ELSE Found(p)
                     ELSE IF p \notin Planned THEN Found(p)
                     ELSE IF cmd.op = "remove" /\ p \notin Updated THEN Absent
                     ELSE Whole(Changed(cmd.op, cmd.id, cmd.kind, p, Found(p).has))
  BY DEF Target, Found

\* The content of an add or a remove for a file is one.
LEMMA TargetFacts ==
  ASSUME ProjectInv, Edits(cmd), NEW p \in Path
  PROVE  /\ Found(p) \in FileState /\ cmd.before[p] \in FileState
         /\ Same(Found(p), p) /\ Same(cmd.before[p], p)
         /\ p # ManifestDir /\ p \in Planned =>
              Target(p) = IF cmd.op = "remove" /\ p \notin Updated THEN Absent
                          ELSE Whole(Changed(cmd.op, cmd.id, cmd.kind, p, Found(p).has))
         /\ p # ManifestDir /\ p \notin Planned => Target(p) = Found(p)
         /\ Target(ManifestDir) = IF cmd.op = "add" /\ cmd.kind = "k8s" THEN Whole({}) ELSE cmd.before[ManifestDir]
         /\ Target(p) \in FileState
<1>1. cmd.op \in {"add", "remove"} /\ cmd.before \in [Path -> FileState] /\ cmd.id \in Id
  BY ProjectTypeFacts DEF Edits, ProjectInv, PlanFits
<1>2. cmd.before[p] \in FileState /\ Normal(cmd.before[p]) \in FileState
  BY <1>1, NormalFacts
<1>3. Found(p) \in FileState /\ Same(Found(p), p) /\ Same(cmd.before[p], p)
  BY <1>2 DEF Found, Same
<1>4. /\ p # ManifestDir /\ p \in Planned =>
              Target(p) = IF cmd.op = "remove" /\ p \notin Updated THEN Absent
                          ELSE Whole(Changed(cmd.op, cmd.id, cmd.kind, p, Found(p).has))
      /\ p # ManifestDir /\ p \notin Planned => Target(p) = Found(p)
  BY TargetCases
<1>6. Target(ManifestDir) = IF cmd.op = "add" /\ cmd.kind = "k8s" THEN Whole({}) ELSE cmd.before[ManifestDir]
  <2>1. ManifestDir # FractaYAML
    BY PathFacts
  <2>2. Found(ManifestDir) = cmd.before[ManifestDir]
    BY <2>1 DEF Found
  <2>. QED
    BY <2>2, TargetCases
<1>7. Target(p) \in FileState
  <2>1. Changed(cmd.op, cmd.id, cmd.kind, p, Found(p).has) \in SUBSET Content
    BY <1>1, <1>3, FileFacts, ChangedFacts, ProjectTypeFacts
  <2>. QED
    BY <1>1, <1>2, <1>3, <1>4, <1>6, <2>1, FileFacts
<1>. QED
  BY <1>2, <1>3, <1>4, <1>6, <1>7

\* A step of a command at work keeps its types and its plan.
LEMMA StepTypes ==
  ASSUME ProjectInv, cmd.op # "none", SameJob(cmd'), cmd' \in ConfigCommand, PlaceOf(cmd'),
         file' \in [Path -> FileState], bak' \in [Path -> FileState], file'[ManifestDir].has = {},
         cmd.op = "add" => \A p \in cmd'.written : p \notin Updated /\ (cmd.force \/ ~Exists(cmd.before[p]))
  PROVE  ProjectTypes' /\ PlanFits(cmd)' /\ PlaceOf(cmd)'
<1>1. ProjectTypes'
  BY DEF ProjectTypes
<1>2. PlanFits(cmd')
  BY JobKept DEF ProjectInv
<1>3. PlanFits(cmd)'
  BY <1>2 DEF PlanFits, Edits
<1>4. PlaceOf(cmd)'
  BY DEF PlaceOf, Edits
<1>. QED
  BY <1>1, <1>3, <1>4

\* The plan of an add or a remove.
LEMMA PlanFacts ==
  ASSUME ProjectInv, Edits(cmd)
  PROVE  /\ cmd.op # "none" /\ cmd.op \in {"add", "remove"} /\ cmd.before[ManifestDir].has = {}
         /\ \A i, j \in DOMAIN cmd.plan : cmd.plan[i].path = cmd.plan[j].path => i = j
         /\ \A i \in DOMAIN cmd.plan : cmd.plan[i].path # ManifestDir /\ (cmd.plan[i].do = "update" <=> cmd.plan[i].path \in Updated)
         /\ cmd.op = "add" =>
              /\ \E i \in DOMAIN cmd.plan : cmd.plan[i].path = FractaYAML
              /\ cmd.kind = "k8s" => cmd.plan[1].do = "write" /\ Len(cmd.plan) >= 2
              /\ \A i \in DOMAIN cmd.plan : /\ cmd.plan[i].do \in {"update", "write"}
                                            /\ cmd.plan[i].do = "write" =>
                                                 cmd.kind = "k8s" /\ (cmd.force \/ ~Exists(cmd.before[cmd.plan[i].path]))
              /\ \A p \in cmd.written : p \notin Updated /\ (cmd.force \/ ~Exists(cmd.before[p]))
         /\ cmd.op = "remove" =>
              \A i \in DOMAIN cmd.plan : /\ cmd.plan[i].do \in {"update", "delete"}
                                         /\ cmd.plan[i].do = "update" => Exists(cmd.before[cmd.plan[i].path])
  BY DEF ProjectInv, PlanFits, Edits

\* A file that was whole is one of two.
LEMMA SameFacts ==
  ASSUME ProjectInv, Edits(cmd), NEW p \in Path
  PROVE  /\ \A f : AsFound(f, p) => Same(f, p)
         /\ \A f : Same(f, p) /\ cmd.before[p].is = "whole" => f.is = "whole" /\ f # Absent
         /\ cmd.before[p].is = "whole" => Exists(cmd.before[p])
<1>1. cmd.before[p] \in FileState /\ Normal(cmd.before[p]).is = cmd.before[p].is
  BY TargetFacts, NormalFacts
<1>2. Absent.is # "whole"
  BY DEF Absent
<1>3. cmd.before[p].is = "whole" => Exists(cmd.before[p])
  BY DEF Exists
<1>4. \A f : AsFound(f, p) => Same(f, p)
  BY TargetFacts DEF AsFound, Same
<1>. QED
  BY <1>1, <1>2, <1>3, <1>4 DEF Same

\* When all steps are done, the whole change is made.
LEMMA AllInPlace ==
  ASSUME ProjectInv, Edits(cmd), NEW f, \A p \in Path : InPlace(f[p], p, Len(cmd.plan) + 1)
  PROVE  \A p \in Path : f[p] = Target(p)
<1>. TAKE p \in Path
<1>1. p \in Planned <=> SteppedBy(p, Len(cmd.plan) + 1)
  BY ProjectTypeFacts DEF Planned, SteppedBy
<1>2. InPlace(f[p], p, Len(cmd.plan) + 1)
  OBVIOUS
<1>3. CASE p = ManifestDir
  BY <1>2, <1>3, TargetFacts, ProjectTypeFacts, PlanFacts DEF InPlace
<1>4. CASE p # ManifestDir /\ p \in Planned
  BY <1>1, <1>2, <1>4 DEF InPlace
<1>5. CASE p # ManifestDir /\ p \notin Planned
  <2>1. AsFound(f[p], p) /\ Target(p) = Found(p)
    BY <1>1, <1>2, <1>5, TargetFacts DEF InPlace
  <2>2. cmd.op = "add" => p # FractaYAML
    BY <1>5, PlanFacts DEF Planned
  <2>. QED
    BY <2>1, <2>2 DEF AsFound
<1>. QED
  BY <1>3, <1>4, <1>5

\* The files of an add or a remove that ends at any step are as they were, or
\* as they should be.
LEMMA PartInPlace ==
  ASSUME ProjectInv, Edits(cmd), NEW p \in Path, NEW f, NEW m, InPlace(f, p, m), cmd.before[p].is = "whole"
  PROVE  f \in {cmd.before[p], Normal(cmd.before[p]), Target(p)}
<1>1. CASE p = ManifestDir
  BY <1>1, TargetFacts DEF InPlace
<1>2. CASE p # ManifestDir /\ SteppedBy(p, m)
  BY <1>2 DEF InPlace
<1>3. CASE p # ManifestDir /\ ~SteppedBy(p, m)
  BY <1>3, SameFacts DEF InPlace, Same
<1>. QED
  BY <1>1, <1>2, <1>3

\* An add or a remove goes on to its next step.
LEMMA Advanced ==
  ASSUME ProjectInv, Edits(cmd), cmd.n <= Len(cmd.plan),
         cmd.n = 0 => cmd.op = "add" \/ cmd.at = "prompt",
         cmd.n = 0 => cmd.baks = <<>>,
         cmd.n # 0 => cmd.at \in {"apply", "temp", "rename"},
         SameJob(cmd'), cmd' \in ConfigCommand, cmd'.n = cmd.n + 1, cmd'.at = After,
         cmd'.baks = cmd.baks, cmd'.node = Absent,
         cmd.op = "add" => \A p \in cmd'.written : p \notin Updated /\ (cmd.force \/ ~Exists(cmd.before[p])),
         bak' = bak, file' \in [Path -> FileState], file'[ManifestDir].has = {},
         \A p \in Path : InPlace(file'[p], p, cmd.n + 1)
  PROVE  ProjectInv'
<1>. USE DEF SameJob
<1>1. /\ cmd'.op = cmd.op /\ cmd'.plan = cmd.plan /\ cmd'.n \in Nat /\ cmd'.n # 0
      /\ cmd'.n \in 1 .. Len(cmd.plan) + 1
      /\ cmd.op \in {"add", "remove"} /\ cmd.op # "none"
  BY ProjectTypeFacts DEF Edits
<1>2. \/ cmd'.n \in DOMAIN cmd.plan /\ cmd.op = "add" /\ cmd'.at = "snapshot"
      \/ cmd'.n \in DOMAIN cmd.plan /\ cmd.op = "remove" /\ cmd'.at = "apply"
      \/ cmd'.n = Len(cmd.plan) + 1 /\ cmd.op = "add" /\ cmd'.at = "cleanup"
      \/ cmd'.n = Len(cmd.plan) + 1 /\ cmd.op = "remove" /\ cmd'.at = "done"
  <2>1. CASE cmd.n < Len(cmd.plan)
    <3>1. cmd'.n \in DOMAIN cmd.plan
      BY <2>1, ProjectTypeFacts
    <3>. QED
      BY <1>1, <2>1, <3>1 DEF After, First
  <2>2. CASE ~(cmd.n < Len(cmd.plan))
    <3>1. cmd'.n = Len(cmd.plan) + 1
      BY <2>2, ProjectTypeFacts
    <3>. QED
      BY <1>1, <2>2, <3>1 DEF After
  <2>. QED
    BY <2>1, <2>2
<1>3. PlaceOf(cmd')
  BY <1>1, <1>2 DEF PlaceOf, Edits
<1>4. bak' \in [Path -> FileState]
  BY ProjectTypeFacts
<1>5. ProjectTypes' /\ PlanFits(cmd)' /\ PlaceOf(cmd)'
  BY <1>1, <1>3, <1>4, StepTypes
<1>6. NotBegun'
  BY <1>2 DEF NotBegun
<1>7. \A p \in Path : InPlace(file[p], p, cmd.n)'
  BY <1>1, JobKept DEF InPlace
<1>8. StepsDone'
  BY <1>7 DEF StepsDone
<1>9. NodeFits'
  BY <1>2 DEF NodeFits
<1>10. BaksFit'
  <2>. SUFFICES ASSUME Stepping', cmd'.op = "add"
                PROVE  BaksFit'
    BY DEF BaksFit
  <2>1. cmd'.at \in {"snapshot", "cleanup"}
    BY <1>1, <1>2
  <2>2. \A p : Saved(p)' <=> SteppedBy(p, cmd.n + 1)
    BY <2>1, JobKept DEF Saved, SteppedBy
  <2>3. CASE cmd.n = 0
    <3>1. \A p : ~SteppedBy(p, cmd.n + 1)
      BY <2>3, ProjectTypeFacts DEF SteppedBy
    <3>2. DOMAIN cmd'.baks = {}
      BY <2>3
    <3>. QED
      BY <2>2, <3>1, <3>2 DEF BaksFit
  <2>4. CASE cmd.n # 0
    <3>1. \A p : SteppedBy(p, cmd.n + 1) <=> Saved(p)
      <4>1. cmd.n \in DOMAIN cmd.plan
        BY <2>4, ProjectTypeFacts
      <4>2. \A i \in DOMAIN cmd.plan : i < cmd.n + 1 <=> i < cmd.n \/ i = cmd.n
        BY ProjectTypeFacts
      <4>. QED
        BY <2>4, <4>1, <4>2 DEF Saved, SteppedBy
    <3>2. BaksFit /\ Stepping /\ cmd.n >= 1
      BY <2>4, ProjectTypeFacts DEF ProjectInv, Stepping
    <3>. QED
      BY <1>1, <2>2, <3>1, <3>2, JobKept DEF BaksFit
  <2>. QED
    BY <2>3, <2>4
<1>11. RollingBack'
  BY <1>2 DEF RollingBack
<1>12. ProjectSound'
  <2>1. cmd'.at = "done" => \A p \in Path : file'[p] = Target(p)
    <3>. SUFFICES ASSUME cmd'.at = "done" PROVE \A p \in Path : file'[p] = Target(p)
      OBVIOUS
    <3>1. \A p \in Path : InPlace(file'[p], p, Len(cmd.plan) + 1)
      BY <1>2
    <3>. QED
      BY <3>1, AllInPlace
  <2>2. cmd'.at # "failed" /\ cmd'.at # "killed"
    BY <1>2
  <2>3. \A p \in Path : cmd'.at = "done" => file'[p] = Target(p)'
    BY <2>1, JobKept
  <2>. QED
    BY <2>2, <2>3 DEF ProjectSound, AllOrNothing, KilledKeepsContent
<1>. QED
  BY <1>5, <1>6, <1>8, <1>9, <1>10, <1>11, <1>12 DEF ProjectInv

\* A command goes on within its step.
LEMMA StaysInStep ==
  ASSUME ProjectInv, cmd.op # "none", SameJob(cmd'), cmd' \in ConfigCommand, PlaceOf(cmd'),
         cmd'.n = cmd.n, cmd'.written = cmd.written, file' = file, bak' \in [Path -> FileState],
         cmd.at \in {"prompt", "normalize", "snapshot", "bak", "apply", "temp"},
         cmd'.at \in {"normalize", "bak", "apply", "temp", "rename"},
         cmd'.at = "normalize" => cmd.at = "prompt" /\ Exists(file[FractaYAML]),
         NodeFits', BaksFit'
  PROVE  ProjectInv'
<1>. USE DEF SameJob
<1>1. ProjectTypes' /\ PlanFits(cmd)' /\ PlaceOf(cmd)'
  BY StepTypes, ProjectTypeFacts DEF ProjectInv, PlanFits
<1>2. PlaceOf(cmd) /\ NotBegun /\ StepsDone
  BY DEF ProjectInv
<1>3. cmd.n = 0 \/ cmd.at \in {"snapshot", "bak", "apply", "temp"}
  BY <1>2 DEF PlaceOf
<1>4. cmd.at \in {"snapshot", "bak", "apply"} => cmd.n # 0
  BY <1>2, ProjectTypeFacts DEF PlaceOf
<1>5. NotBegun'
  BY <1>2, <1>4, JobKept DEF NotBegun
<1>6. Stepping /\ cmd.n >= 1 => \A p \in Path : InPlace(file[p], p, cmd.n)'
  BY <1>2, JobKept DEF StepsDone, InPlace
<1>7. StepsDone'
  BY <1>3, <1>6, ProjectTypeFacts DEF StepsDone, Stepping
<1>8. RollingBack' /\ ProjectSound'
  BY DEF RollingBack, ProjectSound, AllOrNothing, KilledKeepsContent
<1>. QED
  BY <1>1, <1>5, <1>7, <1>8 DEF ProjectInv

\* The rollback of an add begins with what is as it was or saved.
LEMMA RollsBack ==
  ASSUME ProjectInv, cmd.op = "add", cmd.n >= 1, cmd.at \in {"bak", "apply", "temp", "rename"},
         SameJob(cmd'), cmd'.at = "restore", cmd'.baks = cmd.baks, cmd'.n = cmd.n,
         file' = file, bak' \in [Path -> FileState],
         \A p \in Path : bak'[p] # bak[p] => cmd.at = "bak" /\ p = cmd.plan[cmd.n].path
  PROVE  RollingBack'
<1>. USE DEF SameJob
<1>1. Edits(cmd) /\ Stepping /\ PlaceOf(cmd) /\ StepsDone /\ BaksFit
  BY DEF Edits, Stepping, ProjectInv
<1>2. cmd.n \in DOMAIN cmd.plan /\ ~SteppedBy(cmd.plan[cmd.n].path, cmd.n)
  <2>1. cmd.n \in DOMAIN cmd.plan
    BY <1>1 DEF PlaceOf
  <2>. QED
    BY <1>1, <2>1, ActFacts
<1>3. ASSUME NEW i \in DOMAIN cmd.baks
      PROVE  cmd.baks[i] \in Path /\ bak'[cmd.baks[i]] = bak[cmd.baks[i]] /\ Same(bak[cmd.baks[i]], cmd.baks[i])
  <2>1. Saved(cmd.baks[i]) /\ Same(bak[cmd.baks[i]], cmd.baks[i])
    BY <1>1 DEF BaksFit
  <2>2. cmd.baks[i] \in Path
    BY ProjectTypeFacts
  <2>3. cmd.at = "bak" => cmd.baks[i] # cmd.plan[cmd.n].path
    BY <1>2, <2>1 DEF Saved
  <2>. QED
    BY <2>1, <2>2, <2>3
<1>4. ASSUME NEW p \in Path, cmd.before[p].is = "whole"
      PROVE  Spared(p) \/ Same(file[p], p) \/ (Same(bak'[p], p) /\ \E i \in DOMAIN cmd.baks : cmd.baks[i] = p)
  <2>1. InPlace(file[p], p, cmd.n)
    BY <1>1 DEF StepsDone
  <2>2. CASE p = ManifestDir
    <3>1. cmd.before[p] \in FileState /\ cmd.before[p] = Whole({})
      <4>1. cmd.before[p] \in FileState
        BY <1>1, TargetFacts
      <4>2. cmd.before[p].has = {}
        BY <1>1, <2>2, PlanFacts
      <4>3. cmd.before[p] = Whole(cmd.before[p].has)
        BY <1>4, <4>1, FileFacts
      <4>. QED
        BY <4>1, <4>2, <4>3
    <3>. QED
      BY <2>1, <2>2, <3>1 DEF InPlace, Same
  <2>3. CASE p # ManifestDir /\ ~SteppedBy(p, cmd.n)
    BY <1>1, <2>1, <2>3, SameFacts DEF InPlace
  <2>4. CASE p \in Updated /\ SteppedBy(p, cmd.n)
    <3>1. PICK i \in DOMAIN cmd.baks : cmd.baks[i] = p
      BY <1>1, <1>4, <2>4 DEF BaksFit, Saved
    <3>. QED
      BY <1>3, <3>1
  <2>5. CASE p \notin Updated /\ SteppedBy(p, cmd.n)
    <3>1. PICK i \in DOMAIN cmd.plan : cmd.plan[i].path = p
      BY <2>5 DEF SteppedBy
    <3>2. cmd.force \/ ~Exists(cmd.before[p])
      BY <1>1, <2>5, <3>1, PlanFacts
    <3>3. cmd.force
      BY <1>1, <1>4, <3>2, SameFacts
    <3>. QED
      BY <2>5, <3>3 DEF Spared
  <2>. QED
    BY <2>2, <2>3, <2>4, <2>5
<1>5. \A p \in Path : \/ Spared(p) \/ Same(file[p], p)
                      \/ Same(bak'[p], p) /\ \E i \in DOMAIN cmd.baks : cmd.baks[i] = p
  BY <1>4 DEF Spared
<1>6. \A p \in Path : \/ Spared(p)' \/ Same(file[p], p)'
                      \/ Same(bak[p], p)' /\ \E i \in DOMAIN cmd'.baks : cmd'.baks[i] = p
  BY <1>5 DEF Spared, Same
<1>7. \A i \in DOMAIN cmd'.baks : Same(bak[cmd.baks[i]], cmd.baks[i])'
  BY <1>3 DEF Same
<1>. QED
  BY <1>6, <1>7 DEF RollingBack

\* A command that fails.
LEMMA Failing ==
  ASSUME ProjectInv, Edits(cmd), Errs, cmd.at \in {"normalize", "bak", "apply", "temp", "rename"},
         file' = file, bak' \in [Path -> FileState],
         \A p \in Path : bak'[p] # bak[p] => cmd.at = "bak" /\ p = cmd.plan[cmd.n].path
  PROVE  ProjectInv'
<1>1. OnError \in Places /\ OnError \in {"restore", "failed"}
  BY DEF OnError, Places, Rest
<1>2. /\ cmd' \in ConfigCommand /\ SameJob(cmd') /\ cmd'.at = OnError /\ cmd'.n = cmd.n /\ cmd'.baks = cmd.baks
      /\ cmd'.written = cmd.written
  <2>1. cmd' = [cmd EXCEPT !.at = OnError]
    BY DEF Errs, Go, Set
  <2>2. PICK a \in Places : a = OnError
    BY <1>1
  <2>. QED
    BY <2>1, <2>2, GoFacts, ProjectTypeFacts
<1>3. cmd'.op = cmd.op /\ cmd'.before = cmd.before /\ cmd'.force = cmd.force /\ cmd'.plan = cmd.plan
  BY <1>2 DEF SameJob
<1>4. PlaceOf(cmd) /\ NotBegun
  BY DEF ProjectInv
<1>5. cmd'.at = "restore" => cmd.op = "add" /\ cmd.n > 0
  BY <1>2 DEF OnError
<1>6. PlaceOf(cmd')
  BY <1>1, <1>2, <1>3, <1>4, <1>5 DEF PlaceOf
<1>7. ProjectTypes' /\ PlanFits(cmd)' /\ PlaceOf(cmd)'
  BY <1>2, <1>6, StepTypes, ProjectTypeFacts, PlanFacts
<1>8. NotBegun' /\ StepsDone' /\ NodeFits' /\ BaksFit'
  BY <1>1, <1>2 DEF NotBegun, StepsDone, Stepping, NodeFits, BaksFit
<1>9. RollingBack'
  <2>1. CASE cmd'.at = "restore"
    <3>1. cmd.n >= 1 /\ cmd.at # "normalize"
      BY <1>4, <1>5, <2>1, ProjectTypeFacts DEF PlaceOf
    <3>. QED
      BY <1>2, <1>5, <2>1, <3>1, RollsBack
  <2>2. CASE cmd'.at # "restore"
    BY <1>1, <1>2, <2>2 DEF RollingBack
  <2>. QED
    BY <2>1, <2>2
<1>10. ProjectSound'
  <2>1. ASSUME cmd'.at = "failed", cmd.op = "add"
        PROVE  \A p \in Path : file'[p] = cmd.before[p]
    <3>1. cmd.n = 0
      BY <1>2, <2>1, ProjectTypeFacts DEF OnError
    <3>2. cmd.at \in {"normalize", "temp", "rename"}
      BY <1>4, <3>1, ProjectTypeFacts DEF PlaceOf
    <3>. QED
      BY <1>4, <3>1, <3>2 DEF NotBegun
  <2>2. cmd'.at # "done" /\ cmd'.at # "killed"
    BY <1>1, <1>2
  <2>. QED
    BY <1>3, <2>1, <2>2 DEF ProjectSound, AllOrNothing, KilledKeepsContent
<1>. QED
  BY <1>7, <1>8, <1>9, <1>10 DEF ProjectInv

\* The next place of a command.
LEMMA AfterFacts ==
  ASSUME cmd.op \in {"init", "add", "remove"}
  PROVE  After \in Places
<1>1. CASE cmd.n < Len(cmd.plan)
  BY <1>1 DEF After, First, Places
<1>2. CASE ~(cmd.n < Len(cmd.plan))
  BY <1>2 DEF After, Places, Rest
<1>. QED
  BY <1>1, <1>2

\* A step of an init.
LEMMA InitStep ==
  ASSUME ProjectInv, cmd.op = "init", SameJob(cmd'), cmd' \in ConfigCommand, PlaceOf(cmd'),
         file' \in [Path -> FileState], bak' \in [Path -> FileState], file'[ManifestDir].has = {},
         cmd'.at \in {"scaffold", "fill", "done", "failed", "killed", "idle"}
  PROVE  ProjectInv'
<1>1. ProjectTypes' /\ PlanFits(cmd)' /\ PlaceOf(cmd)'
  BY StepTypes
<1>2. NotBegun' /\ StepsDone' /\ NodeFits' /\ BaksFit' /\ RollingBack'
  BY DEF NotBegun, StepsDone, Stepping, NodeFits, BaksFit, RollingBack
<1>3. ProjectSound'
  BY DEF ProjectSound, AllOrNothing, KilledKeepsContent, SameJob
<1>. QED
  BY <1>1, <1>2, <1>3 DEF ProjectInv

\* An init goes on to its next step.
LEMMA InitAdvanced ==
  ASSUME ProjectInv, cmd.op = "init", SameJob(cmd'), cmd' \in ConfigCommand,
         cmd'.n = cmd.n + 1, cmd'.at = After,
         file' \in [Path -> FileState], bak' \in [Path -> FileState], file'[ManifestDir].has = {}
  PROVE  ProjectInv'
<1>1. cmd'.n \in Nat /\ cmd'.n # 0 /\ cmd'.op = "init" /\ cmd'.plan = cmd.plan
  BY ProjectTypeFacts DEF SameJob
<1>2. (cmd'.at = "scaffold" /\ cmd'.n \in DOMAIN cmd.plan) \/ cmd'.at = "done"
  <2>1. CASE cmd.n < Len(cmd.plan)
    <3>1. cmd'.n \in DOMAIN cmd.plan
      BY <2>1, ProjectTypeFacts
    <3>. QED
      BY <2>1, <3>1 DEF After, First
  <2>2. CASE ~(cmd.n < Len(cmd.plan))
    BY <2>2 DEF After
  <2>. QED
    BY <2>1, <2>2
<1>3. PlaceOf(cmd')
  BY <1>1, <1>2 DEF PlaceOf, Edits
<1>. QED
  BY <1>2, <1>3, InitStep

\* A command that goes on within its step, and what it has saved.
LEMMA KeepsBaks ==
  ASSUME ProjectInv, SameJob(cmd'), cmd'.n = cmd.n, cmd'.baks = cmd.baks, bak' = bak,
         cmd'.at \in {"apply", "temp", "rename"}, cmd.at \in {"apply", "temp"}
  PROVE  BaksFit'
<1>1. \A p : Saved(p)' <=> Saved(p)
  BY JobKept DEF SameJob, Saved
<1>2. Stepping
  BY DEF Stepping
<1>. QED
  BY <1>1, <1>2, JobKept DEF SameJob, BaksFit, ProjectInv

LEMMA NothingSaved ==
  ASSUME cmd'.n = 0
  PROVE  BaksFit'
  BY DEF BaksFit

\* PromptYes, PromptNo.
LEMMA PromptYesSafe == ProjectInv /\ PromptYes => ProjectInv'
<1>. SUFFICES ASSUME ProjectInv, PromptYes PROVE ProjectInv'
  OBVIOUS
<1>1. cmd.at = "prompt" /\ cmd.n = 0 /\ cmd.op # "none" /\ file = cmd.before /\ file' = file /\ bak' = bak
      /\ cmd.baks = <<>> /\ cmd.written = {}
  BY DEF PromptYes, At, KeepFiles, ProjectInv, PlaceOf, NotBegun
<1>2. CASE cmd.op = "add" /\ Exists(file[FractaYAML])
  <2>1. cmd' = [cmd EXCEPT !.at = "normalize"]
    BY <1>2 DEF PromptYes, Go, Set
  <2>2. /\ cmd' \in ConfigCommand /\ SameJob(cmd') /\ cmd'.at = "normalize" /\ cmd'.n = cmd.n /\ cmd'.baks = cmd.baks
        /\ cmd'.written = cmd.written
    BY <2>1, GoFacts, ProjectTypeFacts DEF Places
  <2>3. PlaceOf(cmd')
    BY <1>1, <1>2, <2>2 DEF PlaceOf, SameJob
  <2>4. NodeFits'
    BY <2>2 DEF NodeFits
  <2>5. BaksFit'
    BY <1>1, <2>2, NothingSaved
  <2>. QED
    BY <1>1, <1>2, <2>2, <2>3, <2>4, <2>5, StaysInStep, ProjectTypeFacts
<1>3. CASE ~(cmd.op = "add" /\ Exists(file[FractaYAML]))
  <2>1. cmd' = Following(cmd, After)
    BY <1>3 DEF PromptYes, NextStep, Set
  <2>2. After \in Places
    BY <1>1, ProjectTypeFacts, AfterFacts
  <2>3. PICK a \in Places : a = After
    BY <2>2
  <2>4. /\ cmd' \in ConfigCommand /\ SameJob(cmd') /\ cmd'.at = After /\ cmd'.n = cmd.n + 1 /\ cmd'.baks = cmd.baks
        /\ cmd'.written = cmd.written /\ cmd'.node = Absent
    BY <2>1, <2>3, FollowingFacts, ProjectTypeFacts
  <2>5. CASE Edits(cmd)
    <3>1. ASSUME NEW p \in Path PROVE InPlace(file[p], p, cmd.n + 1)
      <4>1. ~SteppedBy(p, cmd.n + 1)
        BY <1>1, ProjectTypeFacts DEF SteppedBy
      <4>2. CASE p = ManifestDir
        BY <1>1, <4>2 DEF InPlace
      <4>3. CASE p # ManifestDir
        <5>1. cmd.op = "add" /\ p = FractaYAML => Normal(cmd.before[p]) = cmd.before[p]
          <6>1. cmd.before[p] \in FileState
            BY <2>5, TargetFacts
          <6>. QED
            BY <1>1, <1>3, <6>1, NormalFacts, FileFacts DEF Exists
        <5>. QED
          BY <1>1, <4>1, <4>3, <5>1 DEF InPlace, AsFound, Found
      <4>. QED
        BY <4>2, <4>3
    <3>2. cmd.n <= Len(cmd.plan)
      BY <1>1, ProjectTypeFacts
    <3>. QED
      BY <1>1, <2>4, <2>5, <3>1, <3>2, Advanced, ProjectTypeFacts
  <2>6. CASE cmd.op = "init"
    BY <1>1, <2>4, <2>6, InitAdvanced, ProjectTypeFacts
  <2>. QED
    BY <1>1, <2>5, <2>6, ProjectTypeFacts DEF Edits
<1>. QED
  BY <1>2, <1>3

\* PromptNo ends a command that has done nothing.
LEMMA PromptNoSafe == ProjectInv /\ PromptNo => ProjectInv'
<1>. SUFFICES ASSUME ProjectInv, PromptNo PROVE ProjectInv'
  OBVIOUS
<1>1. cmd' = [cmd EXCEPT !.at = "idle"] /\ file' = file /\ bak' = bak /\ cmd.n = 0 /\ cmd.op # "none"
      /\ cmd.baks = <<>> /\ cmd.written = {}
  BY DEF PromptNo, Go, Set, KeepFiles, At, ProjectInv, PlaceOf
<1>2. /\ cmd' \in ConfigCommand /\ SameJob(cmd') /\ cmd'.at = "idle" /\ cmd'.n = cmd.n /\ cmd'.baks = cmd.baks
      /\ cmd'.written = cmd.written
  BY <1>1, GoFacts, ProjectTypeFacts DEF Places, Rest
<1>3. PlaceOf(cmd')
  BY <1>1, <1>2 DEF PlaceOf
<1>4. ProjectTypes' /\ PlanFits(cmd)' /\ PlaceOf(cmd)'
  BY <1>1, <1>2, <1>3, StepTypes, ProjectTypeFacts
<1>5. NotBegun' /\ StepsDone' /\ NodeFits' /\ BaksFit' /\ RollingBack' /\ ProjectSound'
  BY <1>2 DEF NotBegun, StepsDone, Stepping, NodeFits, BaksFit, RollingBack, ProjectSound, AllOrNothing, KilledKeepsContent
<1>. QED
  BY <1>4, <1>5 DEF ProjectInv

\* Writing a file: the temporary file, then the rename.
LEMMA WriteTempSafe == ProjectInv /\ WriteTemp => ProjectInv'
<1>. SUFFICES ASSUME ProjectInv, WriteTemp PROVE ProjectInv'
  OBVIOUS
<1>1. cmd.at = "temp" /\ cmd' = [cmd EXCEPT !.at = "rename"] /\ file' = file /\ bak' = bak
  BY DEF WriteTemp, At, Go, Set
<1>2. /\ cmd' \in ConfigCommand /\ SameJob(cmd') /\ cmd'.at = "rename" /\ cmd'.n = cmd.n /\ cmd'.baks = cmd.baks
      /\ cmd'.written = cmd.written /\ cmd'.node = cmd.node
  BY <1>1, GoFacts, ProjectTypeFacts DEF Places
<1>3. PlaceOf(cmd) /\ NodeFits /\ cmd.op # "none"
  BY <1>1 DEF ProjectInv, PlanFits
<1>4. PlaceOf(cmd')
  BY <1>1, <1>2, <1>3 DEF PlaceOf, SameJob, Edits
<1>5. NodeFits'
  BY <1>1, <1>2, <1>3, JobKept DEF NodeFits, SameJob
<1>6. BaksFit'
  BY <1>1, <1>2, KeepsBaks
<1>. QED
  BY <1>1, <1>2, <1>3, <1>4, <1>5, <1>6, StaysInStep, ProjectTypeFacts

LEMMA WriteFailsSafe == ProjectInv /\ (WriteTempFails \/ RenameFails) => ProjectInv'
<1>. SUFFICES ASSUME ProjectInv, WriteTempFails \/ RenameFails PROVE ProjectInv'
  OBVIOUS
<1>1. cmd.at \in {"temp", "rename"} /\ Errs /\ file' = file /\ bak' = bak
  BY DEF WriteTempFails, RenameFails, At
<1>2. Edits(cmd)
  BY <1>1 DEF ProjectInv, PlaceOf, Edits
<1>. QED
  BY <1>1, <1>2, Failing, ProjectTypeFacts

LEMMA RenameSafe == ProjectInv /\ Rename => ProjectInv'
<1>. SUFFICES ASSUME ProjectInv, Rename PROVE ProjectInv'
  OBVIOUS
<1>1. cmd.at = "rename" /\ file' = Replaced(Act.path) /\ bak' = bak
  BY DEF Rename, At
<1>2. Edits(cmd) /\ PlaceOf(cmd) /\ NodeFits /\ cmd.op \in {"add", "remove"}
  BY <1>1 DEF ProjectInv, PlaceOf, Edits
<1>3. cmd.n = 0 \/ cmd.n \in DOMAIN cmd.plan
  BY <1>1, <1>2 DEF PlaceOf
<1>4. PICK w \in SUBSET Path : /\ w = IF Act.do = "write" THEN cmd.written \cup {Act.path} ELSE cmd.written
                               /\ cmd.op = "add" => \A p \in w : p \notin Updated /\ (cmd.force \/ ~Exists(cmd.before[p]))
  <2>1. CASE cmd.n = 0
    <3>1. Act.do = "update"
      BY <2>1 DEF Act
    <3>. QED
      BY <1>2, <3>1, PlanFacts, ProjectTypeFacts
  <2>2. CASE cmd.n \in DOMAIN cmd.plan
    <3>1. Act = cmd.plan[cmd.n] /\ Act.path \in Path
      BY <2>2, ActFacts
    <3>2. cmd.op = "add" /\ Act.do = "write" => Act.path \notin Updated /\ (cmd.force \/ ~Exists(cmd.before[Act.path]))
      BY <1>2, <2>2, <3>1, PlanFacts
    <3>3. cmd.written \in SUBSET Path
          /\ (cmd.op = "add" => \A p \in cmd.written : p \notin Updated /\ (cmd.force \/ ~Exists(cmd.before[p])))
      BY <1>2, PlanFacts, ProjectTypeFacts
    <3>4. CASE Act.do = "write"
      BY <3>1, <3>2, <3>3, <3>4, ZenonT(60)
    <3>5. CASE Act.do # "write"
      BY <3>3, <3>5
    <3>. QED
      BY <3>4, <3>5
  <2>. QED
    BY <1>3, <2>1, <2>2
<1>5. PICK a \in Places : a = After
  BY <1>2, AfterFacts
<1>6. /\ cmd' \in ConfigCommand /\ SameJob(cmd') /\ cmd'.at = After /\ cmd'.n = cmd.n + 1 /\ cmd'.baks = cmd.baks
      /\ cmd'.written = w /\ cmd'.node = Absent
  <2>1. cmd' = [Following(cmd, After) EXCEPT !.written = IF Act.do = "write" THEN @ \cup {Act.path} ELSE @]
    BY DEF Rename, Set
  <2>2. Following(cmd, a).written = cmd.written
    BY FollowingFacts, ProjectTypeFacts
  <2>3. cmd' = [Following(cmd, a) EXCEPT !.written = w]
    BY <1>4, <1>5, <2>1, <2>2
  <2>. QED
    BY <1>5, <2>3, FollowingFacts, ProjectTypeFacts
<1>7. /\ Act.path \in Path /\ Act.path # ManifestDir /\ cmd.node \in FileState
      /\ \A p \in Path : file'[p] = IF p = Act.path THEN cmd.node
                                    ELSE IF p = ManifestDir /\ Act.path \notin Updated THEN Whole({}) ELSE file[p]
      /\ file' \in [Path -> FileState] /\ file'[ManifestDir].has = {}
  <2>1. Act.path \in Path /\ Act.path # ManifestDir
    <3>1. CASE cmd.n = 0
      BY <3>1, PathFacts DEF Act
    <3>2. CASE cmd.n \in DOMAIN cmd.plan
      BY <1>2, <3>2, ActFacts
    <3>. QED
      BY <1>3, <3>1, <3>2
  <2>2. Whole({}) \in FileState /\ Whole({}).has = {}
    BY FileFacts
  <2>. QED
    BY <1>1, <2>1, <2>2, PathFacts, ProjectTypeFacts DEF Replaced
<1>8. CASE cmd.n = 0
  <2>1. Act.path = FractaYAML /\ file = cmd.before /\ AsFound(cmd.node, FractaYAML) /\ cmd.op = "add" /\ cmd.baks = <<>>
    BY <1>1, <1>2, <1>8, ProjectTypeFacts DEF Act, ProjectInv, NotBegun, NodeFits, PlaceOf
  <2>2. ASSUME NEW p \in Path PROVE InPlace(file'[p], p, cmd.n + 1)
    <3>1. ~SteppedBy(p, cmd.n + 1)
      BY <1>8, ProjectTypeFacts DEF SteppedBy
    <3>2. CASE p = ManifestDir
      BY <1>7, <1>8, <2>1, <3>2, PathFacts DEF InPlace
    <3>3. CASE p # ManifestDir /\ p = FractaYAML
      BY <1>7, <2>1, <3>1, <3>3 DEF InPlace
    <3>4. CASE p # ManifestDir /\ p # FractaYAML
      BY <1>7, <2>1, <3>1, <3>4 DEF InPlace, AsFound, Found
    <3>. QED
      BY <3>2, <3>3, <3>4
  <2>3. cmd.n <= Len(cmd.plan)
    BY <1>8, ProjectTypeFacts
  <2>. QED
    BY <1>1, <1>2, <1>4, <1>6, <1>7, <1>8, <2>1, <2>2, <2>3, Advanced
<1>9. CASE cmd.n \in DOMAIN cmd.plan
  <2>1. /\ Act = cmd.plan[cmd.n] /\ cmd.n >= 1 /\ cmd.n <= Len(cmd.plan) /\ cmd.n # 0
        /\ (Act.do = "update" <=> Act.path \in Updated)
    BY <1>2, <1>9, ActFacts, ProjectTypeFacts
  <2>2. cmd.node = Target(Act.path) /\ Act.do # "delete"
    BY <1>1, <1>2, <2>1 DEF NodeFits, PlaceOf
  <2>3. \A p \in Path : InPlace(file[p], p, cmd.n)
    BY <1>1, <2>1 DEF ProjectInv, StepsDone, Stepping
  <2>4. ASSUME NEW p \in Path PROVE InPlace(file'[p], p, cmd.n + 1)
    <3>1. SteppedBy(p, cmd.n + 1) <=> SteppedBy(p, cmd.n) \/ p = Act.path
      <4>1. \A i \in DOMAIN cmd.plan : i < cmd.n + 1 <=> i < cmd.n \/ i = cmd.n
        BY ProjectTypeFacts
      <4>. QED
        BY <1>9, <2>1, <4>1 DEF SteppedBy
    <3>2. CASE p = ManifestDir
      <4>1. CASE cmd.op = "add" /\ cmd.kind = "k8s"
        <5>1. cmd.n + 1 >= 2
          BY <2>1, ProjectTypeFacts
        <5>2. CASE Act.path \notin Updated
          BY <1>7, <3>2, <4>1, <5>1, <5>2 DEF InPlace
        <5>3. CASE Act.path \in Updated
          <6>1. cmd.n # 1
            BY <1>2, <2>1, <4>1, <5>3, PlanFacts
          <6>2. cmd.n >= 2
            BY <2>1, <6>1, ProjectTypeFacts
          <6>. QED
            BY <1>7, <2>3, <3>2, <4>1, <5>1, <5>3, <6>2 DEF InPlace
        <5>. QED
          BY <5>2, <5>3
      <4>2. CASE ~(cmd.op = "add" /\ cmd.kind = "k8s")
        <5>1. Act.path \in Updated
          BY <1>2, <1>9, <2>1, <2>2, <4>2, PlanFacts
        <5>. QED
          BY <1>7, <2>3, <3>2, <4>2, <5>1 DEF InPlace
      <4>. QED
        BY <4>1, <4>2
    <3>3. CASE p # ManifestDir /\ p = Act.path
      BY <1>7, <2>2, <3>1, <3>3 DEF InPlace
    <3>4. CASE p # ManifestDir /\ p # Act.path
      BY <1>7, <2>3, <3>1, <3>4 DEF InPlace
    <3>. QED
      BY <3>2, <3>3, <3>4
  <2>. QED
    BY <1>1, <1>2, <1>4, <1>6, <1>7, <2>1, <2>4, Advanced
<1>. QED
  BY <1>3, <1>8, <1>9

\* The steps of a plan.
LEMMA SnapshotSafe == ProjectInv /\ Snapshot => ProjectInv'
<1>. SUFFICES ASSUME ProjectInv, Snapshot PROVE ProjectInv'
  OBVIOUS
<1>1. /\ cmd.at = "snapshot" /\ file' = file /\ bak' = bak /\ cmd.n \in DOMAIN cmd.plan /\ cmd.op = "add" /\ Edits(cmd)
  BY DEF Snapshot, At, KeepFiles, ProjectInv, PlaceOf, Edits
<1>2. Act = cmd.plan[cmd.n] /\ Act.path \in Path /\ cmd.n >= 1 /\ Act.path # ManifestDir
      /\ (Act.do = "update" <=> Act.path \in Updated) /\ ~SteppedBy(Act.path, cmd.n) /\ cmd.n # 0
  BY <1>1, ActFacts, ProjectTypeFacts
<1>3. CASE Act.do = "update" /\ Exists(file[Act.path])
  <2>1. cmd' = [cmd EXCEPT !.at = "bak", !.node = file[Act.path]]
    BY <1>3 DEF Snapshot, Set
  <2>2. PICK f \in FileState : f = file[Act.path]
    BY <1>2, ProjectTypeFacts
  <2>3. /\ cmd' \in ConfigCommand /\ SameJob(cmd') /\ cmd'.at = "bak" /\ cmd'.n = cmd.n /\ cmd'.baks = cmd.baks
        /\ cmd'.written = cmd.written /\ cmd'.node = file[Act.path]
    <3>1. PICK a \in Places : a = "bak"
      BY DEF Places
    <3>2. cmd' = [cmd EXCEPT !.at = a, !.node = f]
      BY <2>1, <2>2, <3>1
    <3>3. cmd \in ConfigCommand
      BY ProjectTypeFacts
    <3>4. LET r == [cmd EXCEPT !.at = a, !.node = f] IN
          r \in ConfigCommand /\ SameJob(r) /\ r.at = a /\ r.n = cmd.n /\ r.baks = cmd.baks /\ r.written = cmd.written
          /\ r.node = f /\ r.restored = cmd.restored
      BY <3>3, GoNodeFacts
    <3>. QED
      BY <2>2, <3>1, <3>2, <3>4
  <2>4. PlaceOf(cmd')
    BY <1>1, <1>2, <1>3, <2>3 DEF PlaceOf, SameJob
  <2>5. NodeFits'
    BY <1>1, <1>2, <2>3 DEF NodeFits, SameJob
  <2>6. BaksFit'
    <3>1. \A p : Saved(p)' <=> Saved(p)
      BY <1>1, <2>3, JobKept DEF SameJob, Saved
    <3>2. Stepping
      BY <1>1 DEF Stepping
    <3>. QED
      BY <1>1, <2>3, <3>1, <3>2, JobKept DEF SameJob, BaksFit, ProjectInv
  <2>. QED
    BY <1>1, <2>3, <2>4, <2>5, <2>6, StaysInStep, ProjectTypeFacts
<1>4. CASE ~(Act.do = "update" /\ Exists(file[Act.path]))
  <2>1. cmd' = [cmd EXCEPT !.at = "apply"]
    BY <1>4 DEF Snapshot, Set
  <2>3. /\ cmd' \in ConfigCommand /\ SameJob(cmd') /\ cmd'.at = "apply" /\ cmd'.n = cmd.n /\ cmd'.baks = cmd.baks
        /\ cmd'.written = cmd.written
    BY <2>1, GoFacts, ProjectTypeFacts DEF Places
  <2>4. PlaceOf(cmd')
    BY <1>1, <1>2, <2>3 DEF PlaceOf, SameJob, Edits
  <2>5. NodeFits'
    BY <2>3 DEF NodeFits
  <2>6. BaksFit'
    <3>1. \A p : Saved(p)' <=> (Saved(p) \/ p = Act.path)
      BY <1>1, <1>2, <2>3, JobKept DEF SameJob, Saved
    <3>2. Stepping /\ StepsDone
      BY <1>1 DEF Stepping, ProjectInv
    <3>3. Act.path \in Updated => cmd.before[Act.path].is # "whole"
      <4>. SUFFICES ASSUME Act.path \in Updated, cmd.before[Act.path].is = "whole" PROVE FALSE
        OBVIOUS
      <4>1. AsFound(file[Act.path], Act.path)
        BY <1>2, <3>2 DEF StepsDone, InPlace
      <4>2. file[Act.path].is = "whole"
        BY <1>1, <1>2, <4>1, SameFacts
      <4>. QED
        BY <1>2, <1>4, <4>2 DEF Exists
    <3>. QED
      BY <1>1, <1>2, <2>3, <3>1, <3>2, <3>3, JobKept DEF SameJob, BaksFit, ProjectInv
  <2>. QED
    BY <1>1, <2>3, <2>4, <2>5, <2>6, StaysInStep, ProjectTypeFacts
<1>. QED
  BY <1>3, <1>4

LEMMA WriteBakSafe == ProjectInv /\ WriteBak => ProjectInv'
<1>. SUFFICES ASSUME ProjectInv, WriteBak PROVE ProjectInv'
  OBVIOUS
<1>1. /\ cmd.at = "bak" /\ file' = file /\ cmd.n \in DOMAIN cmd.plan /\ cmd.op = "add" /\ Edits(cmd)
      /\ cmd.node = file[cmd.plan[cmd.n].path]
  BY DEF WriteBak, At, ProjectInv, PlaceOf, Edits, NodeFits
<1>2. Act = cmd.plan[cmd.n] /\ Act.path \in Path /\ cmd.n >= 1 /\ Act.path # ManifestDir
      /\ ~SteppedBy(Act.path, cmd.n) /\ cmd.n # 0 /\ (Act.do = "update" <=> Act.path \in Updated)
  BY <1>1, ActFacts, ProjectTypeFacts
<1>3. bak' = [bak EXCEPT ![Act.path] = cmd.node] /\ bak' \in [Path -> FileState]
  BY <1>2, ProjectTypeFacts DEF WriteBak
<1>4. PICK b \in Seq(Updated) : b = Append(cmd.baks, Act.path)
  <2>1. cmd.baks \in Seq(Updated)
    BY ProjectTypeFacts
  <2>2. Append(cmd.baks, Act.path) \in Seq(Updated)
    <3>1. Act.path \in Updated
      BY <1>1, <1>2 DEF ProjectInv, PlaceOf
    <3>. QED
      BY <2>1, <3>1
  <2>. QED
    BY <2>2
<1>5. /\ cmd' \in ConfigCommand /\ SameJob(cmd') /\ cmd'.at = "apply" /\ cmd'.n = cmd.n /\ cmd'.baks = b
      /\ cmd'.written = cmd.written
  <2>1. cmd' = [cmd EXCEPT !.at = "apply", !.baks = b]
    BY <1>4 DEF WriteBak, Set
  <2>2. PICK a \in Places : a = "apply"
    BY DEF Places
  <2>3. cmd' = [cmd EXCEPT !.at = a, !.baks = b]
    BY <2>1, <2>2
  <2>. QED
    BY <2>2, <2>3, GoBaksFacts, ProjectTypeFacts
<1>6. PlaceOf(cmd')
  BY <1>1, <1>2, <1>5 DEF PlaceOf, SameJob, Edits
<1>7. NodeFits'
  BY <1>5 DEF NodeFits
<1>8. BaksFit'
  <2>1. \A p : Saved(p)' <=> (Saved(p) \/ p = Act.path)
    BY <1>1, <1>2, <1>5, JobKept DEF SameJob, Saved
  <2>2. Stepping /\ StepsDone /\ BaksFit
    BY <1>1 DEF Stepping, ProjectInv
  <2>3. Same(cmd.node, Act.path)
    <3>1. AsFound(file[Act.path], Act.path)
      BY <1>2, <2>2 DEF StepsDone, InPlace
    <3>. QED
      BY <1>1, <1>2, <3>1, SameFacts
  <2>4. ASSUME NEW i \in DOMAIN b
        PROVE  Saved(b[i])' /\ Same(bak'[b[i]], b[i])
    <3>1. CASE i \in DOMAIN cmd.baks
      <4>1. b[i] = cmd.baks[i] /\ b[i] \in Path
        BY <1>4, <3>1, ProjectTypeFacts
      <4>2. Saved(b[i]) /\ Same(bak[b[i]], b[i])
        BY <1>1, <1>2, <2>2, <3>1, <4>1 DEF BaksFit
      <4>3. b[i] # Act.path
        BY <1>1, <1>2, <4>2 DEF Saved
      <4>. QED
        BY <1>3, <2>1, <4>1, <4>2, <4>3, ProjectTypeFacts
    <3>2. CASE i \notin DOMAIN cmd.baks
      <4>1. b[i] = Act.path
        BY <1>4, <2>4, <3>2, ProjectTypeFacts
      <4>. QED
        BY <1>2, <1>3, <2>1, <2>3, <4>1, ProjectTypeFacts
    <3>. QED
      BY <3>1, <3>2
  <2>5. ASSUME NEW p \in Updated, Saved(p) \/ p = Act.path, cmd.before[p].is = "whole"
        PROVE  \E i \in DOMAIN b : b[i] = p
    <3>1. CASE p = Act.path
      <4>1. Len(b) \in DOMAIN b /\ b[Len(b)] = Act.path
        BY <1>2, <1>4, ProjectTypeFacts
      <4>. QED
        BY <3>1, <4>1
    <3>2. CASE Saved(p)
      <4>1. PICK i \in DOMAIN cmd.baks : cmd.baks[i] = p
        BY <1>1, <1>2, <2>2, <2>5, <3>2 DEF BaksFit
      <4>2. i \in DOMAIN b /\ b[i] = p
        BY <1>4, <4>1, ProjectTypeFacts
      <4>. QED
        BY <4>2
    <3>. QED
      BY <2>5, <3>1, <3>2
  <2>6. \A i \in DOMAIN b : Same(bak[b[i]], b[i])'
    BY <1>5, <2>4 DEF Same, SameJob
  <2>. QED
    BY <1>5, <2>1, <2>4, <2>5, <2>6 DEF BaksFit, SameJob
<1>. QED
  BY <1>1, <1>3, <1>5, <1>6, <1>7, <1>8, StaysInStep, ProjectTypeFacts

LEMMA WriteBakFailsSafe == ProjectInv /\ WriteBakFails => ProjectInv'
<1>. SUFFICES ASSUME ProjectInv, WriteBakFails PROVE ProjectInv'
  OBVIOUS
<1>1. /\ cmd.at = "bak" /\ Errs /\ file' = file /\ cmd.n \in DOMAIN cmd.plan /\ Edits(cmd)
      /\ bak' = [bak EXCEPT ![Act.path] = Torn]
  BY DEF WriteBakFails, At, ProjectInv, PlaceOf, Edits
<1>2. Act = cmd.plan[cmd.n]
  BY <1>1, ActFacts
<1>3. bak' \in [Path -> FileState] /\ \A p \in Path : bak'[p] # bak[p] => p = cmd.plan[cmd.n].path
  BY <1>1, <1>2, FileFacts, ProjectTypeFacts
<1>. QED
  BY <1>1, <1>3, Failing

\* A file that is read: a torn one may be read as an empty document.
LEMMA ParsedFacts ==
  ASSUME NEW g \in FileState, NEW f \in Parsed(g)
  PROVE  /\ f \in FileState /\ f.is # "absent" /\ f.has = g.has
         /\ f.is # "torn" => f = Whole(g.has)
<1>1. CASE g.is = "torn"
  BY <1>1, FileFacts DEF Parsed
<1>2. CASE g.is # "torn"
  BY <1>2, FileFacts DEF Parsed
<1>. QED
  BY <1>1, <1>2

LEMMA NormalizeSafe == ProjectInv /\ Normalize => ProjectInv'
<1>. SUFFICES ASSUME ProjectInv, Normalize PROVE ProjectInv'
  OBVIOUS
<1>1. /\ cmd.at = "normalize" /\ file' = file /\ bak' = bak /\ cmd.n = 0 /\ cmd.op = "add" /\ Edits(cmd)
      /\ file = cmd.before /\ Exists(file[FractaYAML]) /\ cmd.baks = <<>> /\ cmd.written = {}
  BY DEF Normalize, At, KeepFiles, ProjectInv, PlaceOf, NotBegun, Edits
<1>2. PICK f \in Parsed(file[FractaYAML]) :
        IF f.is = "torn" THEN Errs
        ELSE IF Whole(Normalized(f.has)) = file[FractaYAML] THEN NextStep
        ELSE Set([cmd EXCEPT !.at = "temp", !.node = Whole(Normalized(f.has))])
  BY DEF Normalize
<1>3. file[FractaYAML] \in FileState
  BY PathFacts, ProjectTypeFacts
<1>4. PICK new \in FileState : new = Whole(Normalized(f.has))
  <2>1. f \in FileState
    BY <1>3, ParsedFacts
  <2>2. Normalized(f.has) \in SUBSET Content
    BY <2>1, NormalFacts
  <2>. QED
    BY <2>2, FileFacts
<1>5. f.is # "torn" => AsFound(new, FractaYAML)
  <2>. SUFFICES ASSUME f.is # "torn" PROVE AsFound(new, FractaYAML)
    OBVIOUS
  <2>1. f.has = file[FractaYAML].has
    BY <1>3, ParsedFacts
  <2>2. CASE file[FractaYAML].is = "whole"
    <3>1. new = Normal(cmd.before[FractaYAML])
      BY <1>1, <1>4, <2>1, <2>2 DEF Normal
    <3>. QED
      BY <1>1, <3>1 DEF AsFound, Found
  <2>3. CASE file[FractaYAML].is = "torn"
    <3>1. f.has = {}
      BY <1>3, <2>1, <2>3, FileFacts
    <3>2. Normalized({}) = {}
      BY DEF Normalized
    <3>. QED
      BY <1>1, <1>4, <2>3, <3>1, <3>2 DEF AsFound
  <2>. QED
    BY <1>1, <1>3, <2>2, <2>3, FileFacts DEF Exists
<1>6. CASE f.is = "torn"
  BY <1>1, <1>2, <1>6, Failing, ProjectTypeFacts
<1>7. CASE f.is # "torn" /\ new = file[FractaYAML]
  <2>1. cmd' = Following(cmd, After)
    BY <1>2, <1>4, <1>7 DEF NextStep, Set
  <2>2. PICK a \in Places : a = After
    BY <1>1, AfterFacts
  <2>3. /\ cmd' \in ConfigCommand /\ SameJob(cmd') /\ cmd'.at = After /\ cmd'.n = cmd.n + 1 /\ cmd'.baks = cmd.baks
        /\ cmd'.written = cmd.written /\ cmd'.node = Absent
    BY <2>1, <2>2, FollowingFacts, ProjectTypeFacts
  <2>4. ASSUME NEW p \in Path PROVE InPlace(file[p], p, cmd.n + 1)
    <3>1. ~SteppedBy(p, cmd.n + 1)
      BY <1>1, ProjectTypeFacts DEF SteppedBy
    <3>2. CASE p = ManifestDir
      BY <1>1, <3>2 DEF InPlace
    <3>3. CASE p # ManifestDir /\ p = FractaYAML
      BY <1>5, <1>7, <3>1, <3>3 DEF InPlace
    <3>4. CASE p # ManifestDir /\ p # FractaYAML
      BY <1>1, <3>1, <3>4 DEF InPlace, AsFound, Found
    <3>. QED
      BY <3>2, <3>3, <3>4
  <2>5. cmd.n <= Len(cmd.plan)
    BY <1>1, ProjectTypeFacts
  <2>. QED
    BY <1>1, <2>3, <2>4, <2>5, Advanced, ProjectTypeFacts
<1>8. CASE f.is # "torn" /\ new # file[FractaYAML]
  <2>1. PICK a \in Places : a = "temp"
    BY DEF Places
  <2>2. cmd' = [cmd EXCEPT !.at = a, !.node = new]
    BY <1>2, <1>4, <1>8, <2>1 DEF Set
  <2>3. cmd \in ConfigCommand
    BY ProjectTypeFacts
  <2>4. LET r == [cmd EXCEPT !.at = a, !.node = new] IN
        r \in ConfigCommand /\ SameJob(r) /\ r.at = a /\ r.n = cmd.n /\ r.baks = cmd.baks /\ r.written = cmd.written
        /\ r.node = new /\ r.restored = cmd.restored
    BY <2>3, GoNodeFacts
  <2>5. /\ cmd' \in ConfigCommand /\ SameJob(cmd') /\ cmd'.at = "temp" /\ cmd'.n = cmd.n /\ cmd'.baks = cmd.baks
        /\ cmd'.written = cmd.written /\ cmd'.node = new
    BY <2>1, <2>2, <2>4
  <2>6. PlaceOf(cmd')
    BY <1>1, <2>5 DEF PlaceOf, SameJob
  <2>7. NodeFits'
    BY <1>1, <1>5, <1>8, <2>5, JobKept DEF NodeFits
  <2>8. BaksFit'
    BY <1>1, <2>5, NothingSaved
  <2>. QED
    BY <1>1, <2>5, <2>6, <2>7, <2>8, StaysInStep, ProjectTypeFacts
<1>. QED
  BY <1>6, <1>7, <1>8

LEMMA ApplySafe == ProjectInv /\ Apply => ProjectInv'
<1>. SUFFICES ASSUME ProjectInv, Apply PROVE ProjectInv'
  OBVIOUS
<1>1. /\ cmd.at = "apply" /\ file' = file /\ bak' = bak /\ cmd.n \in DOMAIN cmd.plan /\ Edits(cmd)
      /\ cmd.op \in {"add", "remove"} /\ Act.do # "delete"
  BY DEF Apply, At, KeepFiles, ProjectInv, PlaceOf, Edits
<1>2. Act = cmd.plan[cmd.n] /\ Act.path \in Path /\ cmd.n >= 1 /\ cmd.n <= Len(cmd.plan) /\ Act.path # ManifestDir
      /\ (Act.do = "update" <=> Act.path \in Updated) /\ ~SteppedBy(Act.path, cmd.n) /\ cmd.n # 0
  BY <1>1, ActFacts, ProjectTypeFacts
<1>3. PICK f \in Parsed(file[Act.path]) :
        IF f.is = "torn" \/ Refused(f.has) THEN Errs
        ELSE IF \/ cmd.op = "remove" /\ ~Exists(file[Act.path])
                \/ Act.path = EnvExample /\ Changed(cmd.op, cmd.id, cmd.kind, Act.path, f.has) = f.has THEN NextStep
        ELSE Set([cmd EXCEPT !.at = "temp", !.node = Whole(Changed(cmd.op, cmd.id, cmd.kind, Act.path, f.has))])
  BY DEF Apply
<1>4. StepsDone /\ Stepping
  BY <1>1 DEF ProjectInv, Stepping
<1>5. AsFound(file[Act.path], Act.path) /\ file[Act.path] \in FileState
  BY <1>2, <1>4, ProjectTypeFacts DEF StepsDone, InPlace
<1>6. f.has = Found(Act.path).has
  <2>1. f.has = file[Act.path].has
    BY <1>5, ParsedFacts
  <2>2. CASE file[Act.path] = Found(Act.path)
    BY <2>1, <2>2
  <2>3. CASE file[Act.path] # Found(Act.path)
    <3>1. cmd.op = "add" /\ Act.path = FractaYAML /\ cmd.before[Act.path].is = "torn" /\ file[Act.path] = Whole({})
      BY <1>5, <2>3 DEF AsFound
    <3>2. cmd.before[Act.path] \in FileState
      BY <1>1, <1>2, TargetFacts
    <3>3. Found(Act.path) = cmd.before[Act.path]
      BY <3>1, <3>2, NormalFacts DEF Found
    <3>. QED
      BY <2>1, <3>1, <3>2, <3>3, FileFacts
  <2>. QED
    BY <2>2, <2>3
<1>7. Whole(Changed(cmd.op, cmd.id, cmd.kind, Act.path, f.has)) = Target(Act.path)
  <2>1. Act.path \in Planned
    BY <1>1, <1>2 DEF Planned
  <2>2. ~(cmd.op = "remove" /\ Act.path \notin Updated)
    BY <1>1, <1>2, PlanFacts
  <2>. QED
    BY <1>1, <1>2, <1>6, <2>1, <2>2, TargetFacts
<1>8. CASE f.is = "torn" \/ Refused(f.has)
  BY <1>1, <1>3, <1>8, Failing, ProjectTypeFacts
<1>9. CASE /\ ~(f.is = "torn" \/ Refused(f.has))
           /\ \/ cmd.op = "remove" /\ ~Exists(file[Act.path])
              \/ Act.path = EnvExample /\ Changed(cmd.op, cmd.id, cmd.kind, Act.path, f.has) = f.has
  <2>1. cmd' = Following(cmd, After)
    BY <1>3, <1>9 DEF NextStep, Set
  <2>2. PICK a \in Places : a = After
    BY <1>1, AfterFacts
  <2>3. /\ cmd' \in ConfigCommand /\ SameJob(cmd') /\ cmd'.at = After /\ cmd'.n = cmd.n + 1 /\ cmd'.baks = cmd.baks
        /\ cmd'.written = cmd.written /\ cmd'.node = Absent
    BY <2>1, <2>2, FollowingFacts, ProjectTypeFacts
  <2>4. file[Act.path] = Target(Act.path)
    <3>1. CASE cmd.op = "remove" /\ ~Exists(file[Act.path])
      <4>1. Act.do = "update" /\ Exists(cmd.before[Act.path])
        BY <1>1, <1>2, <3>1, PlanFacts
      <4>2. file[Act.path] = cmd.before[Act.path]
        BY <1>5, <3>1 DEF AsFound, Found
      <4>. QED
        BY <3>1, <4>1, <4>2
    <3>2. CASE Act.path = EnvExample /\ Changed(cmd.op, cmd.id, cmd.kind, Act.path, f.has) = f.has
      <4>1. Changed(cmd.op, cmd.id, cmd.kind, Act.path, f.has) = AppendEnvExample(f.has, cmd.id)
        BY <3>2, PathFacts DEF Changed
      <4>2. <<cmd.id, "var">> \in f.has
        BY <3>2, <4>1 DEF AppendEnvExample
      <4>3. file[Act.path].is = "whole" /\ file[Act.path].has = f.has
        BY <1>5, <4>2, ParsedFacts, FileFacts
      <4>4. file[Act.path] = Whole(f.has)
        BY <1>5, <4>3, FileFacts
      <4>. QED
        BY <1>7, <3>2, <4>4
    <3>. QED
      BY <1>9, <3>1, <3>2
  <2>5. ASSUME NEW p \in Path PROVE InPlace(file[p], p, cmd.n + 1)
    <3>1. SteppedBy(p, cmd.n + 1) <=> SteppedBy(p, cmd.n) \/ p = Act.path
      <4>1. \A i \in DOMAIN cmd.plan : i < cmd.n + 1 <=> i < cmd.n \/ i = cmd.n
        BY ProjectTypeFacts
      <4>. QED
        BY <1>1, <1>2, <4>1 DEF SteppedBy
    <3>2. InPlace(file[p], p, cmd.n)
      BY <1>2, <1>4 DEF StepsDone
    <3>3. CASE p = ManifestDir
      <4>1. CASE cmd.op = "add" /\ cmd.kind = "k8s"
        <5>1. Act.do = "update"
          BY <1>1, <1>2, <1>9, <4>1, PathFacts
        <5>2. cmd.n # 1
          BY <1>1, <1>2, <4>1, <5>1, PlanFacts
        <5>3. cmd.n >= 2 /\ cmd.n + 1 >= 2
          BY <1>2, <5>2, ProjectTypeFacts
        <5>. QED
          BY <3>2, <3>3, <5>3 DEF InPlace
      <4>2. CASE ~(cmd.op = "add" /\ cmd.kind = "k8s")
        BY <3>2, <3>3, <4>2 DEF InPlace
      <4>. QED
        BY <4>1, <4>2
    <3>4. CASE p # ManifestDir
      BY <2>4, <3>1, <3>2, <3>4 DEF InPlace
    <3>. QED
      BY <3>3, <3>4
  <2>. QED
    BY <1>1, <1>2, <2>3, <2>5, Advanced, ProjectTypeFacts, PlanFacts
<1>10. CASE ~(f.is = "torn" \/ Refused(f.has)) /\
            ~(\/ cmd.op = "remove" /\ ~Exists(file[Act.path])
              \/ Act.path = EnvExample /\ Changed(cmd.op, cmd.id, cmd.kind, Act.path, f.has) = f.has)
  <2>1. PICK a \in Places : a = "temp"
    BY DEF Places
  <2>2. PICK new \in FileState : new = Target(Act.path)
    BY <1>1, <1>2, TargetFacts
  <2>3. cmd' = [cmd EXCEPT !.at = a, !.node = new]
    BY <1>3, <1>7, <1>10, <2>1, <2>2 DEF Set
  <2>4. cmd \in ConfigCommand
    BY ProjectTypeFacts
  <2>5. LET r == [cmd EXCEPT !.at = a, !.node = new] IN
        r \in ConfigCommand /\ SameJob(r) /\ r.at = a /\ r.n = cmd.n /\ r.baks = cmd.baks /\ r.written = cmd.written
        /\ r.node = new /\ r.restored = cmd.restored
    BY <2>4, GoNodeFacts
  <2>6. /\ cmd' \in ConfigCommand /\ SameJob(cmd') /\ cmd'.at = "temp" /\ cmd'.n = cmd.n /\ cmd'.baks = cmd.baks
        /\ cmd'.written = cmd.written /\ cmd'.node = new
    BY <2>1, <2>3, <2>5
  <2>7. PlaceOf(cmd')
    BY <1>1, <1>2, <2>6 DEF PlaceOf, SameJob, Edits
  <2>8. NodeFits'
    BY <1>2, <2>2, <2>6, JobKept DEF NodeFits, SameJob
  <2>9. BaksFit'
    BY <1>1, <2>6, KeepsBaks
  <2>. QED
    BY <1>1, <2>6, <2>7, <2>8, <2>9, StaysInStep, ProjectTypeFacts
<1>. QED
  BY <1>8, <1>9, <1>10

LEMMA DeleteFileSafe == ProjectInv /\ DeleteFile => ProjectInv'
<1>. SUFFICES ASSUME ProjectInv, DeleteFile PROVE ProjectInv'
  OBVIOUS
<1>1. /\ cmd.at = "apply" /\ bak' = bak /\ cmd.n \in DOMAIN cmd.plan /\ Edits(cmd) /\ cmd.op \in {"add", "remove"}
      /\ Act.do = "delete" /\ file' = [file EXCEPT ![Act.path] = Absent]
  BY DEF DeleteFile, At, ProjectInv, PlaceOf, Edits
<1>2. Act = cmd.plan[cmd.n] /\ Act.path \in Path /\ cmd.n >= 1 /\ cmd.n <= Len(cmd.plan) /\ Act.path # ManifestDir
      /\ (Act.do = "update" <=> Act.path \in Updated) /\ ~SteppedBy(Act.path, cmd.n) /\ cmd.n # 0
  BY <1>1, ActFacts, ProjectTypeFacts
<1>3. cmd.op = "remove" /\ Act.path \notin Updated
  BY <1>1, <1>2, PlanFacts
<1>4. Target(Act.path) = Absent
  <2>1. Act.path \in Planned
    BY <1>1, <1>2 DEF Planned
  <2>. QED
    BY <1>1, <1>2, <1>3, <2>1, TargetFacts
<1>5. StepsDone /\ Stepping
  BY <1>1 DEF ProjectInv, Stepping
<1>6. /\ file' \in [Path -> FileState] /\ file'[ManifestDir].has = {}
      /\ \A p \in Path : file'[p] = IF p = Act.path THEN Absent ELSE file[p]
  BY <1>1, <1>2, FileFacts, PathFacts, ProjectTypeFacts
<1>7. cmd' = Following(cmd, After)
  BY DEF DeleteFile, NextStep, Set
<1>8. PICK a \in Places : a = After
  BY <1>1, AfterFacts
<1>9. /\ cmd' \in ConfigCommand /\ SameJob(cmd') /\ cmd'.at = After /\ cmd'.n = cmd.n + 1 /\ cmd'.baks = cmd.baks
      /\ cmd'.written = cmd.written /\ cmd'.node = Absent
  BY <1>7, <1>8, FollowingFacts, ProjectTypeFacts
<1>10. ASSUME NEW p \in Path PROVE InPlace(file'[p], p, cmd.n + 1)
  <2>1. SteppedBy(p, cmd.n + 1) <=> SteppedBy(p, cmd.n) \/ p = Act.path
    <3>1. \A i \in DOMAIN cmd.plan : i < cmd.n + 1 <=> i < cmd.n \/ i = cmd.n
      BY ProjectTypeFacts
    <3>. QED
      BY <1>1, <1>2, <3>1 DEF SteppedBy
  <2>2. InPlace(file[p], p, cmd.n)
    BY <1>2, <1>5 DEF StepsDone
  <2>3. CASE p = ManifestDir
    BY <1>2, <1>3, <1>6, <2>2, <2>3 DEF InPlace
  <2>4. CASE p # ManifestDir
    BY <1>4, <1>6, <2>1, <2>2, <2>4 DEF InPlace
  <2>. QED
    BY <2>3, <2>4
<1>. QED
  BY <1>1, <1>2, <1>3, <1>6, <1>9, <1>10, Advanced

LEMMA DeleteFileFailsSafe == ProjectInv /\ DeleteFileFails => ProjectInv'
<1>. SUFFICES ASSUME ProjectInv, DeleteFileFails PROVE ProjectInv'
  OBVIOUS
<1>1. cmd.at = "apply" /\ Errs /\ file' = file /\ bak' = bak /\ Edits(cmd)
  BY DEF DeleteFileFails, At, KeepFiles, ProjectInv, PlaceOf, Edits
<1>. QED
  BY <1>1, Failing, ProjectTypeFacts

\* An add that is done removes its .bak files.
LEMMA CleanupBaksSafe == ProjectInv /\ CleanupBaks => ProjectInv'
<1>. SUFFICES ASSUME ProjectInv, CleanupBaks PROVE ProjectInv'
  OBVIOUS
<1>1. /\ cmd.at = "cleanup" /\ file' = file /\ cmd.n = Len(cmd.plan) + 1 /\ cmd.op = "add" /\ Edits(cmd)
      /\ bak' = [p \in Path |-> IF p \in Range(cmd.baks) THEN Absent ELSE bak[p]] /\ cmd' = [cmd EXCEPT !.at = "done"]
  BY DEF CleanupBaks, At, Go, Set, ProjectInv, PlaceOf, Edits
<1>2. bak' \in [Path -> FileState]
  BY <1>1, FileFacts, ProjectTypeFacts
<1>3. /\ cmd' \in ConfigCommand /\ SameJob(cmd') /\ cmd'.at = "done" /\ cmd'.n = cmd.n /\ cmd'.baks = cmd.baks
      /\ cmd'.written = cmd.written
  BY <1>1, GoFacts, ProjectTypeFacts DEF Places, Rest
<1>4. PlaceOf(cmd')
  BY <1>1, <1>3, ProjectTypeFacts DEF PlaceOf
<1>5. ProjectTypes' /\ PlanFits(cmd)' /\ PlaceOf(cmd)'
  BY <1>1, <1>2, <1>3, <1>4, StepTypes, ProjectTypeFacts, PlanFacts
<1>6. NotBegun' /\ StepsDone' /\ NodeFits' /\ BaksFit' /\ RollingBack'
  BY <1>3 DEF NotBegun, StepsDone, Stepping, NodeFits, BaksFit, RollingBack
<1>7. \A p \in Path : file[p] = Target(p)
  <2>1. cmd.n >= 1
    BY <1>1, ProjectTypeFacts
  <2>2. \A p \in Path : InPlace(file[p], p, Len(cmd.plan) + 1)
    BY <1>1, <2>1 DEF ProjectInv, StepsDone, Stepping
  <2>. QED
    BY <1>1, <2>2, AllInPlace
<1>8. \A p \in Path : file'[p] = Target(p)'
  BY <1>1, <1>3, <1>7, JobKept
<1>9. ProjectSound'
  BY <1>3, <1>8 DEF ProjectSound, AllOrNothing, KilledKeepsContent
<1>. QED
  BY <1>5, <1>6, <1>9 DEF ProjectInv

\* A command in its rollback keeps to it.
LEMMA KeepsRollingBack ==
  ASSUME ProjectInv, cmd.at \in {"restore", "rewrite", "unlink"},
         SameJob(cmd'), cmd' \in ConfigCommand, cmd'.n = cmd.n, cmd'.written = cmd.written,
         file' \in [Path -> FileState], bak' \in [Path -> FileState], file'[ManifestDir].has = {},
         cmd'.at \in {"restore", "rewrite", "unlink"}, cmd'.at \in {"rewrite", "unlink"} => cmd'.baks # <<>>,
         cmd.baks = <<>> => cmd'.baks = <<>>,
         RollingBack'
  PROVE  ProjectInv'
<1>1. PlaceOf(cmd) /\ cmd.op = "add" /\ Edits(cmd)
  BY DEF ProjectInv, PlaceOf, Edits
<1>2. PlaceOf(cmd')
  BY <1>1 DEF PlaceOf, SameJob
<1>3. ProjectTypes' /\ PlanFits(cmd)' /\ PlaceOf(cmd)'
  BY <1>1, <1>2, StepTypes, PlanFacts
<1>4. NotBegun' /\ StepsDone' /\ NodeFits' /\ BaksFit' /\ ProjectSound'
  BY DEF NotBegun, StepsDone, Stepping, NodeFits, BaksFit, ProjectSound, AllOrNothing, KilledKeepsContent
<1>. QED
  BY <1>3, <1>4 DEF ProjectInv

\* The last of the saved files and the ones before it.
LEMMA LastFront ==
  ASSUME NEW S, NEW b \in Seq(S), b # <<>>
  PROVE  /\ Last(b) \in S /\ Len(b) \in DOMAIN b /\ b[Len(b)] = Last(b)
         /\ Front(b) \in Seq(S) /\ DOMAIN Front(b) = 1 .. Len(b) - 1
         /\ \A i \in DOMAIN Front(b) : i \in DOMAIN b /\ Front(b)[i] = b[i]
         /\ \A i \in DOMAIN b : i # Len(b) => i \in DOMAIN Front(b)
<1>1. Len(b) \in Nat /\ Len(b) # 0 /\ DOMAIN b = 1 .. Len(b) /\ \A i \in 1 .. Len(b) : b[i] \in S
  OBVIOUS
<1>2. Last(b) = b[Len(b)]
  BY DEF Last
<1>3. Front(b) = [i \in 1 .. Len(b) - 1 |-> b[i]]
  BY DEF Front
<1>4. Front(b) \in Seq(S)
  <2>1. Len(b) - 1 \in Nat
    BY <1>1
  <2>2. \A n \in Nat : n <= Len(b) => [i \in 1 .. n |-> b[i]] \in Seq(S)
    BY <1>1
  <2>. QED
    BY <1>3, <2>1, <2>2
<1>. QED
  BY <1>1, <1>2, <1>3, <1>4

\* Restore, Rewrite, RewriteFails and RemoveBak.
LEMMA RestoreSafe == ProjectInv /\ Restore => ProjectInv'
<1>. SUFFICES ASSUME ProjectInv, Restore PROVE ProjectInv'
  OBVIOUS
<1>1. /\ cmd.at = "restore" /\ cmd.baks # <<>> /\ bak' = bak /\ cmd.op = "add" /\ Edits(cmd) /\ RollingBack
      /\ cmd.baks \in Seq(Updated) /\ cmd.plan \in Seq(PlanStep) /\ cmd.n # 0
  BY ProjectTypeFacts DEF Restore, At, ProjectInv, PlaceOf, Edits
<1>2. PICK p \in Path : p = Last(cmd.baks) /\ p \in Updated
  BY <1>1, LastFront, PathFacts
<1>3. CASE Exists(bak[p])
  <2>1. /\ file' = [file EXCEPT ![p] = Torn] /\ cmd' = [cmd EXCEPT !.at = "rewrite", !.node = bak[p]]
    BY <1>2, <1>3 DEF Restore, Set
  <2>2. file' \in [Path -> FileState] /\ file'[ManifestDir].has = {} /\ \A q \in Path : q # p => file'[q] = file[q]
    BY <2>1, FileFacts, PathFacts, ProjectTypeFacts
  <2>3. /\ cmd' \in ConfigCommand /\ SameJob(cmd') /\ cmd'.at = "rewrite" /\ cmd'.n = cmd.n /\ cmd'.baks = cmd.baks
        /\ cmd'.written = cmd.written /\ cmd'.node = bak[p] /\ cmd'.restored = cmd.restored
    <3>1. PICK a \in Places, f \in FileState : a = "rewrite" /\ f = bak[p]
      BY ProjectTypeFacts DEF Places
    <3>2. cmd' = [cmd EXCEPT !.at = a, !.node = f]
      BY <2>1, <3>1
    <3>3. cmd \in ConfigCommand
      BY ProjectTypeFacts
    <3>4. LET r == [cmd EXCEPT !.at = a, !.node = f] IN
          r \in ConfigCommand /\ SameJob(r) /\ r.at = a /\ r.n = cmd.n /\ r.baks = cmd.baks /\ r.written = cmd.written
          /\ r.node = f /\ r.restored = cmd.restored
      BY <3>3, GoNodeFacts
    <3>. QED
      BY <3>1, <3>2, <3>4
  <2>4. RollingBack'
    <3>. SUFFICES ASSUME cmd.restored PROVE RollingBack'
      BY <2>3 DEF RollingBack
    <3>1. PICK i \in DOMAIN cmd.baks : cmd.baks[i] = p
      BY <1>1, <1>2, LastFront
    <3>2. bak[p] # Absent
      BY <1>3, FileFacts DEF Exists
    <3>3. Same(bak[p], p)
      BY <1>1, <3>1, <3>2 DEF RollingBack
    <3>4. \A q \in Path : \/ Spared(q) \/ Same(file'[q], q)
                          \/ Same(bak[q], q) /\ \E j \in DOMAIN cmd.baks : cmd.baks[j] = q
      BY <1>1, <2>2, <3>1, <3>3 DEF RollingBack
    <3>5. ASSUME NEW j \in DOMAIN cmd.baks
          PROVE  \/ Same(bak[cmd.baks[j]], cmd.baks[j])
                 \/ bak[cmd.baks[j]] = Absent /\ Same(file'[cmd.baks[j]], cmd.baks[j])
      <4>1. cmd.baks[j] \in Path
        BY ProjectTypeFacts
      <4>2. CASE cmd.baks[j] = p
        BY <3>3, <4>2
      <4>3. CASE cmd.baks[j] # p
        BY <1>1, <2>2, <4>1, <4>3 DEF RollingBack
      <4>. QED
        BY <4>2, <4>3
    <3>6. /\ \A q \in Path : \/ Spared(q)' \/ Same(file[q], q)'
                             \/ Same(bak[q], q)' /\ \E j \in DOMAIN cmd'.baks : cmd'.baks[j] = q
          /\ \A j \in DOMAIN cmd'.baks : \/ Same(bak[cmd.baks[j]], cmd.baks[j])'
                                         \/ bak'[cmd'.baks[j]] = Absent /\ Same(file[cmd.baks[j]], cmd.baks[j])'
      BY <1>1, <2>3, <3>4, <3>5 DEF Spared, Same, SameJob
    <3>7. Same(cmd.node, Last(cmd.baks))' /\ Same(bak[Last(cmd.baks)], Last(cmd.baks))'
      BY <1>1, <1>2, <2>3, <3>3 DEF Same, SameJob
    <3>. QED
      BY <2>3, <3>6, <3>7 DEF RollingBack
  <2>5. cmd'.at \in {"restore", "rewrite", "unlink"} /\ cmd'.baks # <<>>
    BY <1>1, <2>3
  <2>. QED
    BY <1>1, <2>2, <2>3, <2>4, <2>5, KeepsRollingBack, ProjectTypeFacts
<1>4. CASE ~Exists(bak[p])
  <2>1. PICK b \in Seq(Updated) : b = Front(cmd.baks)
    BY <1>1, LastFront
  <2>2. cmd' = [cmd EXCEPT !.baks = b] /\ file' = file
    BY <1>2, <1>4, <2>1 DEF Restore, Set
  <2>3. /\ cmd' \in ConfigCommand /\ SameJob(cmd') /\ cmd'.at = "restore" /\ cmd'.n = cmd.n /\ cmd'.baks = b
        /\ cmd'.written = cmd.written /\ cmd'.restored = cmd.restored
    BY <1>1, <2>2, BaksFacts, ProjectTypeFacts
  <2>4. RollingBack'
    <3>. SUFFICES ASSUME cmd.restored PROVE RollingBack'
      BY <2>3 DEF RollingBack
    <3>1. Len(cmd.baks) \in DOMAIN cmd.baks /\ cmd.baks[Len(cmd.baks)] = p
      BY <1>1, <1>2, LastFront
    <3>2. bak[p] = Absent /\ bak[p].is # "whole"
      BY <1>4, FileFacts, ProjectTypeFacts DEF Exists
    <3>3. Spared(p) \/ Same(file[p], p)
      <4>1. Same(bak[p], p) \/ Same(file[p], p)
        BY <1>1, <3>1 DEF RollingBack
      <4>2. Same(bak[p], p) => cmd.before[p].is # "whole"
        BY <1>1, <3>2, SameFacts
      <4>. QED
        BY <4>1, <4>2 DEF Spared
    <3>4. ASSUME NEW q \in Path
          PROVE  \/ Spared(q) \/ Same(file[q], q)
                 \/ Same(bak[q], q) /\ \E j \in DOMAIN b : b[j] = q
      <4>1. CASE q = p
        BY <3>3, <4>1
      <4>2. CASE q # p
        <5>1. \A j \in DOMAIN cmd.baks : cmd.baks[j] = q => j \in DOMAIN b /\ b[j] = q
          BY <1>1, <2>1, <3>1, <4>2, LastFront
        <5>. QED
          BY <1>1, <5>1 DEF RollingBack
      <4>. QED
        BY <4>1, <4>2
    <3>5. \A j \in DOMAIN b : \/ Same(bak[b[j]], b[j])
                              \/ bak[b[j]] = Absent /\ Same(file[b[j]], b[j])
      <4>1. \A j \in DOMAIN b : j \in DOMAIN cmd.baks /\ b[j] = cmd.baks[j]
        BY <1>1, <2>1, LastFront
      <4>. QED
        BY <1>1, <4>1 DEF RollingBack
    <3>6. /\ \A q \in Path : \/ Spared(q)' \/ Same(file[q], q)'
                             \/ Same(bak[q], q)' /\ \E j \in DOMAIN cmd'.baks : cmd'.baks[j] = q
          /\ \A j \in DOMAIN cmd'.baks : \/ Same(bak[cmd.baks[j]], cmd.baks[j])'
                                         \/ bak'[cmd'.baks[j]] = Absent /\ Same(file[cmd.baks[j]], cmd.baks[j])'
      BY <1>1, <2>2, <2>3, <3>4, <3>5 DEF Spared, Same, SameJob
    <3>. QED
      BY <2>3, <3>6 DEF RollingBack
  <2>5. cmd'.at \in {"restore", "rewrite", "unlink"}
    BY <2>3
  <2>. QED
    BY <1>1, <2>2, <2>3, <2>4, <2>5, KeepsRollingBack, ProjectTypeFacts
<1>. QED
  BY <1>3, <1>4

LEMMA RewriteSafe == ProjectInv /\ Rewrite => ProjectInv'
<1>. SUFFICES ASSUME ProjectInv, Rewrite PROVE ProjectInv'
  OBVIOUS
<1>1. /\ cmd.at = "rewrite" /\ cmd.baks # <<>> /\ bak' = bak /\ cmd.op = "add" /\ Edits(cmd) /\ RollingBack
      /\ cmd.baks \in Seq(Updated) /\ cmd' = [cmd EXCEPT !.at = "unlink"]
  BY ProjectTypeFacts DEF Rewrite, At, Go, Set, ProjectInv, PlaceOf, Edits
<1>2. PICK p \in Path : p = Last(cmd.baks) /\ p \in Updated
  BY <1>1, LastFront, PathFacts
<1>3. /\ cmd' \in ConfigCommand /\ SameJob(cmd') /\ cmd'.at = "unlink" /\ cmd'.n = cmd.n /\ cmd'.baks = cmd.baks
      /\ cmd'.written = cmd.written /\ cmd'.restored = cmd.restored
  BY <1>1, GoFacts, ProjectTypeFacts DEF Places
<1>4. /\ file' \in [Path -> FileState] /\ file'[p] = cmd.node /\ \A q \in Path : q # p => file'[q] = file[q]
  BY <1>2, ProjectTypeFacts DEF Rewrite
<1>5. file'[ManifestDir].has = {}
  BY <1>1, <1>2, <1>4, PathFacts, ProjectTypeFacts
<1>6. RollingBack'
  <2>. SUFFICES ASSUME cmd.restored PROVE RollingBack'
    BY <1>3 DEF RollingBack
  <2>1. Same(file'[p], p)
    BY <1>1, <1>2, <1>4 DEF RollingBack
  <2>2. \A q \in Path : \/ Spared(q) \/ Same(file'[q], q)
                        \/ Same(bak[q], q) /\ \E j \in DOMAIN cmd.baks : cmd.baks[j] = q
    BY <1>1, <1>4, <2>1 DEF RollingBack
  <2>3. \A j \in DOMAIN cmd.baks : \/ Same(bak[cmd.baks[j]], cmd.baks[j])
                                   \/ bak[cmd.baks[j]] = Absent /\ Same(file'[cmd.baks[j]], cmd.baks[j])
    <3>1. \A j \in DOMAIN cmd.baks : cmd.baks[j] \in Path
      BY ProjectTypeFacts
    <3>. QED
      BY <1>1, <1>4, <2>1, <3>1 DEF RollingBack
  <2>4. /\ \A q \in Path : \/ Spared(q)' \/ Same(file[q], q)'
                           \/ Same(bak[q], q)' /\ \E j \in DOMAIN cmd'.baks : cmd'.baks[j] = q
        /\ \A j \in DOMAIN cmd'.baks : \/ Same(bak[cmd.baks[j]], cmd.baks[j])'
                                       \/ bak'[cmd'.baks[j]] = Absent /\ Same(file[cmd.baks[j]], cmd.baks[j])'
    BY <1>1, <1>3, <2>2, <2>3 DEF Spared, Same, SameJob
  <2>5. Same(file[Last(cmd.baks)], Last(cmd.baks))'
    BY <1>2, <1>3, <2>1 DEF Same, SameJob
  <2>. QED
    BY <1>3, <2>4, <2>5 DEF RollingBack
<1>7. cmd'.at \in {"restore", "rewrite", "unlink"} /\ cmd'.baks # <<>>
  BY <1>1, <1>3
<1>. QED
  BY <1>1, <1>3, <1>4, <1>5, <1>6, <1>7, KeepsRollingBack, ProjectTypeFacts

LEMMA RewriteFailsSafe == ProjectInv /\ RewriteFails => ProjectInv'
<1>. SUFFICES ASSUME ProjectInv, RewriteFails PROVE ProjectInv'
  OBVIOUS
<1>1. /\ cmd.at = "rewrite" /\ cmd.baks # <<>> /\ bak' = bak /\ file' = file
      /\ cmd' = [cmd EXCEPT !.at = "unlink", !.restored = FALSE]
  BY DEF RewriteFails, At, Set, KeepFiles, ProjectInv, PlaceOf
<1>2. /\ cmd' \in ConfigCommand /\ SameJob(cmd') /\ cmd'.at = "unlink" /\ cmd'.n = cmd.n /\ cmd'.baks = cmd.baks
      /\ cmd'.written = cmd.written /\ cmd'.restored = FALSE
  BY <1>1, GoRestoredFacts, ProjectTypeFacts DEF Places
<1>3. RollingBack' /\ cmd'.at \in {"restore", "rewrite", "unlink"}
  BY <1>2 DEF RollingBack
<1>. QED
  BY <1>1, <1>2, <1>3, KeepsRollingBack, ProjectTypeFacts

LEMMA RemoveBakSafe == ProjectInv /\ RemoveBak => ProjectInv'
<1>. SUFFICES ASSUME ProjectInv, RemoveBak PROVE ProjectInv'
  OBVIOUS
<1>1. /\ cmd.at = "unlink" /\ cmd.baks # <<>> /\ file' = file /\ cmd.op = "add" /\ Edits(cmd) /\ RollingBack
      /\ cmd.baks \in Seq(Updated)
  BY ProjectTypeFacts DEF RemoveBak, At, ProjectInv, PlaceOf, Edits
<1>2. PICK p \in Path : p = Last(cmd.baks) /\ p \in Updated
  BY <1>1, LastFront, PathFacts
<1>3. PICK b \in Seq(Updated) : b = Front(cmd.baks)
  BY <1>1, LastFront
<1>4. bak' \in [Path -> FileState] /\ bak'[p] = Absent /\ \A q \in Path : q # p => bak'[q] = bak[q]
  BY <1>2, FileFacts, ProjectTypeFacts DEF RemoveBak
<1>5. /\ cmd' \in ConfigCommand /\ SameJob(cmd') /\ cmd'.at = "restore" /\ cmd'.n = cmd.n /\ cmd'.baks = b
      /\ cmd'.written = cmd.written /\ cmd'.restored = cmd.restored
  <2>1. PICK a \in Places : a = "restore"
    BY DEF Places
  <2>2. cmd' = [cmd EXCEPT !.at = a, !.baks = b]
    BY <1>3, <2>1 DEF RemoveBak, Set
  <2>. QED
    BY <2>1, <2>2, GoBaksFacts, ProjectTypeFacts
<1>6. RollingBack'
  <2>. SUFFICES ASSUME cmd.restored PROVE RollingBack'
    BY <1>5 DEF RollingBack
  <2>1. Same(file[p], p)
    BY <1>1, <1>2 DEF RollingBack
  <2>2. ASSUME NEW q \in Path
        PROVE  \/ Spared(q) \/ Same(file[q], q)
               \/ Same(bak'[q], q) /\ \E j \in DOMAIN b : b[j] = q
    <3>1. CASE q = p
      BY <2>1, <3>1
    <3>2. CASE q # p
      <4>1. \A j \in DOMAIN cmd.baks : cmd.baks[j] = q => j \in DOMAIN b /\ b[j] = q
        BY <1>1, <1>2, <1>3, <3>2, LastFront
      <4>. QED
        BY <1>1, <1>4, <3>2, <4>1 DEF RollingBack
    <3>. QED
      BY <3>1, <3>2
  <2>3. ASSUME NEW j \in DOMAIN b
        PROVE  \/ Same(bak'[b[j]], b[j])
               \/ bak'[b[j]] = Absent /\ Same(file[b[j]], b[j])
    <3>1. j \in DOMAIN cmd.baks /\ b[j] = cmd.baks[j] /\ b[j] \in Path
      <4>1. j \in DOMAIN cmd.baks /\ b[j] = cmd.baks[j]
        BY <1>1, <1>3, LastFront
      <4>. QED
        BY <4>1, ProjectTypeFacts
    <3>2. CASE b[j] = p
      BY <1>4, <2>1, <3>2
    <3>3. CASE b[j] # p
      BY <1>1, <1>4, <3>1, <3>3 DEF RollingBack
    <3>. QED
      BY <3>2, <3>3
  <2>4. /\ \A q \in Path : \/ Spared(q)' \/ Same(file[q], q)'
                           \/ Same(bak[q], q)' /\ \E j \in DOMAIN cmd'.baks : cmd'.baks[j] = q
        /\ \A j \in DOMAIN cmd'.baks : \/ Same(bak[cmd.baks[j]], cmd.baks[j])'
                                       \/ bak'[cmd'.baks[j]] = Absent /\ Same(file[cmd.baks[j]], cmd.baks[j])'
    BY <1>1, <1>5, <2>2, <2>3 DEF Spared, Same, SameJob
  <2>. QED
    BY <1>5, <2>4 DEF RollingBack
<1>7. cmd'.at \in {"restore", "rewrite", "unlink"} /\ cmd'.at \notin {"rewrite", "unlink"}
  BY <1>5
<1>. QED
  BY <1>1, <1>4, <1>5, <1>6, <1>7, KeepsRollingBack, ProjectTypeFacts

\* The end of a rollback.
LEMMA DeleteWrittenSafe == ProjectInv /\ DeleteWritten => ProjectInv'
<1>. SUFFICES ASSUME ProjectInv, DeleteWritten PROVE ProjectInv'
  OBVIOUS
<1>1. /\ cmd.at = "restore" /\ cmd.baks = <<>> /\ bak' = bak /\ cmd.op = "add" /\ Edits(cmd) /\ RollingBack
      /\ file' = [p \in Path |-> IF p \in cmd.written THEN Absent ELSE file[p]] /\ cmd' = [cmd EXCEPT !.at = "failed"]
  BY DEF DeleteWritten, At, Go, Set, ProjectInv, PlaceOf, Edits
<1>2. file' \in [Path -> FileState] /\ file'[ManifestDir].has = {}
  BY <1>1, FileFacts, PathFacts, ProjectTypeFacts
<1>3. /\ cmd' \in ConfigCommand /\ SameJob(cmd') /\ cmd'.at = "failed" /\ cmd'.n = cmd.n /\ cmd'.baks = cmd.baks
      /\ cmd'.written = cmd.written /\ cmd'.restored = cmd.restored
  BY <1>1, GoFacts, ProjectTypeFacts DEF Places, Rest
<1>4. PlaceOf(cmd')
  BY <1>1, <1>3 DEF PlaceOf, SameJob, ProjectInv
<1>5. ProjectTypes' /\ PlanFits(cmd)' /\ PlaceOf(cmd)'
  BY <1>1, <1>2, <1>3, <1>4, StepTypes, ProjectTypeFacts, PlanFacts
<1>6. NotBegun' /\ StepsDone' /\ NodeFits' /\ BaksFit' /\ RollingBack'
  BY <1>3 DEF NotBegun, StepsDone, Stepping, NodeFits, BaksFit, RollingBack
<1>7. ASSUME cmd.restored, NEW p \in Path, cmd.before[p].is = "whole"
      PROVE  file'[p] \in {cmd.before[p], Normal(cmd.before[p])} \/ (cmd.force /\ p \notin Updated)
  <2>1. Spared(p) \/ Same(file[p], p)
    <3>1. DOMAIN cmd.baks = {}
      BY <1>1
    <3>. QED
      BY <1>1, <1>7, <3>1 DEF RollingBack
  <2>2. CASE p \in cmd.written
    BY <1>1, <1>7, <2>2, PlanFacts, SameFacts
  <2>3. CASE p \notin cmd.written
    BY <1>1, <1>7, <2>1, <2>3 DEF Spared, Same
  <2>. QED
    BY <2>2, <2>3
<1>8. ProjectSound'
  BY <1>3, <1>7 DEF ProjectSound, AllOrNothing, KilledKeepsContent, SameJob
<1>. QED
  BY <1>5, <1>6, <1>8 DEF ProjectInv

\* The steps of an init.
LEMMA ScaffoldSafe ==
  ProjectInv /\ (SkipExisting \/ OpenFile \/ FillFile \/ FillFileFails) => ProjectInv'
<1>. SUFFICES ASSUME ProjectInv, SkipExisting \/ OpenFile \/ FillFile \/ FillFileFails PROVE ProjectInv'
  OBVIOUS
<1>1. /\ cmd.at \in {"scaffold", "fill"} /\ cmd.op = "init" /\ cmd.n \in DOMAIN cmd.plan /\ bak' = bak
      /\ Act.path \in Path
  <2>1. cmd.at \in {"scaffold", "fill"} /\ bak' = bak
    BY DEF SkipExisting, OpenFile, FillFile, FillFileFails, At, KeepFiles
  <2>2. cmd.op = "init" /\ cmd.n \in DOMAIN cmd.plan
    BY <2>1 DEF ProjectInv, PlaceOf
  <2>. QED
    BY <2>1, <2>2, ActFacts
<1>2. PICK a \in Places : a = After
  BY <1>1, AfterFacts
<1>3. ASSUME NEW f \in FileState, f.has = {} \/ Act.path # ManifestDir, file' = [file EXCEPT ![Act.path] = f]
      PROVE  file' \in [Path -> FileState] /\ file'[ManifestDir].has = {}
  BY <1>1, <1>3, PathFacts, ProjectTypeFacts
<1>4. CASE SkipExisting \/ FillFile
  <2>1. cmd' = Following(cmd, After)
    BY <1>4 DEF SkipExisting, FillFile, NextStep, Set
  <2>2. cmd' \in ConfigCommand /\ SameJob(cmd') /\ cmd'.at = After /\ cmd'.n = cmd.n + 1
    BY <1>2, <2>1, FollowingFacts, ProjectTypeFacts
  <2>3. file' \in [Path -> FileState] /\ file'[ManifestDir].has = {}
    <3>1. CASE SkipExisting
      BY <3>1, ProjectTypeFacts DEF SkipExisting, KeepFiles
    <3>2. CASE FillFile
      <4>1. Template(Act.path, cmd.kind) \in SUBSET Content
        BY DEF Template, Content
      <4>2. Act.path = ManifestDir => Template(Act.path, cmd.kind) = {}
        BY PathFacts DEF Template
      <4>3. /\ Whole(Template(Act.path, cmd.kind)) \in FileState
            /\ Whole(Template(Act.path, cmd.kind)).has = Template(Act.path, cmd.kind)
        BY <4>1, FileFacts
      <4>4. file' = [file EXCEPT ![Act.path] = Whole(Template(Act.path, cmd.kind))]
        BY <3>2 DEF FillFile
      <4>. QED
        BY <1>3, <4>2, <4>3, <4>4
    <3>. QED
      BY <1>4, <3>1, <3>2
  <2>. QED
    BY <1>1, <2>2, <2>3, InitAdvanced, ProjectTypeFacts
<1>5. CASE OpenFile \/ FillFileFails
  <2>1. PICK b \in Places : b \in {"fill", "failed"} /\ cmd' = [cmd EXCEPT !.at = b]
    BY <1>5 DEF OpenFile, FillFileFails, Go, Set, Places, Rest
  <2>2. /\ cmd' \in ConfigCommand /\ SameJob(cmd') /\ cmd'.at = b /\ cmd'.n = cmd.n
    BY <2>1, GoFacts, ProjectTypeFacts
  <2>3. PlaceOf(cmd')
    BY <1>1, <2>1, <2>2, ProjectTypeFacts DEF PlaceOf, SameJob
  <2>4. file' \in [Path -> FileState] /\ file'[ManifestDir].has = {}
    <3>1. CASE FillFileFails
      BY <3>1, ProjectTypeFacts DEF FillFileFails, KeepFiles
    <3>2. CASE OpenFile
      BY <1>3, <3>2, FileFacts DEF OpenFile
    <3>. QED
      BY <1>5, <3>1, <3>2
  <2>. QED
    BY <1>1, <2>1, <2>2, <2>3, <2>4, InitStep, ProjectTypeFacts
<1>. QED
  BY <1>4, <1>5

\* A command that is killed leaves what it has done.
LEMMA KilledSafe == ProjectInv /\ Killed => ProjectInv'
<1>. SUFFICES ASSUME ProjectInv, Killed PROVE ProjectInv'
  OBVIOUS
<1>1. /\ cmd.at \in Places \ Rest /\ file' = file /\ bak' = bak /\ cmd' = [cmd EXCEPT !.at = "killed"]
  BY ProjectTypeFacts DEF Killed, Active, Go, Set, KeepFiles
<1>2. /\ cmd' \in ConfigCommand /\ SameJob(cmd') /\ cmd'.at = "killed" /\ cmd'.n = cmd.n /\ cmd'.baks = cmd.baks
      /\ cmd'.written = cmd.written /\ cmd'.restored = cmd.restored
  BY <1>1, GoFacts, ProjectTypeFacts DEF Places, Rest
<1>3. PlaceOf(cmd')
  BY <1>2 DEF PlaceOf, SameJob, ProjectInv
<1>4. cmd.op # "none"
  BY <1>1 DEF ProjectInv, PlanFits, Rest
<1>5. ProjectTypes' /\ PlanFits(cmd)' /\ PlaceOf(cmd)'
  BY <1>1, <1>2, <1>3, <1>4, StepTypes, ProjectTypeFacts DEF ProjectInv, PlanFits
<1>6. NotBegun' /\ StepsDone' /\ NodeFits' /\ BaksFit' /\ RollingBack'
  BY <1>2 DEF NotBegun, StepsDone, Stepping, NodeFits, BaksFit, RollingBack
<1>7. ASSUME cmd.restored, Edits(cmd), NEW p \in Path, cmd.before[p].is = "whole"
      PROVE  \/ file[p] \in {cmd.before[p], Normal(cmd.before[p]), Target(p)}
             \/ bak[p] \in {cmd.before[p], Normal(cmd.before[p])}
             \/ cmd.force /\ p \notin Updated
  <2>1. cmd.at \in {"prompt", "normalize", "snapshot", "bak", "apply", "temp", "rename", "cleanup",
                    "restore", "rewrite", "unlink"}
    BY <1>1, <1>7 DEF Places, ProjectInv, PlaceOf, Edits
  <2>2. PlaceOf(cmd) /\ NotBegun /\ StepsDone /\ RollingBack
    BY DEF ProjectInv
  <2>3. CASE cmd.at \in {"prompt", "normalize"} \/ (cmd.at \in {"temp", "rename"} /\ cmd.n = 0)
    BY <2>2, <2>3 DEF NotBegun
  <2>4. CASE Stepping /\ cmd.n >= 1
    <3>1. InPlace(file[p], p, cmd.n)
      BY <2>2, <2>4 DEF StepsDone
    <3>. QED
      BY <1>7, <3>1, PartInPlace
  <2>5. CASE cmd.at \in {"restore", "rewrite", "unlink"}
    BY <1>7, <2>2, <2>5 DEF RollingBack, Spared, Same
  <2>6. Stepping => cmd.n >= 1 \/ (cmd.at \in {"temp", "rename"} /\ cmd.n = 0)
    BY <2>2, ProjectTypeFacts DEF PlaceOf, Stepping
  <2>. QED
    BY <2>1, <2>3, <2>4, <2>5, <2>6 DEF Stepping
<1>8. \A p : Target(p)' = Target(p)
  BY <1>2, JobKept
<1>9. ProjectSound'
  BY <1>1, <1>2, <1>7, <1>8 DEF ProjectSound, AllOrNothing, KilledKeepsContent, SameJob, Edits
<1>. QED
  BY <1>5, <1>6, <1>9 DEF ProjectInv

\* A command that begins, with its plan.
LEMMA StartedSafe ==
  ASSUME ProjectInv, NEW r, Started(r),
         NEW op \in {"init", "add", "remove"}, NEW id \in Asked \cup {"none"}, NEW k \in Kind, NEW force \in BOOLEAN,
         NEW plan \in Seq(PlanStep), r = Asking(op, id, k, force, plan),
         Len(plan) >= 1,
         op # "init" =>
           /\ id \in Id
           /\ \A i, j \in DOMAIN plan : plan[i].path = plan[j].path => i = j
           /\ \A i \in DOMAIN plan : plan[i].path # ManifestDir /\ (plan[i].do = "update" <=> plan[i].path \in Updated),
         op = "add" =>
           /\ \E i \in DOMAIN plan : plan[i].path = FractaYAML
           /\ k = "k8s" => plan[1].do = "write" /\ Len(plan) >= 2
           /\ \A i \in DOMAIN plan : /\ plan[i].do \in {"update", "write"}
                                     /\ plan[i].do = "write" => k = "k8s" /\ (force \/ ~Exists(file[plan[i].path])),
         op = "remove" =>
           \A i \in DOMAIN plan : /\ plan[i].do \in {"update", "delete"}
                                  /\ plan[i].do = "update" => Exists(file[plan[i].path])
  PROVE  ProjectInv'
<1>1. file' = file /\ bak' = bak /\ cmd' = [r EXCEPT !.before = file]
  BY DEF Started, Set, KeepFiles
<1>2. /\ cmd' = [at |-> "prompt", op |-> op, id |-> id, kind |-> k, force |-> force, plan |-> plan, n |-> 0,
                 baks |-> <<>>, written |-> {}, node |-> Absent, before |-> file, restored |-> TRUE]
  BY <1>1 DEF Asking, NoCommand
<1>3. ProjectTypes'
  <2>1. <<>> \in Seq(Updated) /\ Absent \in FileState
    BY FileFacts
  <2>2. file \in [Path -> FileState]
    BY ProjectTypeFacts
  <2>3. cmd' \in ConfigCommand
    BY <1>2, <2>1, <2>2 DEF ConfigCommand
  <2>. QED
    BY <1>1, <2>3, ProjectTypeFacts DEF ProjectTypes
<1>4. /\ cmd'.at = "prompt" /\ cmd'.op = op /\ cmd'.id = id /\ cmd'.kind = k /\ cmd'.force = force /\ cmd'.plan = plan
      /\ cmd'.n = 0 /\ cmd'.baks = <<>> /\ cmd'.written = {} /\ cmd'.before = file
  BY <1>2
<1>5. PlanFits(cmd)'
  BY <1>1, <1>4, ProjectTypeFacts DEF PlanFits, Edits
<1>6. PlaceOf(cmd)'
  BY <1>4 DEF PlaceOf, Edits
<1>7. NotBegun' /\ StepsDone' /\ NodeFits' /\ BaksFit' /\ RollingBack' /\ ProjectSound'
  BY <1>1, <1>4 DEF NotBegun, StepsDone, Stepping, NodeFits, BaksFit, RollingBack, ProjectSound, AllOrNothing, KilledKeepsContent
<1>. QED
  BY <1>3, <1>5, <1>6, <1>7 DEF ProjectInv

\* A part of a plan: a step, or none.
LEMMA PartOfPlan ==
  ASSUME NEW a \in PlanStep, NEW x \in {<<>>, <<a>>}
  PROVE  /\ x \in Seq(PlanStep)
         /\ (x = <<>> /\ Len(x) = 0) \/ (x # <<>> /\ Len(x) = 1 /\ x[1] = a)
<1>1. CASE x = <<>>
  BY <1>1
<1>2. CASE x = <<a>>
  <2>1. <<a>> \in Seq(PlanStep) /\ Len(<<a>>) = 1 /\ <<a>>[1] = a
    OBVIOUS
  <2>. QED
    BY <1>2, <2>1
<1>. QED
  BY <1>1, <1>2

\* What the plan made of the parts x, y and z, for the steps a, b and c, is.
IsJoined(plan, a, b, c, x, y, z) ==
    /\ plan \in Seq(PlanStep)
    /\ \A i, j \in DOMAIN plan : plan[i].path = plan[j].path => i = j
    /\ \A i \in DOMAIN plan : \/ plan[i] = a /\ x # <<>>
                              \/ plan[i] = b /\ y # <<>>
                              \/ plan[i] = c /\ z # <<>>
    /\ x # <<>> => plan[1] = a
    /\ x # <<>> /\ z # <<>> => Len(plan) >= 2
    /\ z # <<>> => \E i \in DOMAIN plan : plan[i] = c
    /\ y # <<>> => \E i \in DOMAIN plan : plan[i] = b
    /\ plan # <<>> => Len(plan) >= 1

\* The concatenation that makes a plan.
LEMMA JoinThree ==
  ASSUME NEW a \in PlanStep, NEW b \in PlanStep, NEW c \in PlanStep,
         NEW x \in {<<>>, <<a>>}, NEW y \in {<<>>, <<b>>}, NEW z \in {<<>>, <<c>>},
         a.path # b.path, a.path # c.path, b.path # c.path,
         NEW plan, plan = (x \o y) \o z
  PROVE  IsJoined(plan, a, b, c, x, y, z)
<1>1. /\ x \in Seq(PlanStep) /\ y \in Seq(PlanStep) /\ z \in Seq(PlanStep)
      /\ (x = <<>> /\ Len(x) = 0) \/ (x # <<>> /\ Len(x) = 1 /\ x[1] = a)
      /\ (y = <<>> /\ Len(y) = 0) \/ (y # <<>> /\ Len(y) = 1 /\ y[1] = b)
      /\ (z = <<>> /\ Len(z) = 0) \/ (z # <<>> /\ Len(z) = 1 /\ z[1] = c)
  BY PartOfPlan
<1>2. PICK w \in Seq(PlanStep) :
        /\ w = x \o y /\ Len(w) = Len(x) + Len(y)
        /\ \A i \in 1 .. Len(x) + Len(y) : w[i] = IF i <= Len(x) THEN x[i] ELSE y[i - Len(x)]
  <2>1. /\ x \o y \in Seq(PlanStep) /\ Len(x \o y) = Len(x) + Len(y)
        /\ \A i \in 1 .. Len(x) + Len(y) : (x \o y)[i] = IF i <= Len(x) THEN x[i] ELSE y[i - Len(x)]
    <3>1. x \in Seq(PlanStep) /\ y \in Seq(PlanStep)
      BY <1>1
    <3>. QED
      BY <3>1, ConcatProperties
  <2>. QED
    BY <2>1
<1>3. /\ plan \in Seq(PlanStep) /\ Len(plan) = Len(w) + Len(z)
      /\ \A i \in 1 .. Len(w) + Len(z) : plan[i] = IF i <= Len(w) THEN w[i] ELSE z[i - Len(w)]
  BY <1>1, <1>2, ConcatProperties
<1>4. DOMAIN plan = 1 .. Len(x) + Len(y) + Len(z) /\ Len(plan) = Len(x) + Len(y) + Len(z)
  BY <1>1, <1>2, <1>3
<1>5. \A i \in DOMAIN plan : plan[i] = IF i <= Len(x) THEN a ELSE IF i <= Len(x) + Len(y) THEN b ELSE c
  <2>. TAKE i \in DOMAIN plan
  <2>1. CASE i <= Len(x)
    <3>1. i = 1 /\ Len(x) = 1 /\ i <= Len(w)
      BY <1>1, <1>2, <1>4, <2>1
    <3>. QED
      BY <1>1, <1>2, <1>3, <1>4, <2>1, <3>1
  <2>2. CASE ~(i <= Len(x)) /\ i <= Len(x) + Len(y)
    <3>1. i - Len(x) = 1 /\ Len(y) = 1 /\ i <= Len(w)
      BY <1>1, <1>2, <1>4, <2>2
    <3>. QED
      BY <1>1, <1>2, <1>3, <1>4, <2>2, <3>1
  <2>3. CASE ~(i <= Len(x)) /\ ~(i <= Len(x) + Len(y))
    <3>1. i - Len(w) = 1 /\ Len(z) = 1 /\ ~(i <= Len(w))
      BY <1>1, <1>2, <1>4, <2>3
    <3>. QED
      BY <1>1, <1>2, <1>3, <1>4, <2>3, <3>1
  <2>. QED
    BY <2>1, <2>2, <2>3
<1>6. \A i, j \in DOMAIN plan : plan[i].path = plan[j].path => i = j
  <2>1. Len(x) \in {0, 1} /\ Len(y) \in {0, 1} /\ Len(z) \in {0, 1}
    BY <1>1
  <2>2. \A i \in DOMAIN plan : IF i <= Len(x) THEN plan[i] = a /\ i = 1
                                ELSE IF i <= Len(x) + Len(y) THEN plan[i] = b /\ i = Len(x) + 1
                                ELSE plan[i] = c /\ i = Len(x) + Len(y) + 1
    BY <1>4, <1>5, <2>1
  <2>. SUFFICES ASSUME NEW i \in DOMAIN plan, NEW j \in DOMAIN plan, plan[i].path = plan[j].path PROVE i = j
    OBVIOUS
  <2>. QED
    BY <1>4, <2>1, <2>2
<1>7. \A i \in DOMAIN plan : \/ plan[i] = a /\ x # <<>>
                             \/ plan[i] = b /\ y # <<>>
                             \/ plan[i] = c /\ z # <<>>
  BY <1>1, <1>4, <1>5
<1>8. x # <<>> => plan[1] = a
  BY <1>1, <1>4, <1>5
<1>9. z # <<>> => \E i \in DOMAIN plan : plan[i] = c
  <2>1. z # <<>> => Len(plan) \in DOMAIN plan /\ plan[Len(plan)] = c
    BY <1>1, <1>4, <1>5
  <2>. QED
    BY <2>1
<1>10. y # <<>> => \E i \in DOMAIN plan : plan[i] = b
  <2>1. y # <<>> => Len(x) + Len(y) \in DOMAIN plan /\ plan[Len(x) + Len(y)] = b
    BY <1>1, <1>4, <1>5
  <2>. QED
    BY <2>1
<1>11. x # <<>> /\ z # <<>> => Len(plan) >= 2
  BY <1>1, <1>4
<1>12. plan # <<>> => Len(plan) >= 1
  BY <1>3, EmptySeq, LenProperties
<1>. QED
  BY <1>3, <1>6, <1>7, <1>8, <1>9, <1>10, <1>11, <1>12 DEF IsJoined

\* An add begins: its plan edits fracta.yaml, and a file of its own kind.
LEMMA AddStartedSafe ==
  ASSUME ProjectInv, NEW id \in Asked, NEW k \in Kind, NEW force \in BOOLEAN, NEW standalone \in BOOLEAN,
         RunConfigMcpAdd(id, k, force, standalone)
  PROVE  ProjectInv'
<1>. DEFINE plan == PlanAdd(id, k, standalone)
            F == Task("update", FractaYAML)
            C == Task("update", ComposeFile)
            E == Task("update", EnvExample)
            M == Task("write", Manifest(id))
            S == Task("write", Secret(id))
<1>1. Started(Asking("add", id, k, force, plan))
  BY DEF RunConfigMcpAdd
<1>2. force \/ \A i \in DOMAIN plan : plan[i].do = "write" => ~Exists(file[plan[i].path])
  BY DEF RunConfigMcpAdd
<1>3. id \in Id
  BY ProjectAssumption
<1>4. /\ F \in PlanStep /\ C \in PlanStep /\ E \in PlanStep /\ M \in PlanStep /\ S \in PlanStep
      /\ F.do = "update" /\ C.do = "update" /\ E.do = "update" /\ M.do = "write" /\ S.do = "write"
      /\ F.path = FractaYAML /\ C.path = ComposeFile /\ E.path = EnvExample
      /\ M.path = Manifest(id) /\ S.path = Secret(id)
  BY <1>3, PathFacts DEF Task, PlanStep
<1>5. /\ F.path \in Updated /\ C.path \in Updated /\ E.path \in Updated /\ M.path \notin Updated /\ S.path \notin Updated
      /\ F.path # C.path /\ F.path # E.path /\ C.path # E.path
      /\ M.path # S.path /\ M.path # F.path /\ S.path # F.path
      /\ ManifestDir \notin {F.path, C.path, E.path, M.path, S.path}
  BY <1>3, <1>4, PathFacts
<1>6. /\ plan \in Seq(PlanStep) /\ Len(plan) >= 1
      /\ \A i, j \in DOMAIN plan : plan[i].path = plan[j].path => i = j
      /\ \E i \in DOMAIN plan : plan[i] = F
      /\ \A i \in DOMAIN plan : plan[i] \in {F, C, E} \/ (k = "k8s" /\ plan[i] \in {M, S})
      /\ k = "k8s" => plan[1] = M /\ Len(plan) >= 2
  <2>1. CASE k = "local"
    <3>1. plan = <<F>>
      BY <2>1 DEF PlanAdd
    <3>2. <<F>> \in Seq(PlanStep) /\ Len(<<F>>) = 1 /\ <<F>>[1] = F /\ DOMAIN <<F>> = {1}
      BY <1>4
    <3>. HIDE DEF plan, F
    <3>. QED
      BY <2>1, <3>1, <3>2
  <2>2. CASE k = "docker-compose"
    <3>. DEFINE z == When(id \in NeedsEnv /\ ~standalone, <<E>>)
    <3>1. plan = <<C, F>> \o z
      BY <2>2 DEF PlanAdd
    <3>2. <<C, F>> = <<C>> \o <<F>>
      OBVIOUS
    <3>3. z \in {<<>>, <<E>>} /\ <<C>> # <<>> /\ <<F>> # <<>>
      BY DEF When
    <3>4. plan = (<<C>> \o <<F>>) \o z
      BY <3>1, <3>2
    <3>. HIDE DEF plan, F, C, E, z
    <3>10. IsJoined(plan, C, F, E, <<C>>, <<F>>, z)
      BY <1>4, <1>5, <3>3, <3>4, JoinThree
    <3>. QED
      BY <2>2, <3>3, <3>10 DEF IsJoined
  <2>3. CASE k = "k8s"
    <3>. DEFINE y == When(id \in NeedsEnv, <<S>>)
    <3>1. plan = (<<M>> \o y) \o <<F>>
      BY <2>3 DEF PlanAdd
    <3>2. y \in {<<>>, <<S>>} /\ <<M>> # <<>> /\ <<F>> # <<>>
      BY DEF When
    <3>. HIDE DEF plan, F, M, S, y
    <3>10. IsJoined(plan, M, S, F, <<M>>, y, <<F>>)
      BY <1>4, <1>5, <3>1, <3>2, JoinThree
    <3>. QED
      BY <2>3, <3>2, <3>10 DEF IsJoined
  <2>. QED
    BY <2>1, <2>2, <2>3 DEF Kind
<1>. HIDE DEF plan, F, C, E, M, S
<1>7. \A i \in DOMAIN plan : /\ plan[i].path # ManifestDir /\ (plan[i].do = "update" <=> plan[i].path \in Updated)
                             /\ plan[i].do \in {"update", "write"}
                             /\ plan[i].do = "write" => k = "k8s"
  BY <1>4, <1>5, <1>6
<1>8. \E i \in DOMAIN plan : plan[i].path = FractaYAML
  BY <1>4, <1>6
<1>9. k = "k8s" => plan[1].do = "write" /\ Len(plan) >= 2
  BY <1>4, <1>6
<1>. QED
  BY <1>1, <1>2, <1>3, <1>6, <1>7, <1>8, <1>9, StartedSafe

\* A remove begins: it edits files that are there, and deletes manifests.
LEMMA RemoveStartedSafe ==
  ASSUME ProjectInv, NEW id \in Asked, NEW k \in Kind, NEW keepConfig \in BOOLEAN,
         RunConfigMcpRemove(id, k, keepConfig)
  PROVE  ProjectInv'
<1>. DEFINE plan == PlanRemove(id, k, keepConfig)
            F == Task("update", FractaYAML)
            C == Task("update", ComposeFile)
            M == Task("delete", Manifest(id))
            S == Task("delete", Secret(id))
            z == When(~keepConfig, <<F>>)
<1>1. plan # <<>> /\ Started(Asking("remove", id, k, FALSE, plan))
  BY DEF RunConfigMcpRemove
<1>2. id \in Id
  BY ProjectAssumption
<1>3. /\ F \in PlanStep /\ C \in PlanStep /\ M \in PlanStep /\ S \in PlanStep
      /\ F.do = "update" /\ C.do = "update" /\ M.do = "delete" /\ S.do = "delete"
      /\ F.path = FractaYAML /\ C.path = ComposeFile /\ M.path = Manifest(id) /\ S.path = Secret(id)
  BY <1>2, PathFacts DEF Task, PlanStep
<1>4. /\ F.path \in Updated /\ C.path \in Updated /\ M.path \notin Updated /\ S.path \notin Updated
      /\ F.path # C.path /\ M.path # S.path /\ M.path # F.path /\ S.path # F.path
      /\ ManifestDir \notin {F.path, C.path, M.path, S.path}
  BY <1>2, <1>3, PathFacts
<1>5. Configured(id, k)
  BY <1>1 DEF PlanRemove
<1>6. Exists(file[FractaYAML])
  BY <1>5 DEF Configured
<1>7. z \in {<<>>, <<F>>}
  BY DEF When
<1>8. /\ plan \in Seq(PlanStep) /\ Len(plan) >= 1
      /\ \A i, j \in DOMAIN plan : plan[i].path = plan[j].path => i = j
      /\ \A i \in DOMAIN plan : plan[i] \in {F, M, S} \/ (plan[i] = C /\ Exists(file[ComposeFile]))
  <2>1. CASE k = "local"
    <3>1. plan = <<>> \o z
      BY <1>5, <2>1 DEF PlanRemove
    <3>2. <<>> = <<>> \o <<>>
      BY EmptySeq, ConcatEmptySeq
    <3>3. plan = (<<>> \o <<>>) \o z
      BY <3>1, <3>2
    <3>. HIDE DEF plan, F, C, M, S, z
    <3>10. IsJoined(plan, C, M, F, <<>>, <<>>, z)
      BY <1>3, <1>4, <1>7, <3>3, JoinThree
    <3>. QED
      BY <1>1, <3>10 DEF IsJoined
  <2>2. CASE k = "docker-compose"
    <3>. DEFINE y == When(Exists(file[ComposeFile]), <<C>>)
    <3>1. plan = y \o z
      BY <1>5, <2>2 DEF PlanRemove
    <3>2. y \in {<<>>, <<C>>} /\ (y # <<>> => Exists(file[ComposeFile]))
      BY DEF When
    <3>3. y = <<>> \o y
      <4>1. y \in Seq(PlanStep)
        BY <1>3, <3>2, PartOfPlan
      <4>. QED
        BY <4>1, ConcatEmptySeq
    <3>4. plan = (<<>> \o y) \o z
      BY <3>1, <3>3
    <3>. HIDE DEF plan, F, C, M, S, y, z
    <3>10. IsJoined(plan, M, C, F, <<>>, y, z)
      BY <1>3, <1>4, <1>7, <3>2, <3>4, JoinThree
    <3>. QED
      BY <1>1, <3>2, <3>10 DEF IsJoined
  <2>3. CASE k = "k8s"
    <3>. DEFINE x == When(Exists(file[Manifest(id)]), <<M>>)
                y == When(Exists(file[Secret(id)]), <<S>>)
    <3>1. plan = (x \o y) \o z
      BY <1>5, <2>3 DEF PlanRemove
    <3>2. x \in {<<>>, <<M>>} /\ y \in {<<>>, <<S>>}
      BY DEF When
    <3>. HIDE DEF plan, F, C, M, S, x, y, z
    <3>3. /\ M \in PlanStep /\ S \in PlanStep /\ F \in PlanStep
          /\ M.path # S.path /\ M.path # F.path /\ S.path # F.path
      BY <1>3, <1>4
    <3>10. IsJoined(plan, M, S, F, x, y, z)
      BY <1>7, <3>1, <3>2, <3>3, JoinThree
    <3>. QED
      BY <1>1, <3>10 DEF IsJoined
  <2>. QED
    BY <2>1, <2>2, <2>3 DEF Kind
<1>. HIDE DEF plan, F, C, M, S, z
<1>9. \A i \in DOMAIN plan : /\ plan[i].path # ManifestDir /\ (plan[i].do = "update" <=> plan[i].path \in Updated)
                             /\ plan[i].do \in {"update", "delete"}
                             /\ plan[i].do = "update" => Exists(file[plan[i].path])
  BY <1>3, <1>4, <1>6, <1>8
<1>. QED
  BY <1>1, <1>2, <1>8, <1>9, StartedSafe

\* An init begins.
LEMMA InitStartedSafe ==
  ASSUME ProjectInv, NEW k \in Kind, NEW force \in BOOLEAN, RunInit(k, force)
  PROVE  ProjectInv'
<1>. DEFINE F == Task("scaffold", FractaYAML)
            C == Task("scaffold", ComposeFile)
            D == Task("scaffold", ManifestDir)
<1>1. Started(Asking("init", "none", k, force, PlanInit(k)))
  BY DEF RunInit
<1>2. F \in PlanStep /\ C \in PlanStep /\ D \in PlanStep
  BY PathFacts DEF Task, PlanStep
<1>3. PlanInit(k) \in {<<F>>, <<C, F>>, <<D, F>>}
  BY DEF PlanInit, Kind
<1>. HIDE DEF F, C, D
<1>4. PlanInit(k) \in Seq(PlanStep) /\ Len(PlanInit(k)) >= 1
  <2>1. <<F>> \in Seq(PlanStep) /\ Len(<<F>>) = 1
    BY <1>2
  <2>2. <<C, F>> \in Seq(PlanStep) /\ Len(<<C, F>>) = 2
    BY <1>2
  <2>3. <<D, F>> \in Seq(PlanStep) /\ Len(<<D, F>>) = 2
    BY <1>2
  <2>4. CASE PlanInit(k) = <<F>>
    BY <2>1, <2>4
  <2>5. CASE PlanInit(k) = <<C, F>>
    BY <2>2, <2>5
  <2>6. CASE PlanInit(k) = <<D, F>>
    BY <2>3, <2>6
  <2>. QED
    BY <1>3, <2>4, <2>5, <2>6
<1>. QED
  BY <1>1, <1>4, StartedSafe, ZenonT(60)

\* A project as the commands find it first.
LEMMA ProjectStarts == ProjectInit => ProjectInv
<1>. SUFFICES ASSUME ProjectInit PROVE ProjectInv
  OBVIOUS
<1>1. cmd = NoCommand /\ bak = [p \in Path |-> Absent]
  BY DEF ProjectInit
<1>2. file \in [Path -> FileState] /\ file[ManifestDir].has = {}
  <2>1. CASE file = [p \in Path |-> Absent]
    BY <2>1, FileFacts, PathFacts
  <2>2. ASSUME NEW k \in Kind, file = ProjectOf(k, Deployed)
        PROVE  file \in [Path -> FileState] /\ file[ManifestDir].has = {}
    <3>. DEFINE Y == {<<"drift", "plain">>, <<"backend", IF k = "k8s" THEN "kubernetes" ELSE "local">>}
                       \cup {<<id, IF k = "local" THEN k ELSE "remote", k>> : id \in Deployed}
                V == {<<id, "service">> : id \in Deployed}
                W == {<<id, "var">> : id \in Deployed}
    <3>1. Y \in SUBSET Content /\ V \in SUBSET Content /\ W \in SUBSET Content
      BY ProjectAssumption DEF Content, ServerEntry, ModeKey, Kind
    <3>2. Whole(Y) \in FileState /\ Whole(V) \in FileState /\ Whole(W) \in FileState /\ Whole({}) \in FileState
      BY <3>1, FileFacts
    <3>3. \A id : Manifest(id)[2] = id
      BY DEF Manifest
    <3>4. \A id \in Deployed : Whole({<<id, "edited">>}) \in FileState
      <4>1. \A id \in Deployed : {<<id, "edited">>} \in SUBSET Content
        BY ProjectAssumption DEF Content
      <4>. QED
        BY <4>1, FileFacts
    <3>5. ASSUME NEW p \in Path PROVE file[p] \in FileState
      <4>1. CASE k = "k8s" /\ \E id \in Deployed : p = Manifest(id)
        <5>1. PICK id \in Deployed : p = Manifest(id)
          BY <4>1
        <5>2. p \notin Updated /\ p # ManifestDir
          BY <5>1, PathFacts, ProjectAssumption
        <5>3. p[2] = id
          BY <5>1, <3>3
        <5>4. file[p] = Whole({<<p[2], "edited">>})
          BY <2>2, <4>1, <5>2, PathFacts DEF ProjectOf
        <5>. QED
          BY <3>4, <5>3, <5>4
      <4>2. CASE ~(k = "k8s" /\ \E id \in Deployed : p = Manifest(id))
        <5>1. CASE p = FractaYAML
          <6>1. file[p] = Whole(Y)
            BY <2>2, <4>2, <5>1, PathFacts DEF ProjectOf
          <6>. QED
            BY <3>2, <6>1
        <5>2. CASE p = ComposeFile
          <6>1. file[p] \in {Whole(V), Absent}
            BY <2>2, <4>2, <5>2, PathFacts DEF ProjectOf
          <6>. QED
            BY <3>2, <6>1, FileFacts
        <5>3. CASE p = EnvExample
          <6>1. file[p] \in {Whole(W), Absent}
            BY <2>2, <4>2, <5>3, PathFacts DEF ProjectOf
          <6>. QED
            BY <3>2, <6>1, FileFacts
        <5>4. CASE p \notin Updated
          <6>1. file[p] \in {Whole({}), Absent}
            BY <2>2, <4>2, <5>4, PathFacts DEF ProjectOf
          <6>. QED
            BY <3>2, <6>1, FileFacts
        <5>. QED
          BY <5>1, <5>2, <5>3, <5>4 DEF Updated
      <4>. QED
        BY <4>1, <4>2
    <3>6. file[ManifestDir].has = {}
      <4>1. \A id \in Deployed : ManifestDir # Manifest(id)
        BY PathFacts, ProjectAssumption
      <4>2. file[ManifestDir] \in {Whole({}), Absent}
        BY <2>2, <4>1, PathFacts DEF ProjectOf
      <4>3. {} \in SUBSET Content
        OBVIOUS
      <4>. QED
        BY <4>2, <4>3, FileFacts
    <3>7. file = [p \in Path |-> file[p]]
      BY <2>2 DEF ProjectOf
    <3>. QED
      BY <3>5, <3>6, <3>7
  <2>. QED
    BY <2>1, <2>2 DEF ProjectInit
<1>3. NoCommand \in ConfigCommand
  <2>1. <<>> \in Seq(Updated) /\ <<>> \in Seq(PlanStep) /\ Absent \in FileState
    BY FileFacts
  <2>. QED
    BY <2>1 DEF NoCommand, ConfigCommand, Rest, Kind
<1>4. cmd.at = "idle" /\ cmd.op = "none" /\ cmd.n = 0 /\ cmd.baks = <<>> /\ cmd.written = {}
  BY <1>1 DEF NoCommand
<1>5. bak \in [Path -> FileState]
  BY <1>1, FileFacts
<1>. QED
  BY <1>1, <1>2, <1>3, <1>4, <1>5 DEF ProjectInv, ProjectTypes, PlanFits, PlaceOf, Edits, NotBegun, StepsDone, Stepping,
     NodeFits, BaksFit, RollingBack, ProjectSound, AllOrNothing, KilledKeepsContent

\* Every step keeps the invariant.
LEMMA ProjectStep == ProjectInv /\ [ProjectNext]_projectVars => ProjectInv'
<1>. SUFFICES ASSUME ProjectInv, [ProjectNext]_projectVars PROVE ProjectInv'
  OBVIOUS
<1>1. CASE UNCHANGED projectVars
  <2>1. file' = file /\ bak' = bak /\ cmd' = cmd
    BY <1>1 DEF projectVars
  <2>2. ProjectTypes' /\ PlanFits(cmd)' /\ PlaceOf(cmd)'
    BY <2>1 DEF ProjectInv, ProjectTypes
  <2>3. /\ \A p : Target(p)' = Target(p) /\ Found(p)' = Found(p) /\ (Saved(p)' <=> Saved(p)) /\ (Spared(p)' <=> Spared(p))
        /\ \A p, m : SteppedBy(p, m)' <=> SteppedBy(p, m)
        /\ \A f, p : (AsFound(f, p)' <=> AsFound(f, p)) /\ (Same(f, p)' <=> Same(f, p))
    BY <2>1 DEF Target, Planned, Found, Saved, SteppedBy, Spared, AsFound, Same
  <2>4. \A f, p, m : InPlace(f, p, m)' <=> InPlace(f, p, m)
    BY <2>1, <2>3 DEF InPlace
  <2>5. NotBegun' /\ StepsDone' /\ NodeFits' /\ BaksFit' /\ RollingBack'
    BY <2>1, <2>3, <2>4 DEF ProjectInv, NotBegun, StepsDone, Stepping, NodeFits, BaksFit, RollingBack
  <2>6. ProjectSound'
    BY <2>1, <2>3 DEF ProjectInv, ProjectSound, AllOrNothing, KilledKeepsContent
  <2>. QED
    BY <2>2, <2>5, <2>6 DEF ProjectInv
<1>2. CASE \E id \in Asked, k \in Kind, b1, b2 \in BOOLEAN : RunConfigMcpAdd(id, k, b1, b2)
  BY <1>2, AddStartedSafe
<1>3. CASE \E id \in Asked, k \in Kind, b \in BOOLEAN : RunConfigMcpRemove(id, k, b)
  BY <1>3, RemoveStartedSafe
<1>4. CASE \E k \in Kind, b \in BOOLEAN : RunInit(k, b)
  BY <1>4, InitStartedSafe
<1>5. CASE PromptYes \/ PromptNo
  BY <1>5, PromptYesSafe, PromptNoSafe
<1>6. CASE WriteTemp \/ WriteTempFails \/ Rename \/ RenameFails
  BY <1>6, WriteTempSafe, WriteFailsSafe, RenameSafe
<1>7. CASE Normalize \/ Snapshot \/ WriteBak \/ WriteBakFails
  BY <1>7, NormalizeSafe, SnapshotSafe, WriteBakSafe, WriteBakFailsSafe
<1>8. CASE Apply \/ DeleteFile \/ DeleteFileFails \/ CleanupBaks
  BY <1>8, ApplySafe, DeleteFileSafe, DeleteFileFailsSafe, CleanupBaksSafe
<1>9. CASE Restore \/ Rewrite \/ RewriteFails \/ RemoveBak \/ DeleteWritten
  BY <1>9, RestoreSafe, RewriteSafe, RewriteFailsSafe, RemoveBakSafe, DeleteWrittenSafe
<1>10. CASE SkipExisting \/ OpenFile \/ FillFile \/ FillFileFails
  BY <1>10, ScaffoldSafe
<1>11. CASE Killed
  BY <1>11, KilledSafe
<1>. QED
  BY <1>1, <1>2, <1>3, <1>4, <1>5, <1>6, <1>7, <1>8, <1>9, <1>10, <1>11 DEF ProjectNext

\* The inductive invariant of the commands on the project's files: what each
\* step of an add and a remove has done so far, and what its rollback has yet
\* to undo.
THEOREM ProjectInvariant == ProjectSpec => []ProjectInv
<1>. QED
  BY ProjectStarts, ProjectStep, PTL DEF ProjectSpec

\* A "config mcp add" or "config mcp remove" that succeeds made its whole
\* change and no other, an add that failed left what it found, and one that
\* was killed left every file readable or its content in a .bak, for every
\* catalog, project and number of commands, faults and kills.
THEOREM ProjectIsSound == ProjectSpec => []ProjectSound
<1>1. ProjectInv => ProjectSound
  BY DEF ProjectInv
<1>. QED
  BY <1>1, ProjectInvariant, PTL
=============================================================================
