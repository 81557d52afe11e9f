---------------------------- MODULE CatalogFetch ----------------------------
(***************************************************************************)
(* "fracta config mcp fetch" (cmd/config_mcp_fetch.go, internal/mcpcatalog)*)
(* replaces the catalog of MCP servers kept in mcp-servers/ by the one of  *)
(* a source, or merges the two.  The new tree is built in .staging/ and    *)
(* promoted one top-level entry at a time.  A file operation may fail and  *)
(* the process may be killed between two of them; commands run one after   *)
(* the other.  A tree is [index, dir]: the ids catalog.yaml lists, if the  *)
(* file exists, and for each id whose directory it is.                     *)
(***************************************************************************)
EXTENDS Naturals, FiniteSets

CONSTANTS
    Entry,            \* ids of servers
    Source, Offers,   \* sources of catalogs, and the ids each offers
    DefaultSource,    \* DefaultFetchSourceSpec
    Filters,          \* for each --filter, the ids it accepts
    MaxFetch, MaxFetchFault     \* bounds: commands, failures and kills

Nobody == "nobody"
Operator == "operator"
NoIndex == {"no catalog.yaml"}

\* The marks of this module are not names of sources and servers.
ASSUME FetchAssumption ==
    /\ DefaultSource \in Source /\ Offers \in [Source -> SUBSET Entry]
    /\ Nobody \notin Source /\ NoIndex \cap Entry = {}
    /\ Filters \subseteq SUBSET Entry
    /\ MaxFetch \in Nat /\ MaxFetchFault \in Nat

VARIABLES
    live, staging,    \* the trees mcp-servers/ and mcp-servers/.staging/
    memo,             \* the source in .fracta-source, if any
    fetch,            \* the command that runs or ran last
    fetches, fetchFaults

fetchVars == <<live, staging, memo, fetch, fetches, fetchFaults>>

Empty == [index |-> NoIndex, dir |-> [e \in Entry |-> Nobody]]
Owner == Source \cup {Operator, Nobody}
Ended == {"none", "done", "failed", "killed"}

NoFetch == [at |-> "none", source |-> DefaultSource, merge |-> FALSE, accepts |-> Entry,
            local |-> {}, loaded |-> FALSE, before |-> Empty, promoting |-> FALSE]

\* No catalog, or one of the default source to which an operator added.
FetchInit ==
    /\ \/ live = Empty
       \/ \E S \in SUBSET (Entry \ Offers[DefaultSource]) :
            live = [index |-> Offers[DefaultSource] \cup S,
                    dir |-> [e \in Entry |-> IF e \in Offers[DefaultSource] THEN DefaultSource
                                            ELSE IF e \in S THEN Operator ELSE Nobody]]
    /\ staging = Empty /\ memo \in {Nobody, DefaultSource}
    /\ fetch = NoFetch /\ fetches = 0 /\ fetchFaults = 0

FetchTypeOK ==
    /\ \A t \in {live, staging} : t.dir \in [Entry -> Owner] /\ (t.index \subseteq Entry \/ t.index = NoIndex)
    /\ memo \in Source \cup {Nobody}
    /\ fetch.at \in Ended \cup {"prompt", "load", "resolve", "stage", "merge", "clear", "promote", "record"}

Do(at) == fetch.at = at
To(at) == fetch' = [fetch EXCEPT !.at = at]
SameTrees == UNCHANGED <<live, staging, memo>>
SameFaults == UNCHANGED <<fetches, fetchFaults>>

(***************************************************************************)
(* Loading and filtering a catalog.                                        *)
(***************************************************************************)

\* LoadCatalog: every listed server has a file.
Loads(t) == t.index # NoIndex /\ \A e \in t.index : t.dir[e] # Nobody
ErrNoCatalog(t) == t.index = NoIndex

ResolveFetchSource(explicit) ==
    IF explicit # Nobody THEN explicit ELSE IF memo # Nobody THEN memo ELSE DefaultSource

IncludeRemote == Offers[fetch.source] \cap fetch.accepts

(***************************************************************************)
(* The steps of a fetch.                                                   *)
(***************************************************************************)

RunConfigMcpFetch(explicit, merge, accepts) ==
    /\ fetch.at \in Ended /\ fetches < MaxFetch /\ fetches' = fetches + 1
    /\ fetch' = [NoFetch EXCEPT !.at = IF Loads(live) THEN "prompt" ELSE "load", !.before = live,
                                !.source = ResolveFetchSource(explicit), !.merge = merge, !.accepts = accepts]
    /\ SameTrees /\ UNCHANGED fetchFaults

Confirm == Do("prompt") /\ To("load") /\ SameTrees /\ SameFaults
Decline == Do("prompt") /\ To("none") /\ SameTrees /\ SameFaults

\* A catalog that does not load ends the command; none at all does not.
LoadLocal ==
    /\ Do("load")
    /\ fetch' = [fetch EXCEPT !.at = IF Loads(live) \/ ErrNoCatalog(live) THEN "resolve" ELSE "failed",
                              !.local = IF Loads(live) THEN live.index ELSE {}, !.loaded = Loads(live)]
    /\ SameTrees /\ SameFaults

\* The source is read and checked; then the staging of a killed command goes.
ResolveCatalogSource ==
    /\ Do("resolve") /\ To("stage")
    /\ staging' = Empty /\ UNCHANGED <<live, memo>> /\ SameFaults

\* catalog.yaml is copied as it is, whatever the filter.
CopyCatalogFS ==
    /\ Do("stage")
    /\ staging' = [index |-> Offers[fetch.source],
                   dir |-> [e \in Entry |-> IF e \in IncludeRemote THEN fetch.source ELSE Nobody]]
    /\ To(IF fetch.merge /\ fetch.loaded THEN "merge" ELSE "clear")
    /\ UNCHANGED <<live, memo>> /\ SameFaults

LocalOnly == fetch.local \ Offers[fetch.source]

StageLocalEntriesOfBoth ==
    /\ Do("merge")
    /\ staging' = [index |-> Offers[fetch.source] \cup fetch.local,
                   dir |-> [e \in Entry |-> IF e \in fetch.local THEN live.dir[e] ELSE staging.dir[e]]]
    /\ To("clear") /\ UNCHANGED <<live, memo>> /\ SameFaults

\* copyLocalEntry, of the ids that the source does not have, and
\* rewriteStagedCatalogYAML.
StageLocalEntries ==
    /\ Do("merge")
    /\ staging' = [index |-> Offers[fetch.source] \cup fetch.local,
                   dir |-> [e \in Entry |-> IF e \in LocalOnly THEN live.dir[e] ELSE staging.dir[e]]]
    /\ To("clear") /\ UNCHANGED <<live, memo>> /\ SameFaults

\* swapStagingIntoLive removes the old entries and then moves the new ones.
HasEntries(t) == t.index # NoIndex \/ \E e \in Entry : t.dir[e] # Nobody

RemoveExisting ==
    /\ Do("clear") /\ HasEntries(live)
    /\ \/ live.index # NoIndex /\ live' = [live EXCEPT !.index = NoIndex]
       \/ \E e \in Entry : live.dir[e] # Nobody /\ live' = [live EXCEPT !.dir[e] = Nobody]
    /\ fetch' = [fetch EXCEPT !.promoting = TRUE]
    /\ UNCHANGED <<staging, memo>> /\ SameFaults

AllRemoved == Do("clear") /\ ~HasEntries(live) /\ To("promote") /\ SameTrees /\ SameFaults

MoveStaged ==
    /\ Do("promote") /\ HasEntries(staging)
    /\ \/ /\ staging.index # NoIndex
          /\ live' = [live EXCEPT !.index = staging.index] /\ staging' = [staging EXCEPT !.index = NoIndex]
       \/ \E e \in Entry :
            /\ staging.dir[e] # Nobody
            /\ live' = [live EXCEPT !.dir[e] = staging.dir[e]]
            /\ staging' = [staging EXCEPT !.dir[e] = Nobody]
    /\ fetch' = [fetch EXCEPT !.promoting = TRUE]
    /\ UNCHANGED memo /\ SameFaults

AllMoved == Do("promote") /\ ~HasEntries(staging) /\ To("record") /\ SameTrees /\ SameFaults

\* A plain fetch records its source; the staging directory is removed.
WriteFractaSource ==
    /\ Do("record") /\ To("done")
    /\ memo' = IF fetch.merge THEN memo ELSE fetch.source
    /\ staging' = Empty /\ UNCHANGED live /\ SameFaults

FetchFaulty == fetchFaults < MaxFetchFault /\ fetchFaults' = fetchFaults + 1 /\ UNCHANGED fetches

\* Any operation may fail; from the staging on, .staging/ is then removed.
FetchFails ==
    /\ fetch.at \in {"resolve", "stage", "merge", "clear", "promote", "record"} /\ FetchFaulty
    /\ To("failed")
    /\ staging' = IF fetch.at = "resolve" THEN staging ELSE Empty
    /\ UNCHANGED <<live, memo>>

FetchKilled == fetch.at \notin Ended /\ FetchFaulty /\ To("killed") /\ SameTrees

FetchNext ==
    \/ \E s \in Source \cup {Nobody}, b \in BOOLEAN, a \in Filters : RunConfigMcpFetch(s, b, a)
    \/ Confirm \/ Decline \/ LoadLocal \/ ResolveCatalogSource \/ CopyCatalogFS \/ StageLocalEntries
    \/ RemoveExisting \/ AllRemoved \/ MoveStaged \/ AllMoved \/ WriteFractaSource
    \/ FetchFails \/ FetchKilled

FetchSpec == FetchInit /\ [][FetchNext]_fetchVars

(***************************************************************************)
(* Properties.                                                             *)
(***************************************************************************)

\* The tree a fetch is to make of the one it found.
Fetched ==
    LET kept == IF fetch.merge /\ Loads(fetch.before) THEN fetch.before.index \ Offers[fetch.source] ELSE {} IN
    [index |-> Offers[fetch.source] \cup kept,
     dir |-> [e \in Entry |-> IF e \in IncludeRemote THEN fetch.source
                             ELSE IF e \in kept THEN fetch.before.dir[e] ELSE Nobody]]

\* A fetch that succeeded replaced the catalog, or merged the two without
\* losing an entry of the operator's, whatever staging a killed one had left.
\* Until it began to promote (swapStagingIntoLive), a fetch that failed or was
\* killed left the catalog as it was; killed later, it left each entry of
\* the new catalog in mcp-servers/ or in mcp-servers/.staging/.  A fetch
\* without a filter leaves a catalog that loads.
FetchKeepsCatalog ==
    /\ fetch.at = "done" => live = Fetched /\ (fetch.accepts = Entry => Loads(live))
    /\ fetch.at \in {"failed", "killed"} /\ ~fetch.promoting => live = fetch.before
    /\ fetch.at = "killed" /\ fetch.promoting =>
         \A e \in Entry : Fetched.dir[e] \in {live.dir[e], staging.dir[e]}
=============================================================================
