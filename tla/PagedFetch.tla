----------------------------- MODULE PagedFetch -----------------------------
(***************************************************************************)
(* One table of a staging run is fetched from an MCP tool into a Parquet   *)
(* file (internal/loaders/mcp_fetcher.go, internal/staging/writer.go):     *)
(* Fetch asks once, FetchPaginated asks page by page, by offset or by      *)
(* cursor.  The tool fails at any page, the time budget ends, the disk     *)
(* fills, the process ends and recovery fetches again, and the source      *)
(* gains rows while it is being read.                                      *)
(***************************************************************************)
EXTENDS Integers, Sequences, FiniteSets

CONSTANTS
    Jobs,             \* bindings of the table, see IsJob
    MaxRetry,         \* bgMaxRetries and recoveryMaxRetries
    MaxArrival,       \* bound: rows that arrive in the source
    MaxDisk           \* bound: failures of the disk and ends of the process

\* size and cap are PageSize and MaxRows; most is the largest page the tool
\* gives; first and last are the rows of the source at the beginning; named
\* says that the binding names the parameter of the mode, limited that it
\* names LimitParam; path and single are ItemsPath and SingleItem.
IsJob(j) ==
    /\ j.mode \in {"once", "offset", "cursor"} /\ j.format \in {"json", "csv"}
    /\ j.shape \in {"array", "object", "scalar"} /\ {j.path, j.single, j.named, j.limited, j.next} \subseteq BOOLEAN
    /\ {j.size, j.cap, j.most} \subseteq Nat \ {0} /\ {j.first, j.last} \subseteq Int /\ j.first <= j.last + 1
ASSUME PagedAssumption ==
    /\ \A j \in Jobs : IsJob(j)
    /\ {MaxRetry, MaxArrival, MaxDisk} \subseteq Nat

VARIABLES
    job, remote,      \* the binding, and the first and last row of the source
    table,            \* the Parquet file: absent, torn or readable, and its rows
    fetching,         \* the goroutine: place, pages, rows, cursor, retries, result
    arrivals, disk    \* rows that arrived before the first row; failures
pagedVars == <<job, remote, table, fetching, arrivals, disk>>

NoTable == [state |-> "absent", rows |-> <<>>]
NoCursor == <<>>
NotFetched == [at |-> "idle", page |-> 0, total |-> 0, cursor |-> NoCursor, retries |-> 0,
               partial |-> FALSE, cut |-> FALSE, broken |-> FALSE]

PagedInit ==
    /\ job \in Jobs /\ remote = [first |-> job.first, last |-> job.last]
    /\ table = NoTable /\ fetching = NotFetched /\ arrivals = 0 /\ disk = 0

PagedTypeOK ==
    /\ job \in Jobs /\ remote.first \in Int /\ remote.last \in Int
    /\ table.state \in {"absent", "torn", "readable"} /\ table.rows \in Seq(Int)
    /\ fetching.at \in {"idle", "once", "page", "close", "staged", "failed"}
    /\ fetching.page \in Nat /\ fetching.total \in Nat /\ fetching.retries \in 0..MaxRetry + 1

Least(x, y) == IF x < y THEN x ELSE y
RowsFrom(from, n) == [i \in 1..n |-> from + i - 1]
Fetching(at) == fetching.at = at
KeepWorld == UNCHANGED <<job, remote, arrivals, disk>>
DiskFault == disk < MaxDisk /\ disk' = disk + 1 /\ UNCHANGED <<job, remote, arrivals>>

(***************************************************************************)
(* The tool and its answers.                                               *)
(***************************************************************************)

\* navigateToItems: an array, what is at the path, or a single object.
NavigateToItems(single) == job.shape = "array" \/ (job.shape = "object" /\ (job.path \/ single))

\* parseResponse; other formats have no envelope to navigate.
Parses(single) == job.format # "json" \/ NavigateToItems(single)

\* The offset that FetchPaginated asks for, and the mistaken one of a caller
\* that counts pages.
OffsetOfPage(n) == n
Offset(n) == n * job.size

\* The arguments of a page and the rows of the source the tool answers with.
\* A tool that is not told where to go on starts again.
PageStart ==
    CASE job.mode = "offset" /\ job.named -> remote.first + Offset(fetching.page)
      [] job.mode = "cursor" /\ job.named /\ fetching.page > 0 -> fetching.cursor[1] + 1
      [] OTHER -> remote.first
Length == IF job.limited THEN Least(job.size, job.most) ELSE job.most
Page == RowsFrom(PageStart, IF PageStart > remote.last THEN 0 ELSE Least(Length, remote.last - PageStart + 1))
Object == IF job.format = "json" /\ job.shape = "object" /\ ~job.path THEN RowsFrom(remote.first, 1) ELSE
          RowsFrom(remote.first, Least(job.most, remote.last - remote.first + 1))

(***************************************************************************)
(* The goroutine of the table: stageTable and recoverTable.                *)
(***************************************************************************)

\* A failed fetch is tried again until the retries are used up.
Fail(f) == fetching' = [NotFetched EXCEPT !.retries = f.retries + 1,
                                         !.at = IF f.retries + 1 > MaxRetry THEN "failed" ELSE "idle"]

\* A cursor needs the envelope of a JSON answer.
Refuse ==
    /\ Fetching("idle") /\ job.mode = "cursor" /\ job.format # "json"
    /\ Fail(fetching) /\ UNCHANGED table /\ KeepWorld

\* The run directory and the writer; os.Create truncates what is there.
OpenWriter ==
    /\ Fetching("idle") /\ job.mode # "once" /\ ~(job.mode = "cursor" /\ job.format # "json")
    /\ table' = [state |-> "torn", rows |-> <<>>]
    /\ fetching' = [fetching EXCEPT !.at = "page"] /\ KeepWorld

OpenFails ==
    /\ fetching.at \in {"idle", "once"} /\ (Fetching("idle") => job.mode # "once") /\ DiskFault
    /\ Fail(fetching) /\ UNCHANGED table

\* buildPartialResult: what the rows so far are worth when a page fails; with
\* none the file is removed and the fetch failed.
Partial(rows, state) ==
    IF fetching.total > 0
    THEN /\ table' = [state |-> state, rows |-> rows]
         /\ fetching' = [fetching EXCEPT !.at = "staged", !.partial = TRUE, !.broken = state = "torn"]
    ELSE table' = NoTable /\ Fail(fetching)

\* The call fails or runs out of time, or the answer is an error or not rows.
PageFails ==
    /\ Fetching("page") /\ Partial(table.rows, "readable") /\ KeepWorld

\* Where an empty page ends the fetch, where the rows are capped, and what
\* ends it after the rows were written; answer is the cursor the tool gave.
NextPage(answer) ==
    LET items == SubSeq(Page, 1, Least(Len(Page), job.cap - fetching.total))
        total == fetching.total + Len(items)
        f == [fetching EXCEPT !.page = @ + 1, !.total = total]
    IN IF Page = <<>> THEN fetching' = [fetching EXCEPT !.at = "close"] /\ UNCHANGED table
       ELSE /\ table' = [table EXCEPT !.rows = @ \o items]
            /\ fetching' =
                 IF total >= job.cap \/ Len(items) < job.size THEN [f EXCEPT !.at = "close"]
                 ELSE IF job.mode # "cursor" THEN f
                 ELSE IF job.shape # "object" \/ ~job.next \/ answer = NoCursor THEN [f EXCEPT !.at = "close"]
                 ELSE [f EXCEPT !.cursor = answer]

PageArrives ==
    /\ Fetching("page") /\ Parses(FALSE)
    /\ \E more \in BOOLEAN :
         \* at the end of the source the tool may still give a cursor
         /\ Page # <<>> /\ Page[Len(Page)] < remote.last => more
         /\ NextPage(IF more /\ Page # <<>> THEN <<Page[Len(Page)]>> ELSE NoCursor)
    /\ KeepWorld

\* Writing or flushing a page fails, and closing the writer after it may fail too.
PageNotWritten ==
    /\ Fetching("page") /\ Parses(FALSE) /\ Page # <<>> /\ DiskFault
    /\ \E n \in 0..Len(Page), state \in {"torn", "readable"} :
         Partial(table.rows \o SubSeq(Page, 1, Least(n, job.cap - fetching.total)), state)

\* The budget of the whole fetch is over before the next page: what there is
\* counts as the table.
BudgetOver ==
    /\ Fetching("page") /\ fetching' = [fetching EXCEPT !.at = "close", !.cut = TRUE]
    /\ UNCHANGED table /\ KeepWorld

CloseWriter ==
    /\ Fetching("close") /\ table' = [table EXCEPT !.state = "readable"]
    /\ fetching' = [fetching EXCEPT !.at = "staged"] /\ KeepWorld

CloseFails ==
    /\ Fetching("close") /\ DiskFault /\ table' = NoTable /\ Fail(fetching)

\* Fetch: one call, and only with its rows in hand the file.
CallTool ==
    /\ Fetching("idle") /\ job.mode = "once" /\ Parses(job.single)
    /\ fetching' = [fetching EXCEPT !.at = "once"] /\ UNCHANGED table /\ KeepWorld

CallToolFails ==
    /\ Fetching("idle") /\ job.mode = "once" /\ Fail(fetching) /\ UNCHANGED table /\ KeepWorld

WriteAll ==
    /\ Fetching("once")
    /\ LET items == SubSeq(Object, 1, Least(Len(Object), job.cap)) IN
       /\ table' = [state |-> "torn", rows |-> items]
       /\ fetching' = [fetching EXCEPT !.at = "close", !.total = Len(items)]
    /\ KeepWorld

\* The process ends; recovery marks the table and fetches it from its start.
FetcherDies ==
    /\ fetching.at \in {"once", "page", "close"} /\ DiskFault
    /\ fetching' = NotFetched /\ UNCHANGED table

\* Rows arrive at the end of the source, or before its first row.
RowArrives ==
    /\ fetching.at \notin {"staged", "failed"} /\ arrivals < MaxArrival /\ arrivals' = arrivals + 1
    /\ remote' \in {[remote EXCEPT !.last = @ + 1], [remote EXCEPT !.first = @ - 1]}
    /\ UNCHANGED <<job, table, fetching, disk>>

PagedNext ==
    \/ Refuse \/ OpenWriter \/ OpenFails \/ PageFails \/ PageArrives \/ PageNotWritten \/ BudgetOver
    \/ CloseWriter \/ CloseFails \/ CallTool \/ CallToolFails \/ WriteAll \/ FetcherDies \/ RowArrives

PagedSpec == PagedInit /\ [][PagedNext]_pagedVars

\* A table that counts as staged (Fetch, FetchPaginated, buildPartialResult)
\* holds the rows it counts and no more than the cap, and they are the rows of
\* the source without a hole: pages join up, whichever of them was the last,
\* however often the fetch was tried.  A cursor gives no row twice even when
\* the source gains rows; an offset repeats no more rows than arrived before
\* the first, from a tool that gives no longer pages than asked.  Unless the
\* budget ended it, a result that is not called partial reaches the end of the
\* source or the cap, from a tool that gives pages of the size asked for.  A failed table leaves no readable file.  The disk
\* failing under a page is the one case in which a staged file may not open.
PagesJoin ==
    /\ Fetching("staged") /\ ~fetching.broken =>
         LET rows == table.rows IN
         /\ table.state = "readable"
         /\ fetching.total <= Len(rows) /\ Len(rows) <= job.cap
         /\ ~fetching.partial => Len(rows) = fetching.total
         /\ (job.named /\ Length <= job.size) \/ job.mode = "once" => \A i \in 1..Len(rows) - 1 :
              /\ rows[i + 1] <= rows[i] + 1
              /\ rows[i + 1] < rows[i] + 1 => job.mode = "offset" /\ rows[i] - rows[i + 1] < arrivals
         /\ ~fetching.partial /\ ~fetching.cut /\ rows # <<>> /\ job.named /\ job.mode # "once"
              /\ (job.mode = "cursor" => job.shape = "object" /\ job.next)
              /\ Length >= job.size =>
                Len(rows) = job.cap \/ rows[Len(rows)] >= job.last
    /\ Fetching("failed") => table.state # "readable"
=============================================================================
