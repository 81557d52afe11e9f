---------------------------- MODULE SqliteStore ----------------------------
(***************************************************************************)
(* The agents table of a SQLite database (state/sqlitestore) that several  *)
(* processes open: `fracta init`, the daemon, and every command that works *)
(* without one.  New brings whatever schema it finds up to date, one       *)
(* statement at a time but for the copy of the table, which is one         *)
(* transaction; WithLock rewrites the whole table in another.  A           *)
(* transaction holds the one write lock of the database from its first     *)
(* write to its end; every other statement commits by itself, and reads    *)
(* what is committed.                                                      *)
(***************************************************************************)
EXTENDS Naturals, Sequences

CONSTANTS
  Process,       \* processes that open the database
  AgentName,     \* names of agents
  EventColumns,  \* columns added to agent_events
  MaxMisread,    \* bound: probes of the schema that fail
  MaxDeath       \* bound: crashes and failing statements

NoWriter == "nobody"

ASSUME SqliteAssumption ==
  /\ NoWriter \notin Process
  /\ EventColumns \in Nat /\ MaxMisread \in Nat /\ MaxDeath \in Nat

VARIABLES
  db,        \* the tables agents and agents_old, the new columns of agent_events
  lock,      \* who has a write transaction
  undo,      \* the database before that transaction
  process,   \* process -> where it is and what it read
  owed,      \* history: the agents, as the operations that returned left them
  misreads,  \* probes that failed so far
  deaths,    \* crashes and failures so far
  crossed    \* history: a table that was up to date was copied as an old one

sqliteVars == <<db, lock, undo, process, owed, misreads, deaths, crossed>>

(***************************************************************************)
(* Tables                                                                  *)
(***************************************************************************)

Probed  == <<"id", "worktree_path", "session_id", "resume_token">>
Late    == <<"mission_id", "objective_id">>
Current == {"host_type", "resume_token", "workspace_path", "mission_id", "objective_id"}
Column  == Current \cup {"id", "worktree_path", "session_id"}

Live   == {"Queued", "Running", "Idle"}
Status == Live \cup {"Completed", "Failed", "Stopped"}

\* An agent: its status and the id of its mission, 0 for none.
NoAgent == [status |-> "none", mission |-> 0]
Agents  == [status : Status, mission : {0, 1}] \cup {NoAgent}

NoAgents == [t \in AgentName |-> NoAgent]
Table == [columns : SUBSET Column, rows : [AgentName -> Agents]]
Database == [agents : Table, old : Table, events : SUBSET (1 .. EventColumns)]
NoSuchTable == [columns |-> {}, rows |-> NoAgents]
NoDatabase == [agents |-> NoSuchTable, old |-> NoSuchTable, events |-> {}]

\* The schemas New may find: none, and those of earlier versions.
Version == {{},
            {"id", "worktree_path", "session_id"},
            {"worktree_path", "session_id"},
            {"workspace_path", "session_id"},
            {"workspace_path", "resume_token", "host_type"},
            Current}

\* What everybody but the writer reads.
Committed == IF lock = NoWriter THEN db ELSE undo

Asleep == [at |-> "closed", i |-> 1, seen |-> {}, task |-> "none", view |-> NoAgents]
Opening == {"create", "probe", "aside", "copy", "check", "add"}
Writing == {"copy", "locked", "cleared"}

Place == [at : Opening \cup Writing \cup {"closed", "open"}, i : 1 .. Len(Probed) + EventColumns,
          seen : SUBSET Column, task : AgentName \cup {"none"}, view : [AgentName -> Agents]]

SqliteTypeOK ==
  /\ db \in Database /\ undo \in Database
  /\ lock \in Process \cup {NoWriter}
  /\ process \in [Process -> Place]
  /\ owed \in [AgentName -> Agents]
  /\ misreads \in 0 .. MaxMisread /\ deaths \in 0 .. MaxDeath /\ crossed \in BOOLEAN

SqliteInit ==
  /\ \E c \in Version, r \in [AgentName -> Agents] :
       /\ c = {} => r = NoAgents
       /\ c # Current => \A t \in AgentName : r[t].mission = 0
       /\ db = [agents |-> [columns |-> c, rows |-> r], old |-> NoSuchTable, events |-> {}]
       /\ owed = r
  /\ lock = NoWriter /\ undo = NoDatabase /\ process = [p \in Process |-> Asleep]
  /\ misreads = 0 /\ deaths = 0 /\ crossed = FALSE

Where(p, a) == process[p].at = a
Goto(p, r) == process' = [process EXCEPT ![p] = r]
Unlocked == lock = NoWriter

\* A statement of its own: it waits for the lock and commits.
Alone(p) == Unlocked /\ UNCHANGED <<lock, undo>>

BeginTx(p)  == Unlocked /\ lock' = p /\ undo' = db
Within(p) == lock = p /\ UNCHANGED <<lock, undo>>
CommitTx(p) == lock = p /\ lock' = NoWriter /\ undo' = NoDatabase

\* Mutant: the statements of a transaction commit one by one.
RollbackTxNothing(p) ==
  /\ lock' = IF lock = p THEN NoWriter ELSE lock
  /\ undo' = IF lock = p THEN NoDatabase ELSE undo
  /\ UNCHANGED db

\* tx.Rollback, or the recovery of the database after a crash.
RollbackTx(p) ==
  /\ lock' = IF lock = p THEN NoWriter ELSE lock
  /\ db'   = IF lock = p THEN undo ELSE db
  /\ undo' = IF lock = p THEN NoDatabase ELSE undo

KeepHistory == UNCHANGED <<owed, misreads, deaths, crossed>>

(***************************************************************************)
(* New                                                                     *)
(***************************************************************************)

Open(p) ==
  /\ Where(p, "closed") /\ Goto(p, [Asleep EXCEPT !.at = "create"])
  /\ UNCHANGED <<db, lock, undo>> /\ KeepHistory

\* CREATE TABLE IF NOT EXISTS agents, agent_events and the others.
CreateTables(p) ==
  /\ Where(p, "create") /\ Alone(p)
  /\ db' = IF db.agents.columns = {} THEN [db EXCEPT !.agents.columns = Current] ELSE db
  /\ Goto(p, [process[p] EXCEPT !.at = "probe"])
  /\ KeepHistory

\* A table with the columns c is of an earlier version.
NeedsMigration(c) ==
  \/ "id" \in c \/ "worktree_path" \in c
  \/ "session_id" \in c /\ "resume_token" \notin c

Probing(p, c) ==
  LET i == process[p].i IN
    IF i < Len(Probed) THEN [process[p] EXCEPT !.i = i + 1, !.seen = c]
    ELSE IF NeedsMigration(c) THEN [process[p] EXCEPT !.at = "aside", !.i = 1, !.seen = c]
    ELSE [process[p] EXCEPT !.at = "check", !.i = 1, !.seen = {}]

\* migrateOldSchema looks for one column after the other; a failing query
\* counts as a column that is not there.
ProbeColumn(p) ==
  /\ Where(p, "probe")
  /\ \/ /\ Goto(p, Probing(p, process[p].seen \cup ({Probed[process[p].i]} \cap Committed.agents.columns)))
        /\ UNCHANGED misreads
     \/ /\ misreads < MaxMisread /\ misreads' = misreads + 1
        /\ Goto(p, Probing(p, process[p].seen))
  /\ UNCHANGED <<db, lock, undo, owed, deaths, crossed>>

\* The transaction: the old table is moved aside and a new one created.
MoveAside(p) ==
  /\ Where(p, "aside") /\ BeginTx(p)
  /\ db' = [db EXCEPT !.old = db.agents, !.agents = [columns |-> Current, rows |-> NoAgents]]
  /\ Goto(p, [process[p] EXCEPT !.at = "copy"])
  /\ KeepHistory

\* The columns of the old table that are copied under new names.
Copied(c) ==
  {IF "worktree_path" \in c THEN "worktree_path" ELSE "workspace_path",
   IF "session_id" \in c /\ "resume_token" \notin c THEN "session_id" ELSE "resume_token"}

\* INSERT ... SELECT, DROP TABLE and COMMIT.  The ids of missions are not
\* copied: no table that needs the migration has them.
CopyBack(p) ==
  /\ Where(p, "copy") /\ CommitTx(p)
  /\ Copied(process[p].seen) \subseteq db.old.columns
  /\ db' = [db EXCEPT !.old = NoSuchTable,
                      !.agents.rows = [t \in AgentName |-> [db.old.rows[t] EXCEPT !.mission = 0]]]
  /\ crossed' = (crossed \/ db.old.columns = Current)
  /\ Goto(p, [process[p] EXCEPT !.at = "check", !.seen = {}])
  /\ UNCHANGED <<owed, misreads, deaths>>

\* migrateMissionID, migrateObjectiveID, then migrateAgentEventsSpec28: the
\* columns one after the other.
Columns == Len(Late) + EventColumns
Missing(d, i) == IF i <= Len(Late) THEN Late[i] \notin d.agents.columns ELSE i - Len(Late) \notin d.events

NextColumn(p) ==
  IF process[p].i = Columns THEN [Asleep EXCEPT !.at = "open"]
  ELSE [process[p] EXCEPT !.at = "check", !.i = @ + 1]

\* A failing query counts, here too, as a column that is not there.
CheckColumn(p) ==
  /\ Where(p, "check")
  /\ \/ /\ Goto(p, IF Missing(Committed, process[p].i) THEN [process[p] EXCEPT !.at = "add"] ELSE NextColumn(p))
        /\ UNCHANGED misreads
     \/ /\ misreads < MaxMisread /\ misreads' = misreads + 1
        /\ Goto(p, [process[p] EXCEPT !.at = "add"])
  /\ UNCHANGED <<db, lock, undo, owed, deaths, crossed>>

\* ALTER TABLE ADD COLUMN is refused when somebody else has added it, and New
\* fails.
AddColumn(p) ==
  LET i == process[p].i IN
  /\ Where(p, "add") /\ Alone(p)
  /\ IF ~Missing(db, i) THEN Goto(p, Asleep) /\ UNCHANGED db
     ELSE /\ Goto(p, NextColumn(p))
          /\ db' = IF i <= Len(Late) THEN [db EXCEPT !.agents.columns = @ \cup {Late[i]}]
                   ELSE [db EXCEPT !.events = @ \cup {i - Len(Late)}]
  /\ KeepHistory

(***************************************************************************)
(* The operations of an open store                                         *)
(***************************************************************************)

\* WithLock: the dummy write takes the lock, loadTx reads every row, and the
\* function appends an agent (RecordAgentStarted, MemoryQueue.Enqueue).
LockState(p) ==
  /\ Where(p, "open") /\ BeginTx(p) /\ Current \subseteq db.agents.columns
  /\ \E t \in AgentName, s \in {"Running", "Queued"} :
       /\ db.agents.rows[t] = NoAgent
       /\ Goto(p, [process[p] EXCEPT !.at = "locked", !.task = t,
                                     !.view = [db.agents.rows EXCEPT ![t] = [status |-> s, mission |-> 1]]])
  /\ UNCHANGED db /\ KeepHistory

\* saveTx: DELETE FROM agents.
ClearAgents(p) ==
  /\ Where(p, "locked") /\ Within(p)
  /\ db' = [db EXCEPT !.agents.rows = NoAgents]
  /\ Goto(p, [process[p] EXCEPT !.at = "cleared"])
  /\ KeepHistory

\* saveTx: every row is inserted again, and COMMIT.
SaveAgents(p) ==
  /\ Where(p, "cleared") /\ CommitTx(p)
  /\ db' = [db EXCEPT !.agents.rows = process[p].view]
  /\ owed' = [owed EXCEPT ![process[p].task] = process[p].view[process[p].task]]
  /\ Goto(p, [Asleep EXCEPT !.at = "open"])
  /\ UNCHANGED <<misreads, deaths, crossed>>

\* One row is written by a statement of its own.
WriteAgent(p, t, row) ==
  /\ Where(p, "open") /\ Alone(p)
  /\ db' = [db EXCEPT !.agents.rows[t] = row]
  /\ owed' = [owed EXCEPT ![t] = IF row = NoAgent THEN NoAgent ELSE [@ EXCEPT !.status = row.status]]
  /\ UNCHANGED <<process, misreads, deaths, crossed>>

\* UpdateAgentStatusIf, UpdateAgentResultIf: a row whose status is expected.
\* Texts and resume tokens are not modelled.
UpdateAgentStatusIf(p, t, expected, new) ==
  /\ db.agents.rows[t].status \in expected
  /\ WriteAgent(p, t, [db.agents.rows[t] EXCEPT !.status = new])

ClaimAgent(p, t) == UpdateAgentStatusIf(p, t, {"Queued"}, "Running")

\* UpdateAgentStatus, UpdateAgentResult: whatever the status was.
UpdateAgentStatus(p, t, new) ==
  /\ db.agents.rows[t] # NoAgent
  /\ WriteAgent(p, t, [db.agents.rows[t] EXCEPT !.status = new])

RemoveAgent(p, t) == db.agents.rows[t] # NoAgent /\ WriteAgent(p, t, NoAgent)

Close(p) ==
  /\ Where(p, "open") /\ Goto(p, Asleep)
  /\ UNCHANGED <<db, lock, undo>> /\ KeepHistory

(***************************************************************************)
(* Failures                                                                *)
(***************************************************************************)

\* A statement fails, or waits for the lock for five seconds: New closes the
\* database, an operation returns an error.
StatementFails(p) ==
  /\ deaths < MaxDeath /\ deaths' = deaths + 1
  /\ process[p].at \notin {"closed", "open"}
  /\ RollbackTx(p)
  /\ Goto(p, IF process[p].at \in Opening THEN Asleep ELSE [Asleep EXCEPT !.at = "open"])
  /\ UNCHANGED <<owed, misreads, crossed>>

\* The table that was moved aside does not have the columns that were seen.
CopyFails(p) ==
  /\ Where(p, "copy") /\ ~(Copied(process[p].seen) \subseteq db.old.columns)
  /\ RollbackTx(p) /\ Goto(p, Asleep)
  /\ KeepHistory

Die(p) ==
  /\ deaths < MaxDeath /\ deaths' = deaths + 1
  /\ process[p].at # "closed"
  /\ RollbackTx(p) /\ Goto(p, Asleep)
  /\ UNCHANGED <<owed, misreads, crossed>>

SqliteStep(p) ==
  \/ Open(p) \/ CreateTables(p) \/ ProbeColumn(p) \/ MoveAside(p) \/ CopyBack(p) \/ CopyFails(p)
  \/ CheckColumn(p) \/ AddColumn(p)
  \/ LockState(p) \/ ClearAgents(p) \/ SaveAgents(p)
  \/ \E t \in AgentName : \/ ClaimAgent(p, t) \/ RemoveAgent(p, t) \/ UpdateAgentStatus(p, t, "Failed")
                          \/ \E s \in Status \ {"Queued"} : UpdateAgentStatusIf(p, t, Live, s)
  \/ Close(p) \/ StatementFails(p) \/ Die(p)

SqliteNext == \E p \in Process : SqliteStep(p)
SqliteSpec == SqliteInit /\ [][SqliteNext]_sqliteVars

(***************************************************************************)
(* Properties                                                              *)
(***************************************************************************)

\* Whoever reads the table finds every agent as the operations left it: no
\* crash, failing statement or race of two processes that migrate loses a row
\* or an update.  Its mission is lost only where a table that was already up
\* to date is copied.
AgentsKept ==
  \A t \in AgentName :
    /\ Committed.agents.rows[t].status = owed[t].status
    /\ ~crossed => Committed.agents.rows[t].mission = owed[t].mission

\* A store that New returned finds all the columns its statements name,
\* whoever else migrates, unless a probe of the schema failed.
OpenIsCurrent ==
  misreads = 0 => \A p \in Process : process[p].at \in {"open", "locked", "cleared"} =>
    /\ Current \subseteq Committed.agents.columns
    /\ Committed.events = 1 .. EventColumns

\* The database keeps the agents, and an open store can read it (New, WithLock).
StoreSound == AgentsKept /\ OpenIsCurrent

=============================================================================
