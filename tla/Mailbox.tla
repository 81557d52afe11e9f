------------------------------ MODULE Mailbox ------------------------------
(***************************************************************************)
(* One agent's mailbox in the messages and cursors tables, with the        *)
(* orchestrator operations that use it: SendMessage, ReadInbox and the     *)
(* removal of the agent.                                                   *)
(*                                                                         *)
(* In Postgres a message gets its id when its INSERT runs and is visible   *)
(* when that commits, and every statement of Read sees what is committed   *)
(* when the statement starts.  In SQLite an INSERT is one step, and Read   *)
(* holds the write lock of the database from BEGIN IMMEDIATE to COMMIT.    *)
(***************************************************************************)
EXTENDS Naturals, FiniteSets, Sequences

CONSTANTS
  Msg,        \* messages sent to the agent
  Reader,     \* ReadInbox calls that may be in flight at once
  MaxLives,   \* bound: agents that have the name, one after the other
  MaxFails    \* bound: reads that fail

Nobody == "nobody"

ASSUME MailboxAssumption ==
  /\ IsFiniteSet(Msg) /\ Nobody \notin Reader
  /\ MaxLives \in Nat \ {0} /\ MaxFails \in Nat

VARIABLES
  sqlite,     \* SQLiteMailbox, or PostgresMailbox; never changes
  life,       \* the agent that has the name: 1, 2, ...; 0 when none does
  lives,      \* agents that had the name so far
  table,      \* committed rows of messages
  lastId,     \* the id sequence
  cursor,     \* last_id of the cursors row, NoRow without a row
  lock,       \* the reader that holds the cursor row, or SQLite's database
  sends,      \* message -> its SendMessage call
  reads,      \* reader -> its ReadInbox call
  removing,   \* cleanupAgent: the row is gone, the mailbox not yet
  log,        \* every message Read returned, in order
  fails,      \* reads that failed
  raced,      \* history: two reads overlapped while no cursor row existed
  late        \* history: an INSERT committed after one with a higher id

mailWork == <<life, lives, table, lastId, cursor, lock, sends, reads, removing, log,
          fails, raced, late>>

mailVars == <<sqlite, mailWork>>

Id      == 1 .. Cardinality(Msg)
NoRow   == 0
Row     == [id : Id, msg : Msg, to : 1 .. MaxLives]
NewSend == [at |-> "new", to |-> 0, id |-> 0]
NewRead == [at |-> "idle", by |-> 0, last |-> 0, rows |-> {}]

SendCall == [at : {"new", "found", "inserted", "sent", "refused"},
             to : 0 .. MaxLives, id : 0 .. Cardinality(Msg)]
ReadCall == [at   : {"idle", "begin", "select", "advance", "commit"},
             by   : 0 .. MaxLives,
             last : 0 .. Cardinality(Msg),
             rows : SUBSET Row]
Answer   == [row : Row, by : 1 .. MaxLives]

MailTypeOK ==
  /\ {sqlite, raced, late} \subseteq BOOLEAN
  /\ life \in 0 .. MaxLives /\ lives \in 0 .. MaxLives
  /\ table \subseteq Row
  /\ lastId \in 0 .. Cardinality(Msg)
  /\ cursor \in Id \union {NoRow}
  /\ lock \in Reader \union {Nobody}
  /\ sends \in [Msg -> SendCall] /\ reads \in [Reader -> ReadCall]
  /\ removing \in BOOLEAN /\ fails \in 0 .. MaxFails
  /\ log \in Seq(Answer)

MailInit ==
  /\ sqlite \in BOOLEAN /\ raced = FALSE /\ late = FALSE
  /\ life = 0 /\ lives = 0
  /\ table = {} /\ lastId = 0 /\ cursor = NoRow /\ lock = Nobody
  /\ sends = [m \in Msg |-> NewSend]
  /\ reads = [r \in Reader |-> NewRead]
  /\ removing = FALSE
  /\ log = <<>> /\ fails = 0

(***************************************************************************)
(* SendMessage                                                             *)
(***************************************************************************)

\* The recipient is looked up; without one the call is refused.
SendFind(m) ==
  /\ sends[m].at = "new"
  /\ sends' = [sends EXCEPT ![m].at = IF life = 0 THEN "refused" ELSE "found",
                            ![m].to = life]
  /\ UNCHANGED <<life, lives, table, lastId, cursor, lock, reads, removing, log, fails, raced, late>>

\* Mutant: a key without AUTOINCREMENT, one above those of the rows there are.
NextIdReused ==
  1 + Cardinality({i \in 1 .. lastId :
                     \/ \E w \in table : i <= w.id
                     \/ \E m \in Msg : sends[m].at = "inserted" /\ i <= sends[m].id})

\* BIGSERIAL, or INTEGER PRIMARY KEY AUTOINCREMENT.
NextId == lastId + 1

\* Mailbox.Send: INSERT.  In SQLite it waits for the lock and commits.
SendInsert(m) ==
  /\ sends[m].at = "found"
  /\ sqlite => lock = Nobody
  /\ lastId' = NextId
  /\ sends'  = [sends EXCEPT ![m].at = IF sqlite THEN "sent" ELSE "inserted",
                             ![m].id = NextId]
  /\ table'  = IF sqlite
                 THEN table \union {[id |-> NextId, msg |-> m, to |-> sends[m].to]}
                 ELSE table
  /\ UNCHANGED <<life, lives, cursor, lock, reads, removing, log, fails, raced, late>>

\* The INSERT commits.
SendCommit(m) ==
  /\ sends[m].at = "inserted"
  /\ sends' = [sends EXCEPT ![m].at = "sent"]
  /\ table' = table \union {[id |-> sends[m].id, msg |-> m, to |-> sends[m].to]}
  /\ late'  = (late \/ \E n \in Msg : sends[n].at = "sent" /\ sends[n].id > sends[m].id)
  /\ UNCHANGED <<life, lives, lastId, cursor, lock, reads, removing, log, fails, raced>>

(***************************************************************************)
(* ReadInbox                                                               *)
(***************************************************************************)

\* The agent is looked up.
ReadFind(r) ==
  /\ reads[r].at = "idle" /\ life # 0
  /\ reads' = [reads EXCEPT ![r].at = "begin", ![r].by = life]
  /\ UNCHANGED <<life, lives, table, lastId, cursor, lock, sends, removing, log, fails, raced, late>>

\* Mutant: a deferred BEGIN, or a SELECT without FOR UPDATE.
LocksAtReadNever == FALSE

\* BEGIN IMMEDIATE always takes SQLite's lock; FOR UPDATE takes the cursor
\* row's, if the row exists.
LocksAtRead == sqlite \/ cursor # NoRow

\* Read: the cursor, locked where LocksAtRead says so.
ReadCursor(r) ==
  /\ reads[r].at = "begin"
  /\ LocksAtRead => lock = Nobody
  /\ lock'  = IF LocksAtRead THEN r ELSE lock
  /\ reads' = [reads EXCEPT ![r].at = "select",
                            ![r].last = cursor]
  /\ raced' = (raced \/ /\ ~LocksAtRead
                        /\ \E q \in Reader : reads[q].at \in {"select", "advance", "commit"})
  /\ UNCHANGED <<life, lives, table, lastId, cursor, sends, removing, log, fails, late>>

\* id > last_id
After(id, last) == id > last

\* Read: the unread messages.
ReadSelect(r) ==
  /\ reads[r].at = "select"
  /\ reads' = [reads EXCEPT ![r].at = "advance",
                            ![r].rows = {w \in table : After(w.id, reads[r].last)}]
  /\ UNCHANGED <<life, lives, table, lastId, cursor, lock, sends, removing, log, fails, raced, late>>

MaxIdOf(rows) == CHOOSE n \in Id : \E w \in rows : w.id = n /\ \A v \in rows : v.id <= n

\* Read: the upsert of the cursor waits for the row's lock and holds it.
ReadAdvance(r) ==
  /\ reads[r].at = "advance"
  /\ reads[r].rows # {} => lock \in {r, Nobody}
  /\ lock'  = IF reads[r].rows # {} THEN r ELSE lock
  /\ reads' = [reads EXCEPT ![r].at = "commit"]
  /\ UNCHANGED <<life, lives, table, lastId, cursor, sends, removing, log, fails, raced, late>>

\* COMMIT or ROLLBACK ends the transaction and its locks.
Release(r) == lock' = IF lock = r THEN Nobody ELSE lock

\* The rows DELETE ... id <= maxID removes.
Consumed(rows) == {w \in table : w.id <= MaxIdOf(rows)}

\* The place of row w among the rows: how many have at most its id.
Rank(w, rows) == Cardinality({v \in rows : v.id <= w.id})

\* The rows in the order of their ids.
InOrder(rows) ==
  [i \in 1 .. Cardinality(rows) |-> CHOOSE w \in rows : Rank(w, rows) = i]

\* What Read returns.
Messages(r) ==
  LET rows == reads[r].rows IN
    [i \in 1 .. Cardinality(rows) |-> [row |-> InOrder(rows)[i], by |-> reads[r].by]]

\* Mutant: the messages are returned although COMMIT failed.
ReadCommitUnchecked(r) ==
  /\ reads[r].at = "commit"
  /\ log' = log \o Messages(r)
  /\ Release(r)
  /\ reads' = [reads EXCEPT ![r] = NewRead]
  /\ UNCHANGED <<life, lives, table, lastId, cursor, sends, removing, fails, raced, late>>

\* Read: DELETE and COMMIT; the messages are returned.
ReadCommit(r) ==
  /\ reads[r].at = "commit"
  /\ LET rows == reads[r].rows IN
       /\ table'  = IF rows = {} THEN table ELSE table \ Consumed(rows)
       /\ cursor' = IF rows = {} THEN cursor ELSE MaxIdOf(rows)
       /\ log'    = log \o Messages(r)
  /\ Release(r)
  /\ reads' = [reads EXCEPT ![r] = NewRead]
  /\ UNCHANGED <<life, lives, lastId, sends, removing, fails, raced, late>>

\* Read fails after BEGIN and is rolled back.
ReadFail(r) ==
  /\ reads[r].at \in {"select", "advance", "commit"}
  /\ fails < MaxFails
  /\ fails' = fails + 1
  /\ Release(r)
  /\ reads' = [reads EXCEPT ![r] = NewRead]
  /\ UNCHANGED <<life, lives, table, lastId, cursor, sends, removing, log, raced, late>>

(***************************************************************************)
(* The agent is removed, and its name used again                           *)
(***************************************************************************)

\* cleanupAgent: RemoveAgent.
KillAgent ==
  /\ life # 0 /\ ~removing
  /\ life' = 0 /\ removing' = TRUE
  /\ UNCHANGED <<lives, table, lastId, cursor, lock, sends, reads, log, fails, raced, late>>

\* cleanupAgent: Mailbox.Remove deletes messages and cursor.
RemoveMailbox ==
  /\ removing /\ lock = Nobody
  /\ table' = {} /\ cursor' = NoRow /\ removing' = FALSE
  /\ UNCHANGED <<life, lives, lastId, lock, sends, reads, log, fails, raced, late>>

\* A new agent takes the name.
SpawnAgent ==
  /\ life = 0 /\ ~removing /\ lives < MaxLives
  /\ lives' = lives + 1 /\ life' = lives + 1
  /\ UNCHANGED <<table, lastId, cursor, lock, sends, reads, removing, log, fails, raced, late>>

ReadStep(r) ==
  ReadFind(r) \/ ReadCursor(r) \/ ReadSelect(r) \/ ReadAdvance(r) \/ ReadCommit(r)

MailNext ==
  /\ \/ \E m \in Msg : SendFind(m) \/ SendInsert(m) \/ SendCommit(m)
     \/ \E r \in Reader : ReadStep(r) \/ ReadFail(r)
     \/ KillAgent \/ RemoveMailbox \/ SpawnAgent
  /\ UNCHANGED sqlite

MailSpec == MailInit /\ [][MailNext]_mailVars

(***************************************************************************)
(* MailFairness.  The goroutine of every call in flight goes on, and the agent *)
(* keeps checking its inbox, as its instructions tell it to.               *)
(***************************************************************************)
MailFairness ==
  /\ \A m \in Msg : WF_mailWork(SendInsert(m) \/ SendCommit(m))
  /\ \A r \in Reader : WF_mailWork(ReadStep(r))
  /\ WF_mailWork(RemoveMailbox)

MailFairSpec == MailSpec /\ MailFairness

(***************************************************************************)
(* Properties                                                              *)
(***************************************************************************)

\* No message is returned by two reads (Read advances the cursor and
\* deletes what it returned in one transaction).  While there is no cursor
\* row, FOR UPDATE locks nothing and two reads may return the same.
DeliveredOnce ==
  ~raced => \A i, j \in DOMAIN log : log[i].row.msg = log[j].row.msg => i = j

Unread == {w \in table : After(w.id, cursor)}

\* The queue of Inbox is the unread rows in id order, its output what was
\* returned.  Postgres makes no such promise: its rows appear out of id order.
Queued ==
  [i \in 1 .. (IF sqlite THEN Cardinality(Unread) ELSE 0) |-> InOrder(Unread)[i].msg]

Delivered ==
  [i \in 1 .. (IF sqlite THEN Len(log) ELSE 0) |-> log[i].row.msg]

InboxImpl == INSTANCE Inbox WITH inbox <- Queued, out <- Delivered

\* The mailbox is that queue: reads return every message once, in the
\* order the sends took effect, and all that is unread (SQLiteMailbox).
IsQueue == InboxImpl!Spec

Returned(m) == \E i \in DOMAIN log : log[i].row.msg = m

\* A message whose send succeeded is read at last, unless the agent it was
\* sent to is removed: no cursor passes it by, no read in flight blocks the
\* others for ever (Send, Read and its rollback).  A row that commits after
\* a higher id was read is passed by.
MessageArrives ==
  <>[](\A m \in Msg : sends[m].at = "sent" => Returned(m) \/ life # sends[m].to \/ late)

=============================================================================
